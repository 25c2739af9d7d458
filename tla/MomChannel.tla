----------------------------- MODULE MomChannel -----------------------------
(***************************************************************************)
(* A channel of the Slack bot: what is said in it, its log.jsonl, and the   *)
(* context of the agent that answers: packages/mom/src/slack.ts, main.ts,   *)
(* agent.ts and context.ts.                                                 *)
(*                                                                          *)
(* A message is known by its number, which is its timestamp too. What a run *)
(* posts to Slack is left out, and so is "stop", which only ends an answer  *)
(* early. Slack may deliver a message again. Nothing is said between the    *)
(* backfill and the connection, and the clocks of Slack and of the host     *)
(* agree on which messages are older than the connection.                   *)
(***************************************************************************)
EXTENDS Integers, Sequences, FiniteSets, FiniteSetsExt, Functions

CONSTANTS
  MaxMessages,   \* messages of users
  MaxBackfill,   \* messages of users on the pages of a backfill (3 of 1000 each)
  MaxRepeats,    \* lines of messages that are in the log already
  MaxEvents,     \* events that fall due
  QueueLimit,    \* events that may wait (5 in the code)
  Environment    \* what may happen, of Happenings

\* The bot ends at any time; an event falls due before the backfill; Slack
\* cannot be reached for the backfill; one text is said again; users are not
\* in the list the bot has; a message is delivered again to the bot that took it
\* as new; an old message is delivered before the time of the start is noted.
Happenings == {"crash", "early", "unreachable", "repeat", "stranger", "retry", "hasty"}

ChannelAssumption ==
  /\ {MaxMessages, MaxBackfill, MaxRepeats, MaxEvents} \subseteq Nat
  /\ QueueLimit \in Nat \ {0}
  /\ Environment \subseteq Happenings

VARIABLES
  status,   \* of the bot: "down", "starting" or "up"
  said,     \* the messages of the channel, oldest first
  startup,  \* startupTs: the messages up to it are older than the connection
  since,    \* history: the messages up to it were said before there was a log, or
            \* were beyond the pages of a backfill
  log,      \* log.jsonl
  context,  \* the user messages in the session's entries, without their times
  answered, \* whether the session's file is written, as of the first answer
  queue,    \* events that wait in the ChannelQueue
  run,      \* what handleEvent does
  events    \* events so far

vars == <<status, said, startup, since, log, context, answered, queue, run, events>>

Message(text, known) == [text |-> text, known |-> known]

\* Lines of users have the time of their message, lines of the bot are written
\* behind the message said last.
UserLine(m) == [ts |-> m, bot |-> FALSE]
BotLine == [ts |-> Len(said), bot |-> TRUE]

Idle == [phase |-> "idle", message |-> 0, synced |-> {}]

\* A run for a message, or for an event with message 0.
Started(message) == [Idle EXCEPT !.phase = "posting", !.message = message]

Logged == {log[i].ts : i \in {j \in DOMAIN log : ~log[j].bot}}

\* Messages, oldest first.
InOrder(S) ==
  CHOOSE f \in [1..Cardinality(S) -> S] :
    Range(f) = S /\ \A i, j \in DOMAIN f : i < j => f[i] < f[j]

-----------------------------------------------------------------------------
(* slack.ts.                                                                *)

\* The messages behind the newest line, which Slack is asked for (backfillChannel).
Behind == {m \in DOMAIN said : m > Max({log[i].ts : i \in DOMAIN log})}

\* Defect: the pages hold the oldest messages first.
Beyond_Oldest == {m \in Behind : m > Max({log[i].ts : i \in DOMAIN log}) + MaxBackfill}

\* Those that the pages do not hold, for the newest come first. No later backfill
\* asks for them.
Beyond == {m \in Behind : m + MaxBackfill <= Len(said)}

\* What is to be logged of a channel with a log.
Backfill == InOrder((Behind \ Beyond) \ Logged)

\* The handlers of "message" and "app_mention". A message is logged, whether it is
\* in the log or not; a new one that is to the bot starts a run when none is on.
Deliver(m, toBot) ==
  /\ log' = Append(log, UserLine(m))
  /\ run' = IF toBot /\ (m > startup \/ "hasty" \in Environment) /\ run.phase = "idle"
            THEN Started(m) ELSE run

\* What is said while the bot is down waits for the backfill.
Say(toBot, text, known) ==
  /\ Len(said) < MaxMessages
  /\ text = Len(said) + 1 \/ ("repeat" \in Environment /\ text \in DOMAIN said)
  /\ known \/ "stranger" \in Environment
  /\ said' = Append(said, Message(text, known))
  /\ IF status = "up" THEN Deliver(Len(said) + 1, toBot) ELSE UNCHANGED <<log, run>>
  /\ UNCHANGED <<status, startup, since, context, answered, queue, events>>

\* Slack delivers a message again, as it does on a reconnect with those it has no
\* acknowledgement of.
Replay(m, toBot) ==
  /\ status = "up" /\ m \in DOMAIN said
  /\ m <= startup \/ "retry" \in Environment
  /\ m \in Logged => Cardinality({i \in DOMAIN log : ~log[i].bot}) < Cardinality(Logged) + MaxRepeats
  /\ Deliver(m, toBot)
  /\ UNCHANGED <<status, said, startup, since, context, answered, queue, events>>

\* enqueueEvent. An event that finds the queue full is dropped.
EventDue ==
  /\ events < MaxEvents
  /\ status = "up" \/ (status = "starting" /\ "early" \in Environment)
  /\ events' = events + 1
  /\ \/ run.phase = "idle" /\ run' = Started(0) /\ UNCHANGED queue
     \/ run.phase # "idle" /\ queue < QueueLimit /\ queue' = queue + 1 /\ UNCHANGED run
     \/ queue >= QueueLimit /\ UNCHANGED <<queue, run>>
  /\ UNCHANGED <<status, said, startup, since, log, context, answered>>

\* handleEvent returns, and the queue goes on.
RunEnds ==
  IF queue > 0 THEN run' = Started(0) /\ queue' = queue - 1
  ELSE run' = Idle /\ UNCHANGED queue

-----------------------------------------------------------------------------
(* run() in agent.ts.                                                       *)

\* As a message stands in the context, for a line of the log and for a prompt.
LoggedText(m) == <<IF said[m].known THEN "name" ELSE "id", said[m].text>>
PromptText(m) == <<IF said[m].known THEN "name" ELSE "unknown", said[m].text>>

\* Defect: the message of the run is synced as well.
Unsynced_All == {m \in Logged : LoggedText(m) \notin Range(context)}

\* The logged messages whose text is not in the context.
Unsynced ==
  {m \in Logged \ {run.message} : LoggedText(m) \notin Range(context)}

\* syncLogToSessionManager, which takes one text once.
Sync ==
  /\ run.phase = "posting"
  /\ LET firsts == {m \in Unsynced : \A o \in Unsynced : LoggedText(o) = LoggedText(m) => m <= o}
         messages == InOrder(firsts)
     IN  context' = context \o [i \in DOMAIN messages |-> LoggedText(messages[i])]
  /\ run' = [run EXCEPT !.phase = "preparing", !.synced = Logged]
  /\ UNCHANGED <<status, said, startup, since, log, answered, queue, events>>

\* session.prompt, which throws without a key or a model.
Prompt ==
  /\ run.phase = "preparing"
  /\ \/ /\ run' = [run EXCEPT !.phase = "prompting"]
        /\ context' = IF run.message = 0 THEN context ELSE Append(context, PromptText(run.message))
        /\ UNCHANGED queue
     \/ RunEnds /\ UNCHANGED context
  /\ UNCHANGED <<status, said, startup, since, log, answered, events>>

\* The agent is done or aborted. What it said is logged.
Answer ==
  /\ run.phase = "prompting"
  /\ run' = [run EXCEPT !.phase = "reporting"]
  /\ answered' = TRUE
  /\ log' \in {log, Append(log, BotLine)}
  /\ UNCHANGED <<status, said, startup, since, context, queue, events>>

Report ==
  /\ run.phase = "reporting" /\ RunEnds
  /\ UNCHANGED <<status, said, startup, since, log, context, answered, events>>

-----------------------------------------------------------------------------
(* The process.                                                             *)

\* Whatever was not written to a file is gone.
Crash ==
  /\ "crash" \in Environment /\ status # "down"
  /\ status' = "down" /\ run' = Idle /\ queue' = 0
  /\ context' = IF answered THEN context ELSE <<>>
  /\ UNCHANGED <<said, startup, since, log, answered, events>>

\* main.ts: the watcher of events starts, and after it the bot.
Start ==
  /\ status = "down" /\ status' = "starting"
  /\ UNCHANGED <<said, startup, since, log, context, answered, queue, run, events>>

\* backfillAllChannels, which leaves out a channel without a log, and the connection.
Connect ==
  /\ status = "starting" /\ status' = "up" /\ startup' = Len(said)
  /\ \/ /\ log # <<>>
        /\ log' = log \o [i \in DOMAIN Backfill |-> UserLine(Backfill[i])]
        /\ since' = IF Cardinality(Behind) <= MaxBackfill THEN since
                    ELSE Max({since, Len(said) - MaxBackfill})
     \/ log = <<>> /\ since' = Len(said) /\ UNCHANGED log
     \/ "unreachable" \in Environment /\ UNCHANGED <<since, log>>
  /\ UNCHANGED <<said, context, answered, queue, run, events>>

-----------------------------------------------------------------------------
Init ==
  /\ status = "starting" /\ said = <<>> /\ startup = 0 /\ since = 0
  /\ log = <<>> /\ context = <<>>
  /\ answered = FALSE /\ queue = 0 /\ run = Idle /\ events = 0

Next ==
  \/ \E toBot, known \in BOOLEAN, text \in 1..MaxMessages : Say(toBot, text, known)
  \/ \E m \in 1..MaxMessages, toBot \in BOOLEAN : Replay(m, toBot)
  \/ EventDue
  \/ Sync \/ Prompt \/ Answer \/ Report
  \/ Crash \/ Start \/ Connect

Spec == Init /\ [][Next]_vars

-----------------------------------------------------------------------------
\* While the bot is up, what was said in a channel since it has a log is in the log,
\* whether the bot was there or not, but for what was said, after it left, before the
\* newest MaxBackfill messages (logUserMessage, backfillChannel). What Slack delivered
\* again may be there again.
LogIsComplete == status = "up" => \A m \in DOMAIN said : m > since => m \in Logged

\* The agent answers in the knowledge of all that was logged before it looked,
\* and of the message it answers, none of it twice, after any crash and any
\* delivery of an old message (syncLogToSessionManager and run).
Times(m) ==
  Cardinality({i \in DOMAIN context : context[i] \in {LoggedText(m), PromptText(m)}})

AnswersKnowTheLog ==
  run.phase = "prompting" => \A m \in run.synced \cup ({run.message} \ {0}) : Times(m) = 1

ContextFollowsChannel == LogIsComplete /\ AnswersKnowTheLog
===============================================================================
