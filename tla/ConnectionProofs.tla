--------------------------- MODULE ConnectionProofs ---------------------------
(***************************************************************************)
(* What goes over connections: the sockets that the streams of a session   *)
(* share (CodexSockets, extended), the attempts of a request               *)
(* (RequestRetries), those who watch a session of the gateway              *)
(* (GatewaySessions), and the clients attached to the socket of a session  *)
(* (SocketServer), for any number of each.                                 *)
(***************************************************************************)
EXTENDS CodexSockets, SequenceTheorems, FiniteSetTheorems, TLAPS

More(s) == [of |-> s, type |-> "more"]
Last(s) == [of |-> s, type |-> "last"]
Answers == [of : Stream, type : {"more", "last"}]
Runs(s, k) == at[s] = "running" /\ socket[s] = k

SocketsType ==
  /\ at \in [Stream -> {"idle", "connecting", "running", "over"}]
  /\ socket \in [Stream -> Nat]
  /\ mode \in [Stream -> {"none", "own", "cached", "new"}]
  /\ starts \in [Stream -> Nat]
  /\ got \in [Stream -> Seq(Answers)]
  /\ owed \in Seq(Seq(Answers))
  /\ open \subseteq Sockets
  /\ websocketSessionCache \in {0} \cup Sockets

\* A stream has started once if at all, and nothing before it is sent.
StartedOnce ==
  \A s \in Stream : /\ starts[s] <= 1
                    /\ at[s] \in {"idle", "connecting"} => starts[s] = 0 /\ got[s] = <<>>

\* What a stream has read is its own.
ReadsItsOwn == \A s \in Stream : \A i \in DOMAIN got[s] : got[s][i].of = s

\* Between what a stream has read and what its server owes it lies its answer.
Reads(s, k) ==
  \/ got[s] = <<>> /\ owed[k] = <<More(s), Last(s)>>
  \/ got[s] = <<More(s)>> /\ owed[k] = <<Last(s)>>
  \/ got[s] = <<More(s), Last(s)>> /\ owed[k] = <<>>

\* A stream that runs has a socket, on which its answer is to come.
HasSocket == \A s \in Stream, k \in Nat : Runs(s, k) => k \in Sockets /\ Reads(s, k)

\* No two streams run on one socket.
OneStream == \A s, t \in Stream, k \in Nat : Runs(s, k) /\ Runs(t, k) => s = t

\* The socket of a stream is marked busy, or will not be found in the cache.
Guarded == \A s \in Stream, k \in Nat :
             Runs(s, k) => IF mode[s] = "own" THEN k # Cached ELSE k \in busy

\* A connection is made to be cached or to be a stream's own.
ModeIsChosen == \A s \in Stream : at[s] = "connecting" => mode[s] \in {"own", "new"}

\* An open socket runs a stream, or it is idle: it owes nothing and its timer is set.
Idle(k) == k \in timer /\ k \notin busy /\ owed[k] = <<>>
InUse(k) == \E s \in Stream : Runs(s, k)
OpenInUse == \A k \in open : InUse(k) \/ Idle(k)

SocketsInv ==
  /\ SocketsType /\ StartedOnce /\ ReadsItsOwn /\ HasSocket /\ OneStream
  /\ Guarded /\ ModeIsChosen /\ OpenInUse

USE DEF Sockets

-----------------------------------------------------------------------------
(* Sequences *)

LEMMA TwoAnswers ==
  ASSUME NEW S, NEW a \in S, NEW b \in S
  PROVE  /\ <<>> \o <<a, b>> = <<a, b>>
         /\ Append(<<>>, a) = <<a>> /\ Append(<<a>>, b) = <<a, b>>
         /\ Head(<<a, b>>) = a /\ Tail(<<a, b>>) = <<b>>
         /\ Head(<<a>>) = a /\ Tail(<<a>>) = <<>>
         /\ <<a, b>> # <<>> /\ <<a>> # <<>>
<1>1. Append(<<>>, a) = <<a>> /\ Append(<<a>>, b) = <<a, b>>
  <2>1. <<>> \in Seq(S) /\ <<a>> \in Seq(S)
    OBVIOUS
  <2>2. Append(<<>>, a) = <<a>>
    BY <2>1, AppendProperties
  <2>3. Append(<<a>>, b) = <<a, b>>
    <3> DEFINE A == Append(<<a>>, b)
    <3>1. A \in Seq(S) /\ Len(A) = 2 /\ A[1] = a /\ A[2] = b
      BY <2>1, AppendProperties, Len(<<a>>) = 1, <<a>>[1] = a
    <3>2. <<a, b>> \in Seq(S) /\ Len(<<a, b>>) = 2 /\ <<a, b>>[1] = a /\ <<a, b>>[2] = b
      OBVIOUS
    <3>3. \A i \in 1..2 : i = 1 \/ i = 2
      OBVIOUS
    <3> HIDE DEF A
    <3>4. A = <<a, b>>
      BY <3>1, <3>2, <3>3, SeqEqual
    <3> QED
      BY <3>4 DEF A
  <2> QED
    BY <2>2, <2>3
<1>2. Head(<<a, b>>) = a /\ Head(<<a>>) = a /\ <<a, b>> # <<>> /\ <<a>> # <<>>
  OBVIOUS
<1>3. Tail(<<a, b>>) = <<b>>
  OBVIOUS
<1>4. Tail(<<a>>) = <<>>
  OBVIOUS
<1>5. <<>> \o <<a, b>> = <<a, b>>
  OBVIOUS
<1> QED
  BY <1>1, <1>2, <1>3, <1>4, <1>5

LEMMA AnswersAreSeqs ==
  ASSUME NEW s \in Stream
  PROVE  /\ More(s) \in Answers /\ Last(s) \in Answers /\ More(s) # Last(s)
         /\ More(s).of = s /\ Last(s).of = s /\ More(s).type # "last" /\ Last(s).type = "last"
         /\ <<>> \in Seq(Answers) /\ <<More(s)>> \in Seq(Answers)
         /\ <<Last(s)>> \in Seq(Answers) /\ <<More(s), Last(s)>> \in Seq(Answers)
  BY DEF More, Last, Answers

\* A stream of which the last message has come is owed nothing more.
LEMMA LastIsRead ==
  ASSUME NEW s \in Stream, NEW k \in Nat, Reads(s, k), HasLast(s)
  PROVE  owed[k] = <<>>
<1>1. CASE got[s] = <<>>
  BY <1>1 DEF HasLast
<1>2. CASE got[s] = <<More(s)>>
  <2>1. got[s][Len(got[s])] = More(s)
    BY <1>2
  <2> QED
    BY <2>1, AnswersAreSeqs DEF HasLast
<1> QED
  BY <1>1, <1>2 DEF Reads

\* The streams that listen to a socket are those that run on it.
LEMMA ListenersRun ==
  ASSUME NEW k
  PROVE  /\ \A s \in Stream : s \in Listening(k) <=> Runs(s, k)
         /\ Listening(k) # {} <=> InUse(k)
  BY DEF Listening, Runs, InUse

-----------------------------------------------------------------------------
(* The invariant, step by step *)

LEMMA SocketsInit == ASSUME Init PROVE SocketsInv
<1>1. SocketsType
  BY DEF Init, SocketsType
<1>2. \A s \in Stream, k \in Nat : ~Runs(s, k)
  BY DEF Init, Runs
<1>3. StartedOnce /\ ReadsItsOwn /\ ModeIsChosen /\ OpenInUse
  BY DEF Init, StartedOnce, ReadsItsOwn, ModeIsChosen, OpenInUse
<1> QED
  BY <1>1, <1>2, <1>3 DEF SocketsInv, HasSocket, OneStream, Guarded

\* Where a stream sets out on a socket that is idle or new.
LEMMA SendType ==
  ASSUME SocketsType, NEW s \in Stream, NEW k \in Nat, Send(s, k)
  PROVE  /\ at' \in [Stream -> {"idle", "connecting", "running", "over"}]
         /\ socket' \in [Stream -> Nat] /\ starts' \in [Stream -> Nat]
         /\ starts'[s] = starts[s] + 1 /\ at'[s] = "running"
         /\ \A t \in Stream : t # s => at'[t] = at[t] /\ starts'[t] = starts[t]
         /\ \A t \in Stream, j \in Nat : (Runs(t, j))' <=> IF t = s THEN j = k ELSE Runs(t, j)
  BY DEF Send, SocketsType, Runs

LEMMA ReuseKeeps ==
  ASSUME SocketsInv, NEW s \in Stream, Reuse(s)
  PROVE  SocketsInv'
<1> USE DEF SocketsInv
<1> DEFINE k == Cached
<1>1. /\ at[s] = "idle" /\ k # 0 /\ k \notin busy /\ k \in open
      /\ timer' = timer \ {k} /\ busy' = busy \cup {k}
      /\ mode' = [mode EXCEPT ![s] = "cached"] /\ Send(s, k)
      /\ owed' = [owed EXCEPT ![k] = @ \o Asks(s)]
      /\ UNCHANGED <<got, open, websocketSessionCache>>
  BY DEF Reuse, BusyWith
<1>2. k \in Sockets /\ k \in Nat /\ Sockets = 1..Len(owed)
  BY <1>1 DEF SocketsType, Cached
<1>3. PICK c \in Nat : c = k
  BY <1>2
<1>4. ~InUse(c) /\ Idle(c)
  BY <1>1, <1>2, <1>3 DEF OpenInUse, Guarded, InUse, Cached
<1>5. got[s] = <<>> /\ starts[s] = 0
  BY <1>1 DEF StartedOnce
<1>6. /\ owed'[c] = <<More(s), Last(s)>>
      /\ \A j \in Sockets : j # c => owed'[j] = owed[j]
      /\ owed' \in Seq(Seq(Answers)) /\ DOMAIN owed' = Sockets
  <2>1. owed' = [owed EXCEPT ![c] = <<More(s), Last(s)>>]
    BY <1>1, <1>3, <1>4, AnswersAreSeqs, TwoAnswers DEF Idle, Asks, More, Last
  <2> QED
    BY <1>2, <1>3, <2>1, AnswersAreSeqs DEF SocketsType
<1>7. /\ starts'[s] = 1 /\ at'[s] = "running"
      /\ \A t \in Stream : t # s => at'[t] = at[t] /\ starts'[t] = starts[t]
      /\ \A t \in Stream, j \in Nat : (Runs(t, j))' <=> IF t = s THEN j = c ELSE Runs(t, j)
  BY <1>1, <1>2, <1>3, <1>5, SendType
<1>8. SocketsType'
  BY <1>1, <1>2, <1>6, SendType DEF SocketsType
<1>9. StartedOnce' /\ ReadsItsOwn'
  BY <1>1, <1>5, <1>7 DEF StartedOnce, ReadsItsOwn
<1>10. HasSocket'
  <2>1. (Reads(s, c))'
    BY <1>1, <1>5, <1>6 DEF Reads, More, Last
  <2>2. ASSUME NEW t \in Stream, NEW j \in Nat, Runs(t, j), t # s PROVE (Reads(t, j))'
    <3>1. j # c /\ j \in Sockets /\ Reads(t, j)
      BY <1>4, <2>2 DEF InUse, HasSocket
    <3> QED
      BY <1>1, <1>6, <3>1 DEF Reads, More, Last
  <2> QED
    BY <1>2, <1>3, <1>6, <1>7, <2>1, <2>2 DEF HasSocket
<1>11. OneStream'
  BY <1>4, <1>7 DEF OneStream, InUse
<1>12. Guarded'
  BY <1>1, <1>3, <1>4, <1>7 DEF Guarded, InUse, Cached, SocketsType
<1>13. OpenInUse'
  <2>1. ASSUME NEW j \in open, j # c PROVE (InUse(j) \/ Idle(j))'
    <3>1. j \in Nat /\ j \in Sockets
      BY <1>2 DEF SocketsType
    <3> QED
      BY <1>1, <1>3, <1>6, <1>7, <2>1, <3>1 DEF OpenInUse, InUse, Idle, Cached, Runs
  <2>2. (InUse(c))'
    BY <1>7 DEF InUse
  <2> QED
    BY <1>1, <2>1, <2>2 DEF OpenInUse
<1>14. ModeIsChosen'
  BY <1>1, <1>7 DEF ModeIsChosen, SocketsType
<1> QED
  BY <1>8, <1>9, <1>10, <1>11, <1>12, <1>13, <1>14

LEMMA ConnectKeeps ==
  ASSUME SocketsInv, NEW s \in Stream, Connect(s)
  PROVE  SocketsInv'
<1> USE DEF SocketsInv
<1>1. /\ at[s] = "idle" /\ at' = [at EXCEPT ![s] = "connecting"]
      /\ mode' = [mode EXCEPT ![s] = IF Cached # 0 /\ Cached \in busy THEN "own" ELSE "new"]
      /\ timer' = timer \ {Cached}
      /\ Cached' = IF Cached \in busy THEN Cached ELSE 0
      /\ Cached = 0 \/ Cached \in busy \/ Cached \notin open
      /\ UNCHANGED <<socket, starts, got, open, owed, busy>>
  BY DEF Connect, Cached
<1>2. \A t \in Stream, j \in Nat : (Runs(t, j))' <=> Runs(t, j)
  BY <1>1 DEF Runs, SocketsType
<1>3. \A t \in Stream, j \in Nat : Runs(t, j) => mode'[t] = mode[t]
  BY <1>1 DEF Runs, SocketsType
<1>4. SocketsType'
  BY <1>1 DEF SocketsType, Cached
<1>5. StartedOnce' /\ ReadsItsOwn'
  BY <1>1 DEF StartedOnce, ReadsItsOwn, SocketsType
<1>6. HasSocket'
  BY <1>1, <1>2 DEF HasSocket, Reads, More, Last
<1>7. OneStream'
  BY <1>2 DEF OneStream
<1>8. Guarded'
  <2>1. \A j \in Nat : j \in Sockets => j # 0
    BY DEF SocketsType
  <2> QED
    BY <1>1, <1>2, <1>3, <2>1 DEF Guarded, HasSocket
<1>9. OpenInUse'
  <2>1. ASSUME NEW j \in open PROVE (InUse(j) \/ Idle(j))'
    <3>1. j \in Nat /\ j # 0
      BY DEF SocketsType
    <3>2. Idle(j) => j # Cached
      BY <1>1, <3>1 DEF Idle
    <3> QED
      BY <1>1, <1>2, <3>1, <3>2 DEF OpenInUse, InUse, Idle
  <2> QED
    BY <1>1, <2>1 DEF OpenInUse
<1>10. ModeIsChosen'
  BY <1>1 DEF ModeIsChosen, SocketsType
<1> QED
  BY <1>4, <1>5, <1>6, <1>7, <1>8, <1>9, <1>10

LEMMA ConnectedKeeps ==
  ASSUME SocketsInv, NEW s \in Stream, Connected(s)
  PROVE  SocketsInv'
<1> USE DEF SocketsInv
<1>1. PICK c \in Nat : c = Len(owed) + 1
  BY DEF SocketsType
<1>2. /\ at[s] = "connecting" /\ open' = open \cup {c}
      /\ owed' = Append(owed, <<More(s), Last(s)>>) /\ Send(s, c)
      /\ IF mode[s] = "new" THEN Cached' = c /\ busy' = busy \cup {c}
                            ELSE UNCHANGED <<websocketSessionCache, busy>>
      /\ UNCHANGED <<mode, got, timer>>
  BY <1>1 DEF Connected, Asks, More, Last, Cached
<1>3. Sockets = 1..Len(owed) /\ c \notin Sockets /\ \A j \in Sockets : j \in Nat
  BY <1>1 DEF SocketsType
<1>4. /\ owed' \in Seq(Seq(Answers)) /\ DOMAIN owed' = Sockets \cup {c}
      /\ owed'[c] = <<More(s), Last(s)>> /\ \A j \in Sockets : owed'[j] = owed[j]
  <2>1. owed \in Seq(Seq(Answers)) /\ <<More(s), Last(s)>> \in Seq(Answers)
    BY AnswersAreSeqs DEF SocketsType
  <2>2. /\ owed' \in Seq(Seq(Answers)) /\ Len(owed') = c /\ owed'[c] = <<More(s), Last(s)>>
        /\ \A j \in 1..Len(owed) : owed'[j] = owed[j]
    BY <1>1, <1>2, <2>1, AppendProperties
  <2> QED
    BY <1>1, <1>3, <2>2
<1>5. got[s] = <<>> /\ starts[s] = 0
  BY <1>2 DEF StartedOnce
<1>6. /\ starts'[s] = 1 /\ at'[s] = "running"
      /\ \A t \in Stream : t # s => at'[t] = at[t] /\ starts'[t] = starts[t]
      /\ \A t \in Stream, j \in Nat : (Runs(t, j))' <=> IF t = s THEN j = c ELSE Runs(t, j)
  BY <1>2, <1>5, SendType
<1>7. ~InUse(c)
  BY <1>3 DEF InUse, HasSocket
<1>8. SocketsType'
  <2>1. Cached' \in {0} \cup (DOMAIN owed')
    BY <1>2, <1>4 DEF SocketsType, Cached
  <2> QED
    BY <1>2, <1>4, <2>1, SendType DEF SocketsType, Cached
<1>9. StartedOnce' /\ ReadsItsOwn'
  BY <1>2, <1>5, <1>6 DEF StartedOnce, ReadsItsOwn
<1>10. HasSocket'
  <2>1. (Reads(s, c))'
    BY <1>2, <1>4, <1>5 DEF Reads, More, Last
  <2>2. ASSUME NEW t \in Stream, NEW j \in Nat, Runs(t, j) PROVE (Reads(t, j))'
    <3>1. j \in Sockets /\ Reads(t, j)
      BY <2>2 DEF HasSocket
    <3> QED
      BY <1>2, <1>4, <3>1 DEF Reads, More, Last
  <2> QED
    BY <1>4, <1>6, <2>1, <2>2 DEF HasSocket
<1>11. OneStream'
  BY <1>6, <1>7 DEF OneStream, InUse
<1>12. Guarded'
  <2>1. Cached # c
    BY <1>1, <1>3 DEF SocketsType, Cached
  <2>2. ASSUME NEW t \in Stream, NEW j \in Nat, Runs(t, j), t # s
        PROVE  IF mode[t] = "own" THEN j # Cached' ELSE j \in busy'
    <3>1. j # c
      BY <1>7, <2>2 DEF InUse
    <3> QED
      BY <1>2, <2>2, <3>1 DEF Guarded, Cached
  <2>3. IF mode[s] = "own" THEN c # Cached' ELSE c \in busy'
    <3>1. mode[s] \in {"own", "new"}
      BY <1>2 DEF ModeIsChosen
    <3> QED
      BY <1>2, <2>1, <3>1 DEF Cached
  <2> QED
    BY <1>2, <1>6, <2>2, <2>3 DEF Guarded
<1>13. OpenInUse'
  <2>1. ASSUME NEW j \in open PROVE (InUse(j) \/ Idle(j))'
    <3>1. j \in Sockets /\ j \in Nat /\ j # c
      BY <1>3 DEF SocketsType
    <3>2. InUse(j) => (InUse(j))'
      BY <1>2, <1>6, <3>1 DEF InUse, Runs
    <3>3. Idle(j) => (Idle(j))'
      BY <1>2, <1>4, <3>1 DEF Idle
    <3> QED
      BY <3>2, <3>3 DEF OpenInUse
  <2>2. (InUse(c))'
    BY <1>6 DEF InUse
  <2> QED
    BY <1>2, <2>1, <2>2 DEF OpenInUse
<1>14. ModeIsChosen'
  BY <1>2, <1>6 DEF ModeIsChosen
<1> QED
  BY <1>8, <1>9, <1>10, <1>11, <1>12, <1>13, <1>14

LEMMA ConnectFailsKeeps ==
  ASSUME SocketsInv, NEW s \in Stream, ConnectFails(s)
  PROVE  SocketsInv'
<1> USE DEF SocketsInv
<1>1. /\ at[s] = "connecting" /\ at' = [at EXCEPT ![s] = "over"]
      /\ starts' = [starts EXCEPT ![s] = @ + 1]
      /\ UNCHANGED <<socket, mode, got, open, owed, websocketSessionCache, busy, timer>>
  BY DEF ConnectFails, AfterFailure, FallsBack
<1>2. \A t \in Stream, j \in Nat : (Runs(t, j))' <=> Runs(t, j)
  BY <1>1 DEF Runs, SocketsType
<1>3. SocketsType'
  BY <1>1 DEF SocketsType
<1>4. StartedOnce' /\ ReadsItsOwn' /\ ModeIsChosen'
  BY <1>1 DEF StartedOnce, ReadsItsOwn, ModeIsChosen, SocketsType
<1>5. HasSocket' /\ OneStream' /\ Guarded'
  BY <1>1, <1>2 DEF HasSocket, Reads, More, Last, OneStream, Guarded, Cached
<1>6. OpenInUse'
  <2>1. \A j \in open : j \in Nat
    BY DEF SocketsType
  <2> QED
    BY <1>1, <1>2, <2>1 DEF OpenInUse, InUse, Idle
<1> QED
  BY <1>3, <1>4, <1>5, <1>6

\* A stream leaves its socket open only when it has read its answer to the end.
LEMMA ReleaseKeeps ==
  ASSUME SocketsInv, NEW s \in Stream, at[s] = "running", NEW keep \in BOOLEAN,
         keep => HasLast(s), Release(s, keep), UNCHANGED <<starts, got, owed>>
  PROVE  SocketsInv'
<1> USE DEF SocketsInv
<1>1. PICK c \in Nat : c = socket[s]
  BY DEF SocketsType
<1>2. /\ at' = [at EXCEPT ![s] = "over"] /\ UNCHANGED <<socket, mode>>
      /\ \/ /\ keep /\ mode[s] # "own" /\ c \in open
            /\ busy' = busy \ {c} /\ timer' = timer \cup {c}
            /\ UNCHANGED <<open, websocketSessionCache>>
         \/ /\ open' = open \ {c} /\ Cached' \in {0, Cached}
            /\ timer' \in {timer, timer \ {c}} /\ busy' = busy
  BY <1>1 DEF Release, Kept, KeptTimer, Dropped, Cached
<1>3. Runs(s, c) /\ c \in Sockets
  BY <1>1 DEF Runs, HasSocket
<1>4. \A t \in Stream, j \in Nat : (Runs(t, j))' <=> t # s /\ Runs(t, j)
  BY <1>2 DEF Runs, SocketsType
<1>5. \A t \in Stream : t # s => ~Runs(t, c)
  BY <1>3 DEF OneStream
<1>6. SocketsType'
  BY <1>2 DEF SocketsType, Cached
<1>7. StartedOnce' /\ ReadsItsOwn' /\ ModeIsChosen'
  BY <1>2 DEF StartedOnce, ReadsItsOwn, ModeIsChosen, SocketsType
<1>8. HasSocket' /\ OneStream'
  BY <1>4 DEF HasSocket, Reads, More, Last, OneStream
<1>9. Guarded'
  <2>1. ASSUME NEW t \in Stream, NEW j \in Nat, Runs(t, j), t # s
        PROVE  IF mode[t] = "own" THEN j # Cached' ELSE j \in busy'
    <3>1. j # c /\ j # 0
      BY <1>5, <2>1 DEF HasSocket, SocketsType
    <3> QED
      BY <1>2, <2>1, <3>1 DEF Guarded, Cached
  <2> QED
    BY <1>2, <1>4, <2>1 DEF Guarded
<1>10. OpenInUse'
  <2>1. ASSUME NEW j \in open, j # c PROVE (InUse(j) \/ Idle(j))'
    <3>1. j \in Nat
      BY DEF SocketsType
    <3>2. InUse(j) => (InUse(j))'
      BY <1>3, <1>4, <2>1, <3>1 DEF InUse, Runs
    <3>3. Idle(j) => (Idle(j))'
      BY <1>2, <2>1 DEF Idle
    <3> QED
      BY <3>2, <3>3 DEF OpenInUse
  <2>2. c \in open' => (Idle(c))'
    <3>1. SUFFICES ASSUME c \in open' PROVE (Idle(c))'
      OBVIOUS
    <3>2. keep /\ busy' = busy \ {c} /\ timer' = timer \cup {c}
      BY <1>2, <3>1
    <3>3. owed[c] = <<>>
      BY <1>3, <3>2, LastIsRead DEF HasSocket
    <3> QED
      BY <3>2, <3>3 DEF Idle
  <2> QED
    BY <1>2, <2>1, <2>2 DEF OpenInUse
<1> QED
  BY <1>6, <1>7, <1>8, <1>9, <1>10

LEMMA CompleteKeeps ==
  ASSUME SocketsInv, NEW s \in Stream, Complete(s)
  PROVE  SocketsInv'
  BY ReleaseKeeps DEF Complete

LEMMA BreakKeeps ==
  ASSUME SocketsInv, NEW s \in Stream, Break(s)
  PROVE  SocketsInv'
<1>1. starts' = starts
  BY DEF Break, AfterFailure, FallsBack, SocketsInv, SocketsType
<1> QED
  BY <1>1, ReleaseKeeps DEF Break

LEMMA MessageKeeps ==
  ASSUME SocketsInv, NEW k \in Sockets, Message(k)
  PROVE  SocketsInv'
<1> USE DEF SocketsInv
<1>1. /\ k \in open /\ owed[k] # <<>> /\ owed' = [owed EXCEPT ![k] = Tail(@)]
      /\ got' = [t \in Stream |-> IF Runs(t, k) THEN Append(got[t], Head(owed[k])) ELSE got[t]]
      /\ UNCHANGED <<at, socket, mode, starts, open, websocketSessionCache, busy, timer>>
  BY ListenersRun DEF Message
<1>2. k \in Nat
  BY DEF SocketsType
<1>3. PICK s \in Stream : Runs(s, k)
  BY <1>1 DEF OpenInUse, Idle, InUse
<1>4. \A t \in Stream : Runs(t, k) <=> t = s
  BY <1>2, <1>3 DEF OneStream
<1>5. \A t \in Stream, j \in Nat : (Runs(t, j))' <=> Runs(t, j)
  BY <1>1 DEF Runs
<1>6. /\ owed' \in Seq(Seq(Answers)) /\ DOMAIN owed' = Sockets /\ owed'[k] = Tail(owed[k])
      /\ \A j \in Sockets : j # k => owed'[j] = owed[j]
  <2>1. Tail(owed[k]) \in Seq(Answers)
    BY <1>1 DEF SocketsType
  <2> QED
    BY <1>1, <2>1 DEF SocketsType
<1>7. \/ got[s] = <<>> /\ got'[s] = <<More(s)>> /\ owed'[k] = <<Last(s)>>
      \/ got[s] = <<More(s)>> /\ got'[s] = <<More(s), Last(s)>> /\ owed'[k] = <<>>
  <2>1. Reads(s, k)
    BY <1>2, <1>3 DEF HasSocket
  <2>2. got'[s] = Append(got[s], Head(owed[k]))
    BY <1>1, <1>3
  <2> DEFINE m == More(s)
             l == Last(s)
  <2>3. m \in Answers /\ l \in Answers
    BY AnswersAreSeqs
  <2>4. \/ got[s] = <<>> /\ owed[k] = <<m, l>>
        \/ got[s] = <<m>> /\ owed[k] = <<l>>
    BY <1>1, <2>1 DEF Reads
  <2> HIDE DEF m, l
  <2>5. CASE got[s] = <<>> /\ owed[k] = <<m, l>>
    <3>1. got'[s] = <<m>> /\ owed'[k] = <<l>>
      BY <1>6, <2>2, <2>3, <2>5, TwoAnswers
    <3> QED
      BY <2>5, <3>1 DEF m, l
  <2>6. CASE got[s] = <<m>> /\ owed[k] = <<l>>
    <3>1. got'[s] = <<m, l>> /\ owed'[k] = <<>>
      BY <1>6, <2>2, <2>3, <2>6, TwoAnswers
    <3> QED
      BY <2>6, <3>1 DEF m, l
  <2> QED
    BY <2>4, <2>5, <2>6
<1>8. \A t \in Stream : t # s => got'[t] = got[t]
  BY <1>1, <1>4
<1>9. SocketsType'
  <2>1. got' \in [Stream -> Seq(Answers)]
    <3>1. got'[s] \in Seq(Answers)
      BY <1>7, AnswersAreSeqs
    <3>2. \A t \in Stream : got'[t] \in Seq(Answers)
      BY <1>8, <3>1 DEF SocketsType
    <3> QED
      BY <1>1, <3>2
  <2> QED
    BY <1>1, <1>6, <2>1 DEF SocketsType
<1>10. ReadsItsOwn'
  <2>1. \A i \in DOMAIN got'[s] : got'[s][i].of = s
    BY <1>7, AnswersAreSeqs
  <2> QED
    BY <1>8, <2>1 DEF ReadsItsOwn
<1>11. StartedOnce' /\ ModeIsChosen' /\ Guarded' /\ OneStream'
  <2>1. at[s] = "running"
    BY <1>3 DEF Runs
  <2> QED
    BY <1>1, <1>5, <1>8, <2>1 DEF StartedOnce, ModeIsChosen, Guarded, OneStream, Cached
<1>12. HasSocket'
  <2>1. (Reads(s, k))'
    BY <1>7 DEF Reads, More, Last
  <2>2. ASSUME NEW t \in Stream, NEW j \in Nat, Runs(t, j), t # s PROVE j \in Sockets /\ (Reads(t, j))'
    <3>1. j # k /\ j \in Sockets /\ Reads(t, j)
      BY <1>4, <2>2 DEF HasSocket
    <3> QED
      BY <1>6, <1>8, <2>2, <3>1 DEF Reads, More, Last
  <2>3. \A j \in Nat : Runs(s, j) => j = k
    BY <1>3 DEF Runs
  <2> QED
    BY <1>5, <1>6, <2>1, <2>2, <2>3 DEF HasSocket
<1>13. OpenInUse'
  <2>1. ASSUME NEW j \in open PROVE (InUse(j) \/ Idle(j))'
    <3>1. j \in Nat /\ j \in Sockets
      BY DEF SocketsType
    <3>2. InUse(j) => (InUse(j))'
      BY <1>5, <3>1 DEF InUse, Runs
    <3>3. Idle(j) => (Idle(j))'
      BY <1>1, <1>6, <3>1 DEF Idle
    <3> QED
      BY <3>2, <3>3 DEF OpenInUse
  <2> QED
    BY <1>1, <2>1 DEF OpenInUse
<1> QED
  BY <1>9, <1>10, <1>11, <1>12, <1>13

LEMMA CloseKeeps ==
  ASSUME SocketsInv, NEW k, open' \in {open, open \ {k}}, Cached' \in {0, Cached},
         timer' \in {timer, timer \ {k}}, k \in open' => k \in busy,
         UNCHANGED <<at, socket, mode, starts, got, owed, busy>>
  PROVE  SocketsInv'
<1> USE DEF SocketsInv
<1>1. \A t \in Stream, j \in Nat : (Runs(t, j))' <=> Runs(t, j)
  BY DEF Runs
<1>2. SocketsType'
  BY DEF SocketsType, Cached
<1>3. StartedOnce' /\ ReadsItsOwn' /\ ModeIsChosen'
  BY DEF StartedOnce, ReadsItsOwn, ModeIsChosen
<1>4. HasSocket' /\ OneStream'
  BY <1>1 DEF HasSocket, Reads, More, Last, OneStream
<1>5. Guarded'
  <2>1. \A t \in Stream, j \in Nat : Runs(t, j) => j # 0
    BY DEF HasSocket, SocketsType
  <2> QED
    BY <1>1, <2>1 DEF Guarded, Cached
<1>6. OpenInUse'
  <2>1. ASSUME NEW j \in open' PROVE (InUse(j) \/ Idle(j))'
    <3>1. j \in open /\ j \in Nat
      BY DEF SocketsType
    <3>2. InUse(j) => (InUse(j))'
      BY <1>1, <3>1 DEF InUse, Runs
    <3>3. Idle(j) => (Idle(j))'
      BY <2>1 DEF Idle
    <3> QED
      BY <3>1, <3>2, <3>3 DEF OpenInUse
  <2> QED
    BY <2>1 DEF OpenInUse
<1> QED
  BY <1>2, <1>3, <1>4, <1>5, <1>6

LEMMA ExpireKeeps ==
  ASSUME SocketsInv, NEW k \in Sockets, Expire(k)
  PROVE  SocketsInv'
<1>1. CASE k \in busy
  BY <1>1, CloseKeeps DEF Expire, Cached
<1>2. CASE k \notin busy
  BY <1>2, CloseKeeps DEF Expire, Cached
<1> QED
  BY <1>1, <1>2

LEMMA SocketsNext == ASSUME SocketsInv, [Next]_vars PROVE SocketsInv'
<1>1. ASSUME NEW s \in Stream, Step(s) PROVE SocketsInv'
  BY <1>1, ReuseKeeps, ConnectKeeps, ConnectedKeeps, ConnectFailsKeeps, CompleteKeeps,
     BreakKeeps DEF Step
<1>2. ASSUME NEW k \in Sockets, ServerCloses(k) PROVE SocketsInv'
  BY <1>2, CloseKeeps DEF ServerCloses, Cached
<1>3. CASE UNCHANGED vars
  BY <1>3 DEF vars, SocketsInv, SocketsType, StartedOnce, ReadsItsOwn, HasSocket, Reads,
              More, Last, OneStream, Guarded, ModeIsChosen, OpenInUse, InUse, Idle, Runs, Cached
<1> QED
  BY <1>1, <1>2, <1>3, MessageKeeps, ExpireKeeps DEF Next

LEMMA SocketsHold == ASSUME SocketsInv PROVE SocketsServeOneStream
  BY ListenersRun DEF SocketsInv, StartedOnce, ReadsItsOwn, OpenInUse, Idle, SocketsServeOneStream

\* However many streams of a session share its connections, each starts once and reads
\* its own answer only, and no open socket is left without a stream or a timer
\* (acquireWebSocket, release, scheduleSessionWebSocketExpiry).
THEOREM SocketsTheorem == Spec => []SocketsServeOneStream
  BY SocketsInit, SocketsNext, SocketsHold, PTL DEF Spec

-----------------------------------------------------------------------------
(* The loop over attempts (RequestRetries) *)

CONSTANTS Providers, Endpoints, MaxRetries
VARIABLES provider, attempt, endpointIndex, place, result, replies
Request == INSTANCE RequestRetries WITH at <- place

Sent == Len(replies)

RetriesType ==
  /\ provider \in Providers
  /\ attempt \in 0..MaxRetries /\ endpointIndex \in Nat
  /\ place \in {"fetching", "sleeping", "over"}
  /\ result \in {"pending", "ok", "failed", "aborted"}
  /\ replies \in Seq([reply : Request!Replies, endpoint : Nat])

\* Each attempt so far has its reply, but for the one that is being made.
AttemptsAreCounted ==
  /\ place = "fetching" => Sent = attempt
  /\ place = "sleeping" => Sent = attempt + 1 /\ attempt < MaxRetries
  /\ place = "over" => Sent \in {attempt, attempt + 1}
  /\ place # "over" => result = "pending"

\* What has been answered is over, and no endpoint comes before one tried earlier.
RepliesAreRefusals ==
  /\ \A i \in 1..Sent : i < Sent \/ place # "over" => replies[i].reply # "ok"
  /\ \A i \in 1..Sent : replies[i].endpoint <= endpointIndex
  /\ \A i \in 1..(Sent - 1) : replies[i].endpoint <= replies[i + 1].endpoint

\* How it ended says what the last reply was.
EndIsJustified ==
  /\ result = "ok" => replies[Sent].reply = "ok"
  /\ result = "failed" => \/ Sent = MaxRetries + 1
                          \/ replies[Sent].reply \notin {"retryable", "network", "elsewhere"}

RetriesInv == RetriesType /\ AttemptsAreCounted /\ RepliesAreRefusals /\ EndIsJustified

LEMMA RetriesInit == ASSUME Request!RetryAssumption, Request!Init PROVE RetriesInv
  BY DEF Request!RetryAssumption, Request!Init, RetriesInv, RetriesType, AttemptsAreCounted,
         RepliesAreRefusals, EndIsJustified, Sent

LEMMA FetchKeeps ==
  ASSUME Request!RetryAssumption, RetriesInv, NEW r \in Request!Replies, Request!Fetch(r)
  PROVE  RetriesInv'
<1> USE DEF RetriesInv, Request!RetryAssumption
<1>1. /\ place = "fetching" /\ result = "pending" /\ Sent = attempt /\ Sent \in Nat
      /\ provider' = provider
  BY DEF Request!Fetch, AttemptsAreCounted, RetriesType, Sent
<1>2. /\ replies' \in Seq([reply : Request!Replies, endpoint : Nat]) /\ Sent' = Sent + 1
      /\ replies'[Sent + 1] = [reply |-> r, endpoint |-> endpointIndex]
      /\ \A i \in 1..Sent : replies'[i] = replies[i]
  <2> DEFINE x == [reply |-> r, endpoint |-> endpointIndex]
             S == [reply : Request!Replies, endpoint : Nat]
  <2>1. x \in S /\ replies \in Seq(S) /\ replies' = Append(replies, x)
    BY DEF RetriesType, Request!Fetch
  <2> HIDE DEF x, S
  <2>2. /\ replies' \in Seq(S) /\ Len(replies') = Len(replies) + 1
        /\ replies'[Len(replies) + 1] = x
        /\ \A i \in 1..Len(replies) : replies'[i] = replies[i]
    BY <2>1, AppendProperties
  <2> QED
    BY <2>2 DEF Sent, x, S
<1>3. endpointIndex' \in Nat /\ endpointIndex <= endpointIndex'
  BY DEF Request!Fetch, RetriesType
\* The request is answered, is made again, is to be made again, or is given up.
<1>4. \/ r = "ok" /\ place' = "over" /\ result' = "ok" /\ attempt' = attempt
      \/ /\ r # "ok" /\ attempt < MaxRetries /\ result' = result
         /\ \/ place' = "fetching" /\ attempt' = attempt + 1
            \/ place' = "sleeping" /\ attempt' = attempt
      \/ /\ r # "ok" /\ place' = "over" /\ result' = "failed" /\ attempt' = attempt
         /\ attempt = MaxRetries \/ r = "limit"
  <2>1. attempt \in 0..MaxRetries /\ MaxRetries \in Nat
    BY DEF RetriesType
  <2>2. CASE r = "ok"
    BY <2>2 DEF Request!Fetch, Request!Over, Request!Retryable
  <2>3. ASSUME Request!Caught(r), r # "ok"
        PROVE  \/ /\ attempt < MaxRetries /\ result' = result
                  /\ place' = "sleeping" /\ attempt' = attempt
               \/ /\ place' = "over" /\ result' = "failed" /\ attempt' = attempt
                  /\ attempt = MaxRetries \/ r = "limit"
    BY <2>1, <2>3 DEF Request!Caught, Request!MayRetry, Request!Over
  <2>4. ASSUME Request!Continue, r # "ok"
        PROVE  \/ /\ attempt < MaxRetries /\ result' = result
                  /\ place' = "fetching" /\ attempt' = attempt + 1
               \/ /\ place' = "over" /\ result' = "failed" /\ attempt' = attempt
                  /\ attempt = MaxRetries
    BY <1>1, <2>1, <2>4 DEF Request!Continue, Request!MayRetry, Request!Over
  <2> QED
    BY <1>1, <2>2, <2>3, <2>4 DEF Request!Fetch, Request!MayRetry
<1>5. RetriesType'
  BY <1>1, <1>2, <1>3, <1>4 DEF RetriesType
<1>6. AttemptsAreCounted'
  BY <1>1, <1>2, <1>4 DEF AttemptsAreCounted, RetriesType
<1>7. RepliesAreRefusals'
  <2>1. ASSUME NEW i \in 1..(Sent + 1)
        PROVE  replies'[i].endpoint <= endpointIndex /\ replies'[i].endpoint \in Nat
    <3>1. CASE i = Sent + 1
      BY <1>2, <3>1 DEF RetriesType
    <3>2. CASE i \in 1..Sent
      <4> DEFINE S == [reply : Request!Replies, endpoint : Nat]
      <4>1. replies \in Seq(S) /\ i \in 1..Len(replies)
        BY <3>2 DEF RetriesType, Sent
      <4>2. replies[i] \in S
        <5> HIDE DEF S
        <5> QED
          BY <4>1, ElementOfSeq
      <4> QED
        BY <1>2, <3>2, <4>2 DEF RepliesAreRefusals
    <3> QED
      BY <1>1, <3>1, <3>2
  <2>2. \A i \in 1..(Sent + 1) : replies'[i].endpoint <= endpointIndex'
    BY <1>3, <2>1 DEF RetriesType
  <2>3. ASSUME NEW i \in 1..Sent PROVE replies'[i].endpoint <= replies'[i + 1].endpoint
    <3>1. CASE i = Sent
      BY <1>1, <1>2, <2>1, <3>1
    <3>2. CASE i \in 1..(Sent - 1)
      <4>1. i \in 1..Sent /\ i + 1 \in 1..Sent
        BY <1>1, <3>2
      <4> QED
        BY <1>2, <3>2, <4>1 DEF RepliesAreRefusals
    <3> QED
      BY <1>1, <3>1, <3>2
  <2>4. ASSUME NEW i \in 1..(Sent + 1), i < Sent + 1 \/ place' # "over"
        PROVE  replies'[i].reply # "ok"
    <3>1. CASE i = Sent + 1
      BY <1>2, <1>4, <2>4, <3>1
    <3>2. CASE i \in 1..Sent
      BY <1>1, <1>2, <3>2 DEF RepliesAreRefusals
    <3> QED
      BY <1>1, <3>1, <3>2
  <2>5. Sent' = Sent + 1 /\ Sent' - 1 = Sent
    BY <1>1, <1>2
  <2>6. \A i \in 1..Sent' : i < Sent' \/ place' # "over" => replies'[i].reply # "ok"
    BY <2>4, <2>5
  <2>7. \A i \in 1..Sent' : replies'[i].endpoint <= endpointIndex'
    BY <2>2, <2>5
  <2>8. \A i \in 1..(Sent' - 1) : replies'[i].endpoint <= replies'[i + 1].endpoint
    BY <2>3, <2>5
  <2> QED
    BY <2>6, <2>7, <2>8 DEF RepliesAreRefusals
<1>8. EndIsJustified'
  BY <1>1, <1>2, <1>4 DEF EndIsJustified, Request!Replies
<1> QED
  BY <1>5, <1>6, <1>7, <1>8

LEMMA RetriesNext ==
  ASSUME Request!RetryAssumption, RetriesInv, [Request!Next]_Request!vars
  PROVE  RetriesInv'
<1> USE DEF RetriesInv, Request!RetryAssumption
<1>1. ASSUME NEW r \in Request!Replies, Request!Fetch(r) PROVE RetriesInv'
  BY <1>1, FetchKeeps
<1>2. CASE Request!Wake
  BY <1>2 DEF Request!Wake, RetriesType, AttemptsAreCounted, RepliesAreRefusals, EndIsJustified, Sent
<1>3. CASE Request!Abort
  BY <1>3 DEF Request!Abort, Request!Over, RetriesType, AttemptsAreCounted, RepliesAreRefusals,
              EndIsJustified, Sent
<1>4. CASE UNCHANGED Request!vars
  BY <1>4 DEF Request!vars, RetriesType, AttemptsAreCounted, RepliesAreRefusals, EndIsJustified, Sent
<1> QED
  BY <1>1, <1>2, <1>3, <1>4 DEF Request!Next, Request!Answered

LEMMA RetriesHold ==
  ASSUME Request!RetryAssumption, RetriesInv PROVE Request!RetriesAreBounded
<1>2. Sent \in Nat /\ attempt \in 0..MaxRetries /\ MaxRetries \in Nat
  BY DEF RetriesInv, RetriesType, Sent, Request!RetryAssumption
<1>3. Sent <= MaxRetries + 1
  BY <1>2 DEF RetriesInv, AttemptsAreCounted, RetriesType
<1>4. \A i \in 1..(Sent - 1) : /\ replies[i].reply # "ok"
                               /\ replies[i].endpoint <= replies[i + 1].endpoint
  BY <1>2 DEF RetriesInv, RepliesAreRefusals
<1> QED
  BY <1>3, <1>4 DEF RetriesInv, EndIsJustified, Request!RetriesAreBounded, Sent

\* A request is made at most MaxRetries + 1 times, at endpoints in their order, not again
\* once it was answered, and is not given up before that as long as its failure may pass,
\* for any number of endpoints and retries (the loop over attempts).
THEOREM RetriesTheorem ==
  ASSUME Request!RetryAssumption PROVE Request!Spec => []Request!RetriesAreBounded
  BY RetriesInit, RetriesNext, RetriesHold, PTL DEF Request!Spec

-----------------------------------------------------------------------------
(* The sockets and streams that watch a session of the gateway (GatewaySessions) *)

CONSTANTS MaxSessions, MaxViewers, MaxChunks, MaxBufferLines, MaxInputs, LateBodies,
  OneContext
VARIABLES sessions, viewers, inputs
Gateway == INSTANCE GatewaySessions

Watched == DOMAIN sessions
Watchers == DOMAIN viewers

SessionRecords ==
  [listed : BOOLEAN, status : {"starting", "running", "stopped"},
   spawned : BOOLEAN, alive : BOOLEAN, killed : BOOLEAN,
   written : Nat, read : Nat, broken : BOOLEAN,
   buffer : Seq(Nat), subscribers : SUBSET Nat, sockets : SUBSET Nat, waiting : Nat]
ViewerRecords ==
  [kind : {"socket", "stream"}, session : Nat, state : {"open", "ending", "closed"},
   got : Seq(Nat), exits : BOOLEAN, unsub : BOOLEAN]

\* Chunks without a gap or a repetition up to the n-th, from the first one or as many
\* as the buffer holds.
UpTo(chunks, n) ==
  /\ Gateway!IsRun(chunks)
  /\ IF n = 0 THEN chunks = <<>>
     ELSE /\ chunks # <<>> /\ chunks[Len(chunks)] = n
          /\ Len(chunks) >= MaxBufferLines \/ chunks[1] = 1

\* A session: nothing was read before it has a process, its buffer ends with what was
\* read, and when it is destroyed its process is killed and no input is on its way.
SessionIsSound(r) ==
  /\ UpTo(r.buffer, r.read)
  /\ ~r.spawned => /\ r.written = 0 /\ r.read = 0 /\ r.status # "stopped"
                   /\ r.subscribers = {} /\ ~r.alive
  /\ ~r.listed => r.waiting = 0 /\ (r.spawned => r.killed)
  /\ r.read <= r.written

\* A socket or stream w, the v-th, follows its session.
Follows(v, w, r) ==
  /\ Gateway!IsRun(w.got) /\ (~r.spawned => w.got = <<>> /\ ~w.exits)
  /\ w.state = "open" /\ w.kind = "socket" => v \in r.sockets
  /\ w.state = "open" /\ (w.kind = "socket" \/ w.exits) /\ r.spawned =>
       /\ w.exits /\ r.status # "stopped"
       /\ ~r.broken => v \in r.subscribers /\ UpTo(w.got, r.read)
  /\ v \in r.subscribers \cup r.sockets => w.state # "closed"
  /\ v \in r.subscribers => w.exits

GatewayInv ==
  /\ sessions \in Seq(SessionRecords) /\ viewers \in Seq(ViewerRecords)
  /\ \A s \in Watched : SessionIsSound(sessions[s])
  /\ \A v \in Watchers : /\ viewers[v].session \in Watched
                         /\ Follows(v, viewers[v], sessions[viewers[v].session])
  /\ \A s \in Watched : \A v \in sessions[s].subscribers \cup sessions[s].sockets :
       v \in Watchers /\ viewers[v].session = s

-----------------------------------------------------------------------------
\* The next chunk continues a run.
LEMMA RunGrows ==
  ASSUME Gateway!GatewayAssumption, NEW n \in Nat, NEW chunks \in Seq(Nat), UpTo(chunks, n)
  PROVE  /\ Append(chunks, n + 1) \in Seq(Nat) /\ UpTo(Append(chunks, n + 1), n + 1)
         /\ Gateway!Buffered(chunks, n + 1) \in Seq(Nat)
         /\ UpTo(Gateway!Buffered(chunks, n + 1), n + 1)
<1> DEFINE longer == Append(chunks, n + 1)
<1>1. /\ longer \in Seq(Nat) /\ Len(longer) = Len(chunks) + 1 /\ longer[Len(chunks) + 1] = n + 1
      /\ \A i \in 1..Len(chunks) : longer[i] = chunks[i]
      /\ Len(chunks) \in Nat /\ \A i \in 1..Len(chunks) : chunks[i] \in Nat
  BY AppendProperties
<1>2. Gateway!Buffered(chunks, n + 1) =
        IF Len(longer) > MaxBufferLines THEN Tail(longer) ELSE longer
  BY DEF Gateway!Buffered
<1> HIDE DEF longer
<1>3. MaxBufferLines \in Nat \ {0}
  BY DEF Gateway!GatewayAssumption
<1>4. longer # <<>> /\ longer[Len(longer)] = n + 1
  BY <1>1
<1>5. ASSUME NEW i \in 1..(Len(longer) - 1) PROVE longer[i + 1] = longer[i] + 1
  <2>1. CASE i = Len(chunks)
    BY <1>1, <2>1 DEF UpTo
  <2>2. CASE i \in 1..(Len(chunks) - 1)
    <3>1. i \in 1..Len(chunks) /\ i + 1 \in 1..Len(chunks)
      BY <1>1, <2>2
    <3> QED
      BY <1>1, <2>2, <3>1 DEF UpTo, Gateway!IsRun
  <2> QED
    BY <1>1, <2>1, <2>2
<1>6. Gateway!IsRun(longer)
  BY <1>5 DEF Gateway!IsRun
<1>7. Len(longer) >= MaxBufferLines \/ longer[1] = 1
  <2>1. CASE n = 0
    BY <1>1, <2>1 DEF UpTo
  <2>2. CASE n # 0
    BY <1>1, <1>3, <2>2 DEF UpTo
  <2> QED
    BY <2>1, <2>2
<1>8. UpTo(longer, n + 1)
  BY <1>4, <1>6, <1>7 DEF UpTo
<1>9. ASSUME Len(longer) > MaxBufferLines PROVE Tail(longer) \in Seq(Nat) /\ UpTo(Tail(longer), n + 1)
  <2> DEFINE tail == Tail(longer)
  <2>1. /\ tail \in Seq(Nat) /\ Len(tail) = Len(longer) - 1
        /\ \A i \in 1..Len(tail) : tail[i] = longer[i + 1]
    BY <1>1, <1>4, HeadTailProperties
  <2> HIDE DEF tail
  <2>2. Len(tail) \in Nat /\ Len(tail) >= MaxBufferLines /\ Len(tail) \in 1..Len(tail)
    BY <1>1, <1>3, <1>9, <2>1
  <2>3. tail # <<>> /\ tail[Len(tail)] = n + 1
    BY <1>1, <1>4, <2>1, <2>2, SMTT(30)
  <2>4. ASSUME NEW i \in 1..(Len(tail) - 1) PROVE tail[i + 1] = tail[i] + 1
    <3>1. i + 1 \in 1..(Len(longer) - 1) /\ i \in 1..Len(tail) /\ i + 1 \in 1..Len(tail)
      BY <1>1, <2>1, <2>2
    <3> QED
      BY <1>5, <2>1, <3>1
  <2> QED
    BY <2>1, <2>2, <2>3, <2>4 DEF UpTo, Gateway!IsRun, tail
<1>10. longer \in Seq(Nat) /\ UpTo(longer, n + 1)
  BY <1>1, <1>8
<1> QED
  BY <1>2, <1>9, <1>10 DEF longer

LEMMA NothingIsARun ==
  ASSUME NEW chunks \in Seq(Nat)
  PROVE  Gateway!IsRun(<<>>) /\ UpTo(<<>>, 0) /\ <<>> \o chunks = chunks /\ <<>> \in Seq(Nat)
  BY DEF UpTo, Gateway!IsRun

LEMMA EmptyRun == Gateway!IsRun(<<>>) /\ UpTo(<<>>, 0)
  BY DEF UpTo, Gateway!IsRun

-----------------------------------------------------------------------------
\* One session changes, and those who watch it follow it.
LEMMA OneSession ==
  ASSUME GatewayInv, NEW s \in Watched, NEW r \in SessionRecords, SessionIsSound(r),
         r.subscribers \cup r.sockets \subseteq sessions[s].subscribers \cup sessions[s].sockets,
         sessions' = [sessions EXCEPT ![s] = r],
         viewers' \in Seq(ViewerRecords), DOMAIN viewers' = Watchers,
         \A v \in Watchers :
           /\ viewers'[v].session = viewers[v].session
           /\ viewers[v].session # s => viewers'[v] = viewers[v]
           /\ viewers[v].session = s => Follows(v, viewers'[v], r)
  PROVE  GatewayInv'
<1>1. sessions \in Seq(SessionRecords)
  BY DEF GatewayInv
<1>2. /\ sessions' \in Seq(SessionRecords) /\ DOMAIN sessions' = Watched
      /\ \A t \in Watched : sessions'[t] = IF t = s THEN r ELSE sessions[t]
  BY <1>1 DEF Watched
<1>3. \A t \in Watched : SessionIsSound(sessions'[t])
  BY <1>2 DEF GatewayInv
<1>4. \A v \in Watchers : /\ viewers'[v].session \in Watched
                          /\ Follows(v, viewers'[v], sessions'[viewers'[v].session])
  BY <1>2 DEF GatewayInv
<1>5. \A t \in Watched : \A v \in sessions'[t].subscribers \cup sessions'[t].sockets :
        v \in Watchers /\ viewers'[v].session = t
  BY <1>2 DEF GatewayInv
<1> QED
  BY <1>2, <1>3, <1>4, <1>5 DEF GatewayInv, Watched, Watchers

\* Only the session changes.
LEMMA SessionMoves ==
  ASSUME GatewayInv, NEW s \in Watched, NEW r \in SessionRecords, SessionIsSound(r),
         r.subscribers \cup r.sockets \subseteq sessions[s].subscribers \cup sessions[s].sockets,
         sessions' = [sessions EXCEPT ![s] = r], viewers' = viewers,
         \A v \in Watchers :
           Follows(v, viewers[v], sessions[s]) => Follows(v, viewers[v], r)
  PROVE  GatewayInv'
<1>1. viewers' \in Seq(ViewerRecords)
  BY DEF GatewayInv
<1>2. \A v \in Watchers : viewers[v].session = s => Follows(v, viewers'[v], r)
  BY DEF GatewayInv
<1> QED
  BY <1>1, <1>2, OneSession DEF Watchers

\* A socket or stream comes to a session.
LEMMA ViewerComes ==
  ASSUME GatewayInv, NEW s \in Watched, NEW r \in SessionRecords, SessionIsSound(r),
         NEW n \in Nat, n = Len(viewers) + 1, NEW w \in ViewerRecords, w.session = s,
         r.subscribers \cup r.sockets \subseteq sessions[s].subscribers \cup sessions[s].sockets \cup {n},
         sessions' = [sessions EXCEPT ![s] = r], viewers' = Append(viewers, w),
         Follows(n, w, r),
         \A v \in Watchers : Follows(v, viewers[v], sessions[s]) => Follows(v, viewers[v], r)
  PROVE  GatewayInv'
<1>1. sessions \in Seq(SessionRecords) /\ viewers \in Seq(ViewerRecords)
  BY DEF GatewayInv
<1>2. /\ sessions' \in Seq(SessionRecords) /\ DOMAIN sessions' = Watched
      /\ \A t \in Watched : sessions'[t] = IF t = s THEN r ELSE sessions[t]
  BY <1>1 DEF Watched
<1>3. /\ viewers' \in Seq(ViewerRecords) /\ DOMAIN viewers' = Watchers \cup {n} /\ n \notin Watchers
      /\ viewers'[n] = w /\ \A v \in Watchers : viewers'[v] = viewers[v]
  BY <1>1, AppendProperties DEF Watchers
<1>4. \A t \in Watched : SessionIsSound(sessions'[t])
  BY <1>2 DEF GatewayInv
<1>5. \A v \in Watchers \cup {n} : /\ viewers'[v].session \in Watched
                                   /\ Follows(v, viewers'[v], sessions'[viewers'[v].session])
  BY <1>2, <1>3 DEF GatewayInv
<1>6. \A t \in Watched : \A v \in sessions'[t].subscribers \cup sessions'[t].sockets :
        v \in Watchers \cup {n} /\ viewers'[v].session = t
  BY <1>2, <1>3 DEF GatewayInv
<1> QED
  BY <1>2, <1>3, <1>4, <1>5, <1>6 DEF GatewayInv, Watched, Watchers

\* A session is in the sequence as one of the records.
LEMMA SessionTyped ==
  ASSUME GatewayInv, NEW s \in Watched
  PROVE  \E r \in SessionRecords : r = sessions[s] /\ SessionIsSound(r)
<1>1. sessions \in Seq(SessionRecords) /\ s \in 1..Len(sessions)
  BY DEF GatewayInv, Watched
<1>2. sessions[s] \in SessionRecords
  <2> HIDE DEF SessionRecords
  <2> QED
    BY <1>1, ElementOfSeq
<1> QED
  BY <1>2 DEF GatewayInv

LEMMA ViewerTyped ==
  ASSUME GatewayInv, NEW v \in Watchers
  PROVE  /\ v \in Nat /\ viewers[v].session \in Watched
         /\ \E w \in ViewerRecords : w = viewers[v] /\ Follows(v, w, sessions[w.session])
<1>1. viewers \in Seq(ViewerRecords) /\ v \in 1..Len(viewers) /\ Len(viewers) \in Nat
  BY DEF GatewayInv, Watchers
<1>2. viewers[v] \in ViewerRecords
  <2> HIDE DEF ViewerRecords
  <2> QED
    BY <1>1, ElementOfSeq
<1> QED
  BY <1>1, <1>2 DEF GatewayInv

\* What a viewer gets when it begins to watch a session of which it has nothing.
LEMMA WatchFollows ==
  ASSUME NEW r \in SessionRecords, SessionIsSound(r), NEW w \in ViewerRecords, w.got = <<>>
  PROVE  \E x \in ViewerRecords :
           /\ x = Gateway!Watch(w, r)
           /\ x.kind = w.kind /\ x.session = w.session /\ x.got = r.buffer /\ x.exits
           /\ x.state = IF r.status = "stopped" THEN "ending" ELSE w.state
<1>1. r.buffer \in Seq(Nat)
  BY DEF SessionRecords
<1>2. w.got \o r.buffer = r.buffer
  BY <1>1, NothingIsARun
<1>3. Gateway!Replay(w, r.buffer) = [w EXCEPT !.got = r.buffer]
  BY <1>2 DEF Gateway!Replay
<1>4. PICK y \in ViewerRecords : /\ y = [w EXCEPT !.got = r.buffer] /\ y.got = r.buffer
                                 /\ y.kind = w.kind /\ y.session = w.session /\ y.state = w.state
  <2>1. PICK c \in Seq(Nat) : c = r.buffer
    BY <1>1
  <2> DEFINE y == [w EXCEPT !.got = c]
  <2>2. y \in ViewerRecords /\ y.got = c /\ y.kind = w.kind /\ y.session = w.session
        /\ y.state = w.state
    BY DEF ViewerRecords
  <2>3. y = [w EXCEPT !.got = r.buffer]
    BY <2>1
  <2> HIDE DEF y
  <2> QED
    BY <2>1, <2>2, <2>3
<1>5. Gateway!Watch(w, r) =
        [y EXCEPT !.exits = TRUE, !.state = IF r.status = "stopped" THEN "ending" ELSE @]
  BY <1>3, <1>4 DEF Gateway!Watch
<1> QED
  BY <1>4, <1>5, ZenonT(30) DEF ViewerRecords

LEMMA WatchersTyped ==
  ASSUME GatewayInv, NEW f, DOMAIN f = Watchers, f = [v \in Watchers |-> f[v]],
         \A v \in Watchers : f[v] \in ViewerRecords
  PROVE  f \in Seq(ViewerRecords)
<1>1. Watchers = 1..Len(viewers) /\ Len(viewers) \in Nat
  BY DEF GatewayInv, Watchers
<1> HIDE DEF ViewerRecords
<1>2. f \in [1..Len(viewers) -> ViewerRecords]
  BY <1>1
<1> QED
  BY <1>1, <1>2

-----------------------------------------------------------------------------
(* The steps of a session *)

LEMMA DestroyedSession ==
  ASSUME NEW r \in SessionRecords, SessionIsSound(r), r.waiting = 0
  PROVE  \E d \in SessionRecords :
           /\ d = Gateway!Destroyed(r) /\ SessionIsSound(d)
           /\ d.subscribers = r.subscribers /\ d.sockets = r.sockets
           /\ \A v, w : Follows(v, w, d) <=> Follows(v, w, r)
<1> DEFINE d == Gateway!Destroyed(r)
<1>1. PICK k \in BOOLEAN : k = (r.killed \/ (r.listed /\ r.spawned))
  OBVIOUS
<1>2. d = [r EXCEPT !.listed = FALSE, !.killed = k]
  BY <1>1 DEF Gateway!Destroyed
<1>3. /\ d \in SessionRecords /\ d.buffer = r.buffer /\ d.read = r.read /\ d.written = r.written
      /\ d.spawned = r.spawned /\ d.status = r.status /\ d.subscribers = r.subscribers
      /\ d.sockets = r.sockets /\ d.waiting = r.waiting /\ d.broken = r.broken
      /\ d.killed = k /\ d.alive = r.alive /\ d.listed = FALSE
  BY <1>2 DEF SessionRecords
<1> HIDE DEF d
<1>4. r.spawned => k
  <2>1. r.listed \in BOOLEAN /\ (~r.listed /\ r.spawned => r.killed)
    BY DEF SessionRecords, SessionIsSound
  <2> QED
    BY <1>1, <2>1
<1>5. SessionIsSound(d)
  BY <1>3, <1>4 DEF SessionIsSound
<1>6. \A v, w : Follows(v, w, d) <=> Follows(v, w, r)
  BY <1>3 DEF Follows
<1> QED
  BY <1>3, <1>5, <1>6 DEF d

LEMMA DestroyKeeps ==
  ASSUME GatewayInv, LateBodies = FALSE, NEW s \in Watched, Gateway!Destroy(s)
  PROVE  GatewayInv'
<1>1. PICK r \in SessionRecords : r = sessions[s] /\ SessionIsSound(r)
  BY SessionTyped
<1>2. r.waiting = 0 /\ viewers' = viewers
  BY <1>1 DEF Gateway!Destroy, Gateway!MayDestroy
<1>3. PICK d \in SessionRecords :
        /\ d = Gateway!Destroyed(r) /\ SessionIsSound(d)
        /\ d.subscribers = r.subscribers /\ d.sockets = r.sockets
        /\ \A v, w : Follows(v, w, d) <=> Follows(v, w, r)
  BY <1>1, <1>2, DestroyedSession
<1>4. sessions' = [sessions EXCEPT ![s] = d]
  BY <1>1, <1>3 DEF Gateway!Destroy
<1> QED
  BY <1>1, <1>2, <1>3, <1>4, SessionMoves

LEMMA DestroyAllKeeps ==
  ASSUME GatewayInv, LateBodies = FALSE, Gateway!DestroyAll
  PROVE  GatewayInv'
<1>1. /\ sessions' = [s \in Watched |-> Gateway!Destroyed(sessions[s])] /\ viewers' = viewers
      /\ \A s \in Watched : sessions[s].waiting = 0
  BY DEF Gateway!DestroyAll, Gateway!MayDestroy, Gateway!Sessions, Watched
<1>2. \A s \in Watched :
        /\ sessions'[s] \in SessionRecords /\ SessionIsSound(sessions'[s])
        /\ sessions'[s].subscribers = sessions[s].subscribers
        /\ sessions'[s].sockets = sessions[s].sockets
        /\ \A v, w : Follows(v, w, sessions'[s]) <=> Follows(v, w, sessions[s])
  <2>1. SUFFICES ASSUME NEW s \in Watched
                 PROVE  /\ sessions'[s] \in SessionRecords /\ SessionIsSound(sessions'[s])
                        /\ sessions'[s].subscribers = sessions[s].subscribers
                        /\ sessions'[s].sockets = sessions[s].sockets
                        /\ \A v, w : Follows(v, w, sessions'[s]) <=> Follows(v, w, sessions[s])
    OBVIOUS
  <2>2. PICK r \in SessionRecords : r = sessions[s] /\ SessionIsSound(r)
    BY SessionTyped
  <2> QED
    BY <1>1, <2>2, DestroyedSession
<1>3. sessions' \in Seq(SessionRecords) /\ DOMAIN sessions' = Watched
  <2>1. Watched = 1..Len(sessions) /\ Len(sessions) \in Nat
    BY DEF GatewayInv, Watched
  <2> HIDE DEF SessionRecords
  <2>2. sessions' \in [1..Len(sessions) -> SessionRecords]
    BY <1>1, <1>2, <2>1
  <2> QED
    BY <2>1, <2>2
<1>4. viewers' = viewers /\ viewers \in Seq(ViewerRecords)
  BY <1>1 DEF GatewayInv
<1>5. \A v \in Watchers : Follows(v, viewers[v], sessions'[viewers[v].session])
  BY <1>2 DEF GatewayInv
<1>6. \A s \in Watched : \A v \in sessions'[s].subscribers \cup sessions'[s].sockets :
        v \in Watchers /\ viewers[v].session = s
  BY <1>2 DEF GatewayInv
<1> QED
  BY <1>2, <1>3, <1>4, <1>5, <1>6 DEF GatewayInv, Watched, Watchers

LEMMA CreateKeeps ==
  ASSUME GatewayInv, Gateway!Create
  PROVE  GatewayInv'
<1>1. PICK command \in BOOLEAN : sessions' = Append(sessions, Gateway!NewSession(command))
  BY DEF Gateway!Create
<1> DEFINE r == Gateway!NewSession(command)
           n == Len(sessions) + 1
<1>2. /\ r \in SessionRecords /\ r.subscribers = {} /\ r.sockets = {}
      /\ SessionIsSound(r)
  <2> DEFINE e == <<>>
  <2>1. e \in Seq(Nat) /\ UpTo(e, 0)
    BY DEF UpTo, Gateway!IsRun
  <2>2. PICK t \in {"starting", "running"} : t = IF command THEN "running" ELSE "starting"
    OBVIOUS
  <2>3. r = [listed |-> TRUE, status |-> t, spawned |-> command, alive |-> command,
             killed |-> FALSE, written |-> 0, read |-> 0, broken |-> FALSE,
             buffer |-> e, subscribers |-> {}, sockets |-> {}, waiting |-> 0]
    BY <2>2 DEF Gateway!NewSession
  <2> HIDE DEF e
  <2>4. r \in SessionRecords
    <3> HIDE DEF r
    <3> QED
      BY <2>1, <2>3 DEF SessionRecords
  <2>5. r.status # "stopped" /\ r.spawned = command /\ r.alive = command /\ r.listed = TRUE
    BY <2>3
  <2> QED
    BY <2>1, <2>3, <2>4, <2>5 DEF SessionIsSound
<1> HIDE DEF r
<1>3. sessions \in Seq(SessionRecords) /\ viewers' = viewers /\ viewers \in Seq(ViewerRecords)
  BY DEF Gateway!Create, GatewayInv
<1>4. /\ sessions' \in Seq(SessionRecords) /\ DOMAIN sessions' = Watched \cup {n} /\ n \notin Watched
      /\ sessions'[n] = r /\ \A s \in Watched : sessions'[s] = sessions[s]
  <2> HIDE DEF SessionRecords
  <2> QED
    BY <1>1, <1>2, <1>3, AppendProperties DEF Watched, r
<1>5. \A s \in Watched \cup {n} : SessionIsSound(sessions'[s])
  BY <1>2, <1>4 DEF GatewayInv
<1>6. \A v \in Watchers : /\ viewers[v].session \in Watched
                          /\ Follows(v, viewers[v], sessions'[viewers[v].session])
  BY <1>4 DEF GatewayInv
<1>7. \A s \in Watched \cup {n} : \A v \in sessions'[s].subscribers \cup sessions'[s].sockets :
        v \in Watchers /\ viewers[v].session = s
  BY <1>2, <1>4 DEF GatewayInv
<1> QED
  BY <1>3, <1>4, <1>5, <1>6, <1>7 DEF GatewayInv, Watched, Watchers

LEMMA WritesKeeps ==
  ASSUME GatewayInv, NEW s \in Watched, Gateway!Writes(s)
  PROVE  GatewayInv'
<1>1. PICK r \in SessionRecords : r = sessions[s] /\ SessionIsSound(r)
  BY SessionTyped
<1>2. PICK n \in Nat : n = r.written + 1
  BY DEF SessionRecords
<1> DEFINE d == [r EXCEPT !.written = n]
<1>3. r.alive /\ sessions' = [sessions EXCEPT ![s] = d] /\ viewers' = viewers
  BY <1>1, <1>2 DEF Gateway!Writes
<1>4. /\ d \in SessionRecords /\ d.buffer = r.buffer /\ d.read = r.read /\ d.written = n
      /\ d.spawned = r.spawned /\ d.status = r.status /\ d.subscribers = r.subscribers
      /\ d.sockets = r.sockets /\ d.waiting = r.waiting /\ d.broken = r.broken
      /\ d.killed = r.killed /\ d.listed = r.listed /\ d.alive = r.alive
  BY DEF SessionRecords
<1> HIDE DEF d
<1>5. r.read <= n
  BY <1>1, <1>2 DEF SessionIsSound, SessionRecords
<1>6. SessionIsSound(d)
  BY <1>1, <1>3, <1>4, <1>5 DEF SessionIsSound
<1>7. \A v, w : Follows(v, w, d) <=> Follows(v, w, r)
  BY <1>4 DEF Follows
<1> QED
  BY <1>1, <1>3, <1>4, <1>6, <1>7, SessionMoves

LEMMA EndsKeeps ==
  ASSUME GatewayInv, NEW s \in Watched, Gateway!Ends(s)
  PROVE  GatewayInv'
<1>1. PICK r \in SessionRecords : r = sessions[s] /\ SessionIsSound(r)
  BY SessionTyped
<1> DEFINE d == [r EXCEPT !.alive = FALSE]
<1>2. sessions' = [sessions EXCEPT ![s] = d] /\ viewers' = viewers
  BY <1>1 DEF Gateway!Ends
<1>3. /\ d \in SessionRecords /\ d.buffer = r.buffer /\ d.read = r.read /\ d.written = r.written
      /\ d.spawned = r.spawned /\ d.status = r.status /\ d.subscribers = r.subscribers
      /\ d.sockets = r.sockets /\ d.waiting = r.waiting /\ d.broken = r.broken
      /\ d.killed = r.killed /\ d.listed = r.listed /\ d.alive = FALSE
  BY DEF SessionRecords
<1> HIDE DEF d
<1>4. SessionIsSound(d)
  BY <1>1, <1>3 DEF SessionIsSound
<1>5. \A v, w : Follows(v, w, d) <=> Follows(v, w, r)
  BY <1>3 DEF Follows
<1> QED
  BY <1>1, <1>2, <1>3, <1>4, <1>5, SessionMoves

\* Inputs that arrive or are refused change what is on its way to the session.
LEMMA InputsKeep ==
  ASSUME GatewayInv, NEW s \in Watched, Gateway!InputArrives(s) \/ Gateway!InputRefused(s)
  PROVE  GatewayInv'
<1>1. PICK r \in SessionRecords : r = sessions[s] /\ SessionIsSound(r)
  BY SessionTyped
<1>2. PICK n \in Nat : /\ sessions' = [sessions EXCEPT ![s] = [r EXCEPT !.waiting = n]]
                       /\ r.listed \/ n = 0
  <2>1. r.waiting \in Nat
    BY DEF SessionRecords
  <2>2. CASE Gateway!InputArrives(s)
    <3>1. r.listed /\ sessions' = [sessions EXCEPT ![s] = [r EXCEPT !.waiting = @ + 1]]
      BY <1>1, <2>2 DEF Gateway!InputArrives
    <3>2. PICK n \in Nat : n = r.waiting + 1
      BY <2>1
    <3> QED
      BY <3>1, <3>2
  <2>3. CASE Gateway!InputRefused(s)
    <3>1. r.waiting > 0 /\ sessions' = [sessions EXCEPT ![s] = [r EXCEPT !.waiting = @ - 1]]
      BY <1>1, <2>3 DEF Gateway!InputRefused
    <3>2. PICK n \in Nat : n = r.waiting - 1
      BY <2>1, <3>1
    <3>3. r.listed
      BY <1>1, <2>1, <3>1 DEF SessionIsSound, SessionRecords
    <3> QED
      BY <3>1, <3>2, <3>3
  <2> QED
    BY <2>2, <2>3
<1> DEFINE d == [r EXCEPT !.waiting = n]
<1>3. viewers' = viewers
  BY DEF Gateway!InputArrives, Gateway!InputRefused
<1>4. /\ d \in SessionRecords /\ d.buffer = r.buffer /\ d.read = r.read /\ d.written = r.written
      /\ d.spawned = r.spawned /\ d.status = r.status /\ d.subscribers = r.subscribers
      /\ d.sockets = r.sockets /\ d.waiting = n /\ d.broken = r.broken
      /\ d.killed = r.killed /\ d.listed = r.listed /\ d.alive = r.alive
  BY DEF SessionRecords
<1>5. sessions' = [sessions EXCEPT ![s] = d]
  BY <1>2
<1> HIDE DEF d
<1>6. SessionIsSound(d)
  BY <1>1, <1>2, <1>4 DEF SessionIsSound
<1>7. \A v, w : Follows(v, w, d) <=> Follows(v, w, r)
  BY <1>4 DEF Follows
<1> QED
  BY <1>1, <1>3, <1>4, <1>5, <1>6, <1>7, SessionMoves

LEMMA PumpFailsKeeps ==
  ASSUME GatewayInv, NEW s \in Watched, Gateway!PumpFails(s)
  PROVE  GatewayInv'
<1>1. PICK r \in SessionRecords : r = sessions[s] /\ SessionIsSound(r)
  BY SessionTyped
<1> DEFINE d == [r EXCEPT !.broken = TRUE, !.subscribers = {}]
<1>2. r.alive /\ sessions' = [sessions EXCEPT ![s] = d] /\ viewers' = viewers
  BY <1>1 DEF Gateway!PumpFails
<1>3. /\ d \in SessionRecords /\ d.buffer = r.buffer /\ d.read = r.read /\ d.written = r.written
      /\ d.spawned = r.spawned /\ d.status = r.status /\ d.subscribers = {}
      /\ d.sockets = r.sockets /\ d.waiting = r.waiting /\ d.broken = TRUE
      /\ d.killed = r.killed /\ d.listed = r.listed /\ d.alive = r.alive
  BY DEF SessionRecords
<1> HIDE DEF d
<1>4. SessionIsSound(d)
  BY <1>1, <1>2, <1>3 DEF SessionIsSound
<1>5. \A v, w : Follows(v, w, r) => Follows(v, w, d)
  BY <1>3 DEF Follows
<1> QED
  BY <1>1, <1>2, <1>3, <1>4, <1>5, SessionMoves

LEMMA PumpKeeps ==
  ASSUME Gateway!GatewayAssumption, GatewayInv, NEW s \in Watched, Gateway!Pump(s)
  PROVE  GatewayInv'
<1>1. PICK r \in SessionRecords : r = sessions[s] /\ SessionIsSound(r)
  BY SessionTyped
<1>2. PICK n \in Nat : n = r.read
  BY DEF SessionRecords
<1> DEFINE k == n + 1
<1>3. PICK b \in Seq(Nat) : b = Gateway!Buffered(r.buffer, n + 1) /\ UpTo(b, n + 1)
  <2>1. r.buffer \in Seq(Nat) /\ UpTo(r.buffer, n)
    BY <1>1, <1>2 DEF SessionRecords, SessionIsSound
  <2> QED
    BY <2>1, RunGrows
<1> DEFINE d == [r EXCEPT !.read = k, !.buffer = b]
<1>4. /\ ~r.broken /\ n < r.written /\ sessions' = [sessions EXCEPT ![s] = d]
      /\ viewers' = [v \in Watchers |->
           IF v \in r.subscribers /\ viewers[v].state = "open"
           THEN [viewers[v] EXCEPT !.got = Append(@, k)] ELSE viewers[v]]
  BY <1>1, <1>2, <1>3 DEF Gateway!Pump, Gateway!Pumping, Gateway!Viewers, Watchers
<1>5. k \in Nat /\ k = n + 1
  OBVIOUS
<1> HIDE DEF k
<1>6. /\ d \in SessionRecords /\ d.buffer = b /\ d.read = k /\ d.written = r.written
      /\ d.spawned = r.spawned /\ d.status = r.status /\ d.subscribers = r.subscribers
      /\ d.sockets = r.sockets /\ d.waiting = r.waiting /\ d.broken = r.broken
      /\ d.killed = r.killed /\ d.listed = r.listed /\ d.alive = r.alive
  BY <1>5 DEF SessionRecords
<1> HIDE DEF d
<1>7. r.spawned /\ n + 1 <= r.written
  BY <1>1, <1>2, <1>4 DEF SessionIsSound, SessionRecords
<1>8. SessionIsSound(d)
  BY <1>1, <1>5, <1>3, <1>6, <1>7 DEF SessionIsSound
<1>9. ASSUME NEW v \in Watchers, v \in r.subscribers, viewers[v].state = "open"
      PROVE  /\ viewers[v].session = s
             /\ viewers'[v] \in ViewerRecords /\ viewers'[v].session = s
             /\ Follows(v, viewers'[v], d)
  <2>1. viewers[v].session = s
    BY <1>1, <1>9 DEF GatewayInv
  <2>2. PICK w \in ViewerRecords : w = viewers[v] /\ Follows(v, w, r)
    BY <1>1, <2>1, ViewerTyped
  <2>3. w.got \in Seq(Nat) /\ UpTo(w.got, n)
    BY <1>2, <1>4, <1>7, <1>9, <2>2 DEF Follows, ViewerRecords
  <2>4. PICK c \in Seq(Nat) : c = Append(w.got, n + 1) /\ UpTo(c, n + 1)
    BY <2>3, RunGrows
  <2>5. viewers'[v] = [w EXCEPT !.got = c]
    BY <1>4, <1>5, <1>9, <2>2, <2>4
  <2>6. /\ viewers'[v] \in ViewerRecords /\ viewers'[v].got = c /\ viewers'[v].kind = w.kind
        /\ viewers'[v].session = w.session /\ viewers'[v].state = w.state
        /\ viewers'[v].exits = w.exits
    BY <2>5 DEF ViewerRecords
  <2>7. Gateway!IsRun(c)
    BY <2>4 DEF UpTo
  <2>8. Follows(v, viewers'[v], d)
    BY <1>5, <1>6, <1>7, <2>2, <2>4, <2>6, <2>7 DEF Follows
  <2> QED
    BY <2>1, <2>2, <2>6, <2>8
<1>10. ASSUME NEW v \in Watchers, ~(v \in r.subscribers /\ viewers[v].state = "open")
      PROVE  /\ viewers'[v] = viewers[v] /\ viewers'[v] \in ViewerRecords
             /\ viewers[v].session = s => Follows(v, viewers'[v], d)
  <2>1. viewers'[v] = viewers[v]
    BY <1>4, <1>10
  <2>2. PICK w \in ViewerRecords : w = viewers[v] /\ Follows(v, w, sessions[w.session])
    BY ViewerTyped
  <2>3. Follows(v, w, r) => Follows(v, w, d)
    BY <1>4, <1>6, <1>7, <1>10, <2>2 DEF Follows
  <2> QED
    BY <1>1, <2>1, <2>2, <2>3
<1>11. viewers' \in Seq(ViewerRecords) /\ DOMAIN viewers' = Watchers
  <2>1. Watchers = 1..Len(viewers) /\ Len(viewers) \in Nat
    BY DEF GatewayInv, Watchers
  <2>2. \A v \in Watchers : viewers'[v] \in ViewerRecords
    BY <1>9, <1>10
  <2> HIDE DEF ViewerRecords
  <2>3. viewers' \in [1..Len(viewers) -> ViewerRecords]
    BY <1>4, <2>1, <2>2
  <2> QED
    BY <2>1, <2>3
<1>12. \A v \in Watchers :
         /\ viewers'[v].session = viewers[v].session
         /\ viewers[v].session # s => viewers'[v] = viewers[v]
         /\ viewers[v].session = s => Follows(v, viewers'[v], d)
  BY <1>9, <1>10
<1> QED
  BY <1>1, <1>4, <1>6, <1>8, <1>11, <1>12, OneSession

LEMMA ExitedKeeps ==
  ASSUME GatewayInv, NEW s \in Watched, Gateway!Exited(s)
  PROVE  GatewayInv'
<1>1. PICK r \in SessionRecords : r = sessions[s] /\ SessionIsSound(r)
  BY SessionTyped
<1> DEFINE d == [r EXCEPT !.status = "stopped"]
           ends(v) == viewers[v].session = s /\ viewers[v].exits /\ viewers[v].state = "open"
<1>2. /\ r.spawned /\ sessions' = [sessions EXCEPT ![s] = d]
      /\ viewers' = [v \in Watchers |->
                       IF ends(v) THEN [viewers[v] EXCEPT !.state = "ending"] ELSE viewers[v]]
  BY <1>1 DEF Gateway!Exited, Gateway!Viewers, Watchers
<1>3. /\ d \in SessionRecords /\ d.buffer = r.buffer /\ d.read = r.read /\ d.written = r.written
      /\ d.spawned = r.spawned /\ d.status = "stopped" /\ d.subscribers = r.subscribers
      /\ d.sockets = r.sockets /\ d.waiting = r.waiting /\ d.broken = r.broken
      /\ d.killed = r.killed /\ d.listed = r.listed /\ d.alive = r.alive
  BY DEF SessionRecords
<1> HIDE DEF d
<1>4. SessionIsSound(d)
  BY <1>1, <1>2, <1>3 DEF SessionIsSound
<1>5. ASSUME NEW v \in Watchers
      PROVE  /\ viewers'[v] \in ViewerRecords /\ viewers'[v].session = viewers[v].session
             /\ viewers[v].session # s => viewers'[v] = viewers[v]
             /\ viewers[v].session = s => Follows(v, viewers'[v], d)
  <2>1. PICK w \in ViewerRecords : w = viewers[v] /\ Follows(v, w, sessions[w.session])
    BY ViewerTyped
  <2>2. CASE ends(v)
    <3>1. viewers'[v] = [w EXCEPT !.state = "ending"]
      BY <1>2, <2>1, <2>2
    <3>2. /\ viewers'[v] \in ViewerRecords /\ viewers'[v].session = w.session
          /\ viewers'[v].got = w.got /\ viewers'[v].kind = w.kind
          /\ viewers'[v].exits = w.exits /\ viewers'[v].state = "ending"
      BY <3>1 DEF ViewerRecords
    <3>3. Follows(v, w, r)
      BY <1>1, <2>1, <2>2
    <3>4. Follows(v, viewers'[v], d)
      BY <1>3, <3>2, <3>3 DEF Follows
    <3> QED
      BY <2>1, <2>2, <3>2, <3>4
  <2>3. CASE ~ends(v)
    <3>1. viewers'[v] = w
      BY <1>2, <2>1, <2>3
    <3>2. ASSUME w.session = s PROVE Follows(v, w, d)
      <4>1. Follows(v, w, r) /\ ~(w.exits /\ w.state = "open")
        BY <1>1, <2>1, <2>3, <3>2
      <4> QED
        BY <1>2, <1>3, <4>1 DEF Follows
    <3> QED
      BY <2>1, <3>1, <3>2
  <2> QED
    BY <2>2, <2>3
<1>6. viewers' \in Seq(ViewerRecords) /\ DOMAIN viewers' = Watchers
  BY <1>2, <1>5, WatchersTyped
<1> QED
  BY <1>1, <1>2, <1>3, <1>4, <1>5, <1>6, OneSession, ZenonT(30)

LEMMA InputBodyKeeps ==
  ASSUME GatewayInv, NEW s \in Watched, Gateway!InputBody(s)
  PROVE  GatewayInv'
<1>1. PICK r \in SessionRecords : r = sessions[s] /\ SessionIsSound(r)
  BY SessionTyped
<1>2. r.waiting \in Nat /\ r.waiting > 0 /\ r.listed
  BY <1>1 DEF Gateway!InputBody, SessionRecords, SessionIsSound
<1>3. PICK n \in Nat : n = r.waiting - 1
  BY <1>2
<1> DEFINE m == [r EXCEPT !.waiting = n]
<1>4. /\ m \in SessionRecords /\ m.buffer = r.buffer /\ m.read = r.read /\ m.written = r.written
      /\ m.spawned = r.spawned /\ m.status = r.status /\ m.subscribers = r.subscribers
      /\ m.sockets = r.sockets /\ m.waiting = n /\ m.broken = r.broken
      /\ m.killed = r.killed /\ m.listed = r.listed /\ m.alive = r.alive
  BY DEF SessionRecords
<1> DEFINE d == [m EXCEPT !.spawned = TRUE, !.alive = TRUE, !.status = "running",
                          !.subscribers = m.sockets]
<1>5. \/ r.spawned /\ sessions' = [sessions EXCEPT ![s] = m] /\ viewers' = viewers
      \/ /\ ~r.spawned /\ sessions' = [sessions EXCEPT ![s] = d]
         /\ viewers' = Gateway!Notified(m)
  <2>1. m = [sessions[s] EXCEPT !.waiting = @ - 1]
    BY <1>1, <1>3
  <2> HIDE DEF m
  <2> QED
    BY <1>1, <1>4, <2>1 DEF Gateway!InputBody
<1> HIDE DEF m
<1>6. SessionIsSound(m)
  BY <1>1, <1>2, <1>4 DEF SessionIsSound
<1>7. CASE r.spawned /\ sessions' = [sessions EXCEPT ![s] = m] /\ viewers' = viewers
  <2>1. \A v, w : Follows(v, w, m) <=> Follows(v, w, r)
    BY <1>4 DEF Follows
  <2> QED
    BY <1>1, <1>4, <1>6, <1>7, <2>1, SessionMoves
<1>8. CASE ~r.spawned /\ sessions' = [sessions EXCEPT ![s] = d] /\ viewers' = Gateway!Notified(m)
  <2>1. /\ d \in SessionRecords /\ d.buffer = r.buffer /\ d.read = r.read /\ d.written = r.written
        /\ d.spawned = TRUE /\ d.status = "running" /\ d.subscribers = r.sockets
        /\ d.sockets = r.sockets /\ d.listed = r.listed
    BY <1>4 DEF SessionRecords
  <2> HIDE DEF d
  <2>2. SessionIsSound(d)
    BY <1>1, <1>2, <2>1 DEF SessionIsSound
  <2>3. r.read = 0 /\ r.buffer = <<>> /\ r.status # "stopped"
    BY <1>1, <1>8 DEF SessionIsSound, UpTo
  <2>4. viewers' = [v \in Watchers |->
                      IF v \in m.sockets THEN Gateway!Watch(viewers[v], m) ELSE viewers[v]]
    BY <1>8 DEF Gateway!Notified, Gateway!Viewers, Watchers
  <2>5. ASSUME NEW v \in Watchers
        PROVE  /\ viewers'[v] \in ViewerRecords /\ viewers'[v].session = viewers[v].session
               /\ viewers[v].session # s => viewers'[v] = viewers[v]
               /\ viewers[v].session = s => Follows(v, viewers'[v], d)
    <3>1. PICK w \in ViewerRecords : w = viewers[v] /\ Follows(v, w, sessions[w.session])
      BY ViewerTyped
    <3>2. CASE v \in r.sockets
      <4>1. w.session = s /\ Follows(v, w, r)
        BY <1>1, <3>1, <3>2 DEF GatewayInv
      <4>2. w.got = <<>> /\ w.state # "closed"
        BY <1>8, <3>2, <4>1 DEF Follows
      <4>3. PICK x \in ViewerRecords :
              /\ x = Gateway!Watch(w, m)
              /\ x.kind = w.kind /\ x.session = w.session /\ x.got = m.buffer /\ x.exits
              /\ x.state = IF m.status = "stopped" THEN "ending" ELSE w.state
        BY <1>4, <1>6, <4>2, WatchFollows
      <4>4. viewers'[v] = x /\ x.got = <<>> /\ x.state = w.state
        BY <1>4, <2>3, <2>4, <3>1, <3>2, <4>3
      <4>5. Follows(v, x, d)
        BY <2>1, <2>3, <3>2, <4>2, <4>3, <4>4, EmptyRun DEF Follows
      <4> QED
        BY <3>1, <4>1, <4>3, <4>4, <4>5
    <3>3. CASE v \notin r.sockets
      <4>1. viewers'[v] = w
        BY <1>4, <2>4, <3>1, <3>3
      <4>2. ASSUME w.session = s PROVE Follows(v, w, d)
        <5>1. Follows(v, w, r)
          BY <1>1, <3>1, <4>2
        <5> QED
          BY <1>8, <2>1, <3>3, <5>1 DEF Follows
      <4> QED
        BY <3>1, <4>1, <4>2
    <3> QED
      BY <3>2, <3>3
  <2>6. viewers' \in Seq(ViewerRecords) /\ DOMAIN viewers' = Watchers
    BY <2>4, <2>5, WatchersTyped
  <2>7. d.subscribers \cup d.sockets \subseteq sessions[s].subscribers \cup sessions[s].sockets
    BY <1>1, <2>1
  <2>8. sessions' = [sessions EXCEPT ![s] = d]
    BY <1>8
  <2> QED
    BY <2>1, <2>2, <2>5, <2>6, <2>7, <2>8, OneSession
<1> QED
  BY <1>5, <1>7, <1>8

-----------------------------------------------------------------------------
(* Sockets and streams open and close *)

\* A socket or stream that is there but watches nothing yet.
LEMMA NewViewerTyped ==
  ASSUME NEW kind \in {"socket", "stream"}, NEW s \in Nat, NEW unsub \in BOOLEAN
  PROVE  /\ \E w \in ViewerRecords :
              /\ w = Gateway!NewViewer(kind, s, "open", unsub)
              /\ w.kind = kind /\ w.session = s /\ w.state = "open" /\ w.got = <<>> /\ ~w.exits
         /\ \E w \in ViewerRecords :
              /\ w = [Gateway!NewViewer(kind, s, "open", unsub) EXCEPT !.state = "ending"]
              /\ w.kind = kind /\ w.session = s /\ w.state = "ending" /\ w.got = <<>> /\ ~w.exits
<1> DEFINE e == <<>>
           o == [kind |-> kind, session |-> s, state |-> "open", got |-> e, exits |-> FALSE,
                 unsub |-> unsub]
           w == [o EXCEPT !.state = "ending"]
<1>1. e \in Seq(Nat) /\ e = <<>>
  OBVIOUS
<1>2. Gateway!NewViewer(kind, s, "open", unsub) = o
  BY DEF Gateway!NewViewer
<1> HIDE DEF e
<1>3. /\ o \in ViewerRecords
      /\ o.kind = kind /\ o.session = s /\ o.state = "open" /\ o.got = e /\ ~o.exits
  BY <1>1 DEF ViewerRecords
<1> HIDE DEF o
<1>4. /\ w \in ViewerRecords
      /\ w.kind = kind /\ w.session = s /\ w.state = "ending" /\ w.got = e /\ ~w.exits
  BY <1>3 DEF ViewerRecords
<1>5. [Gateway!NewViewer(kind, s, "open", unsub) EXCEPT !.state = "ending"] = w
  BY <1>2
<1> HIDE DEF w
<1> QED
  BY <1>1, <1>2, <1>3, <1>4, <1>5

\* What comes is not known to any session.
LEMMA NewNumber ==
  ASSUME GatewayInv, NEW s \in Watched, NEW n \in Nat, n = Len(viewers) + 1
  PROVE  /\ n \notin Watchers /\ n \notin sessions[s].subscribers \cup sessions[s].sockets
         /\ s \in Nat /\ sessions = [sessions EXCEPT ![s] = sessions[s]]
<1>1. n \notin Watchers
  BY DEF GatewayInv, Watchers
<1> QED
  BY <1>1 DEF GatewayInv, Watched

\* Where nothing of the session changes.
LEMMA PlainViewerComes ==
  ASSUME GatewayInv, NEW s \in Watched, NEW w \in ViewerRecords,
         w.session = s, w.got = <<>>, ~w.exits, w.kind = "socket" => w.state = "ending",
         sessions' = sessions, viewers' = Append(viewers, w)
  PROVE  GatewayInv'
<1>1. PICK r \in SessionRecords : r = sessions[s] /\ SessionIsSound(r)
  BY SessionTyped
<1>2. PICK n \in Nat : n = Len(viewers) + 1
  BY DEF GatewayInv
<1>3. n \notin r.subscribers /\ n \notin r.sockets /\ sessions' = [sessions EXCEPT ![s] = r]
  BY <1>1, <1>2, NewNumber
<1>4. Follows(n, w, r)
  BY <1>3, EmptyRun DEF Follows
<1> QED
  BY <1>1, <1>2, <1>3, <1>4, ViewerComes

\* Where the session has a process.
LEMMA WatcherComes ==
  ASSUME GatewayInv, NEW s \in Watched, sessions[s].spawned,
         NEW w \in ViewerRecords, w.session = s, w.got = <<>>, w.state = "open",
         NEW d \in SessionRecords, NEW sockets \in SUBSET Nat,
         d = [sessions[s] EXCEPT !.sockets = sockets, !.subscribers = @ \cup {Len(viewers) + 1}],
         sockets = IF w.kind = "socket" THEN sessions[s].sockets \cup {Len(viewers) + 1}
                   ELSE sessions[s].sockets,
         sessions' = [sessions EXCEPT ![s] = d],
         viewers' = Append(viewers, Gateway!Watch(w, sessions[s]))
  PROVE  GatewayInv'
<1>1. PICK r \in SessionRecords : r = sessions[s] /\ SessionIsSound(r)
  BY SessionTyped
<1>2. PICK n \in Nat : n = Len(viewers) + 1
  BY DEF GatewayInv
<1>3. n \notin r.subscribers /\ n \notin r.sockets /\ n \notin Watchers
  BY <1>1, <1>2, NewNumber
<1>4. /\ d.buffer = r.buffer /\ d.read = r.read /\ d.written = r.written
      /\ d.spawned = r.spawned /\ d.status = r.status
      /\ d.subscribers = r.subscribers \cup {n} /\ d.sockets = sockets
      /\ d.waiting = r.waiting /\ d.broken = r.broken
      /\ d.killed = r.killed /\ d.listed = r.listed /\ d.alive = r.alive
  BY <1>1, <1>2 DEF SessionRecords
<1>5. r.spawned
  BY <1>1
<1>6. SessionIsSound(d)
  BY <1>1, <1>4, <1>5 DEF SessionIsSound
<1>7. PICK x \in ViewerRecords :
        /\ x = Gateway!Watch(w, r)
        /\ x.kind = w.kind /\ x.session = w.session /\ x.got = r.buffer /\ x.exits
        /\ x.state = IF r.status = "stopped" THEN "ending" ELSE w.state
  BY <1>1, WatchFollows
<1>8. UpTo(r.buffer, r.read) /\ Gateway!IsRun(r.buffer)
  BY <1>1 DEF SessionIsSound, UpTo
<1>9. Follows(n, x, d)
  BY <1>1, <1>2, <1>4, <1>5, <1>7, <1>8 DEF Follows
<1>10. \A v \in Watchers : Follows(v, viewers[v], r) => Follows(v, viewers[v], d)
  <2>1. \A v \in Watchers : /\ v \in d.subscribers <=> v \in r.subscribers
                            /\ v \in d.sockets <=> v \in r.sockets
    BY <1>1, <1>2, <1>3, <1>4
  <2> SUFFICES ASSUME NEW v \in Watchers, NEW u, u = viewers[v], Follows(v, u, r)
               PROVE  Follows(v, u, d)
    OBVIOUS
  <2> QED
    BY <1>4, <2>1 DEF Follows
<1>11. d.subscribers \cup d.sockets \subseteq sessions[s].subscribers \cup sessions[s].sockets \cup {n}
  BY <1>1, <1>2, <1>4
<1>12. viewers' = Append(viewers, x) /\ x.session = s
  BY <1>1, <1>7
<1>13. \A v \in Watchers : Follows(v, viewers[v], sessions[s]) => Follows(v, viewers[v], d)
  BY <1>1, <1>10
<1> QED
  BY <1>2, <1>6, <1>9, <1>11, <1>12, <1>13, ViewerComes

LEMMA OpenSocketKeeps ==
  ASSUME GatewayInv, NEW s \in Watched, Gateway!OpenSocket(s)
  PROVE  GatewayInv'
<1>1. PICK r \in SessionRecords : r = sessions[s] /\ SessionIsSound(r)
  BY SessionTyped
<1>2. PICK n \in Nat : n = Len(viewers) + 1
  BY DEF GatewayInv
<1>3. s \in Nat
  BY <1>2, NewNumber
<1> DEFINE unsub == r.listed /\ r.spawned
<1>4. /\ r.sockets \cup {n} \in SUBSET Nat /\ r.subscribers \cup {n} \in SUBSET Nat
      /\ unsub \in BOOLEAN
  BY DEF SessionRecords
<1>5. PICK w \in ViewerRecords :
        /\ w = Gateway!NewViewer("socket", s, "open", unsub)
        /\ w.kind = "socket" /\ w.session = s /\ w.state = "open" /\ w.got = <<>> /\ ~w.exits
  <2> HIDE DEF unsub
  <2> QED
    BY <1>3, <1>4, NewViewerTyped
<1>6. CASE ~r.listed
  <2>1. PICK x \in ViewerRecords :
          /\ x = [Gateway!NewViewer("socket", s, "open", unsub) EXCEPT !.state = "ending"]
          /\ x.kind = "socket" /\ x.session = s /\ x.state = "ending" /\ x.got = <<>> /\ ~x.exits
    <3> HIDE DEF unsub
    <3> QED
      BY <1>3, <1>4, NewViewerTyped
  <2>2. sessions' = sessions /\ viewers' = Append(viewers, x)
    BY <1>1, <1>6, <2>1 DEF Gateway!OpenSocket
  <2> QED
    BY <2>1, <2>2, PlainViewerComes
<1>7. CASE r.listed /\ r.spawned
  <2> DEFINE sockets == r.sockets \cup {n}
             d == [r EXCEPT !.sockets = sockets, !.subscribers = @ \cup {n}]
  <2>1. d \in SessionRecords
    BY <1>4 DEF SessionRecords
  <2>2. viewers' = Append(viewers, Gateway!Watch(w, r)) /\ sessions' = [sessions EXCEPT ![s] = d]
    BY <1>1, <1>2, <1>5, <1>7 DEF Gateway!OpenSocket
  <2>3. d = [sessions[s] EXCEPT !.sockets = sockets, !.subscribers = @ \cup {Len(viewers) + 1}]
    BY <1>1, <1>2
  <2>4. sockets \in SUBSET Nat /\ sockets = sessions[s].sockets \cup {Len(viewers) + 1}
    BY <1>1, <1>2, <1>4
  <2> HIDE DEF d, sockets
  <2> QED
    BY <1>1, <1>5, <1>7, <2>1, <2>2, <2>3, <2>4, WatcherComes
<1>8. CASE r.listed /\ ~r.spawned
  <2> DEFINE d == [r EXCEPT !.sockets = @ \cup {n}]
  <2>1. /\ d \in SessionRecords /\ d.buffer = r.buffer /\ d.read = r.read /\ d.written = r.written
        /\ d.spawned = r.spawned /\ d.status = r.status /\ d.subscribers = r.subscribers
        /\ d.sockets = r.sockets \cup {n} /\ d.waiting = r.waiting /\ d.broken = r.broken
        /\ d.killed = r.killed /\ d.listed = r.listed /\ d.alive = r.alive
    BY <1>4 DEF SessionRecords
  <2>2. viewers' = Append(viewers, w) /\ sessions' = [sessions EXCEPT ![s] = d]
    BY <1>1, <1>2, <1>5, <1>8 DEF Gateway!OpenSocket
  <2> HIDE DEF d
  <2>3. SessionIsSound(d)
    BY <1>1, <2>1 DEF SessionIsSound
  <2>4. n \notin Watchers /\ n \notin r.subscribers
    BY <1>1, <1>2, NewNumber
  <2>5. Follows(n, w, d)
    BY <1>5, <1>8, <2>1, <2>4, EmptyRun DEF Follows
  <2>6. \A v \in Watchers : Follows(v, viewers[v], r) => Follows(v, viewers[v], d)
    <3>1. \A v \in Watchers : v \in d.sockets <=> v \in r.sockets
      BY <2>1, <2>4
    <3> QED
      BY <2>1, <3>1 DEF Follows
  <2>7. d.subscribers \cup d.sockets \subseteq sessions[s].subscribers \cup sessions[s].sockets \cup {n}
    BY <1>1, <2>1
  <2> QED
    BY <1>1, <1>2, <1>5, <2>1, <2>2, <2>3, <2>5, <2>6, <2>7, ViewerComes
<1> QED
  BY <1>6, <1>7, <1>8

LEMMA OpenStreamKeeps ==
  ASSUME GatewayInv, NEW s \in Watched, Gateway!OpenStream(s)
  PROVE  GatewayInv'
<1>1. PICK r \in SessionRecords : r = sessions[s] /\ SessionIsSound(r)
  BY SessionTyped
<1>2. PICK n \in Nat : n = Len(viewers) + 1
  BY DEF GatewayInv
<1>3. s \in Nat
  BY <1>2, NewNumber
<1>4. PICK w \in ViewerRecords :
        /\ w = Gateway!NewViewer("stream", s, "open", TRUE)
        /\ w.kind = "stream" /\ w.session = s /\ w.state = "open" /\ w.got = <<>> /\ ~w.exits
  BY <1>3, NewViewerTyped
<1>5. CASE r.spawned
  <2> DEFINE d == [r EXCEPT !.sockets = r.sockets, !.subscribers = @ \cup {n}]
  <2>1. d \in SessionRecords /\ d = [r EXCEPT !.subscribers = @ \cup {n}] /\ r.sockets \in SUBSET Nat
    BY DEF SessionRecords
  <2>2. viewers' = Append(viewers, Gateway!Watch(w, r)) /\ sessions' = [sessions EXCEPT ![s] = d]
    <3>1. sessions' = [sessions EXCEPT ![s] = [r EXCEPT !.subscribers = @ \cup {n}]]
      BY <1>1, <1>2, <1>5 DEF Gateway!OpenStream
    <3> QED
      BY <1>1, <1>2, <1>4, <1>5, <2>1, <3>1 DEF Gateway!OpenStream
  <2>3. d = [sessions[s] EXCEPT !.sockets = r.sockets, !.subscribers = @ \cup {Len(viewers) + 1}]
    BY <1>1, <1>2
  <2> HIDE DEF d
  <2> QED
    BY <1>1, <1>4, <1>5, <2>1, <2>2, <2>3, WatcherComes
<1>6. CASE ~r.spawned
  <2>1. sessions' = sessions /\ viewers' = Append(viewers, w)
    BY <1>1, <1>4, <1>6 DEF Gateway!OpenStream
  <2> QED
    BY <1>4, <2>1, PlainViewerComes
<1> QED
  BY <1>5, <1>6

\* One socket or stream ends or closes.
LEMMA ViewerEnds ==
  ASSUME GatewayInv, OneContext = TRUE, NEW v \in Watchers,
         Gateway!MessageTooLarge(v) \/ Gateway!Close(v)
  PROVE  GatewayInv'
<1>1. PICK w \in ViewerRecords : w = viewers[v] /\ Follows(v, w, sessions[w.session])
  BY ViewerTyped
<1>2. PICK s \in Watched : s = w.session
  BY <1>1, ViewerTyped
<1>3. PICK r \in SessionRecords : r = sessions[s] /\ SessionIsSound(r)
  BY SessionTyped
<1>4. viewers \in Seq(ViewerRecords) /\ sessions \in Seq(SessionRecords)
  BY DEF GatewayInv
<1>5. ASSUME NEW x \in ViewerRecords, NEW d \in SessionRecords,
             viewers' = [viewers EXCEPT ![v] = x], sessions' = [sessions EXCEPT ![s] = d],
             x.session = s, SessionIsSound(d), Follows(v, x, d),
             d.subscribers \cup d.sockets \subseteq r.subscribers \cup r.sockets,
             \A u \in Watchers \ {v} : Follows(u, viewers[u], r) => Follows(u, viewers[u], d)
      PROVE  GatewayInv'
  <2>1. /\ viewers' \in Seq(ViewerRecords) /\ DOMAIN viewers' = Watchers
        /\ \A u \in Watchers : viewers'[u] = IF u = v THEN x ELSE viewers[u]
    BY <1>4, <1>5 DEF Watchers
  <2>2. \A u \in Watchers :
          /\ viewers'[u].session = viewers[u].session
          /\ viewers[u].session # s => viewers'[u] = viewers[u]
          /\ viewers[u].session = s => Follows(u, viewers'[u], d)
    BY <1>1, <1>2, <1>3, <1>5, <2>1 DEF GatewayInv
  <2> QED
    BY <1>3, <1>5, <2>1, <2>2, OneSession
<1>6. Follows(v, w, r)
  BY <1>1, <1>2, <1>3
<1>7. CASE Gateway!MessageTooLarge(v)
  <2> DEFINE x == [w EXCEPT !.state = "ending"]
  <2>1. viewers' = [viewers EXCEPT ![v] = x] /\ sessions' = sessions
    BY <1>1, <1>7 DEF Gateway!MessageTooLarge
  <2>2. sessions' = [sessions EXCEPT ![s] = r]
    BY <1>3, <1>4, <2>1 DEF Watched
  <2>3. /\ x \in ViewerRecords /\ x.session = s /\ x.got = w.got /\ x.exits = w.exits
        /\ x.state = "ending"
    BY <1>2 DEF ViewerRecords
  <2> HIDE DEF x
  <2>4. Follows(v, x, r)
    BY <1>6, <2>3 DEF Follows
  <2> QED
    BY <1>3, <1>5, <2>1, <2>2, <2>3, <2>4
<1>8. CASE Gateway!Close(v)
  <2> DEFINE x == [w EXCEPT !.state = "closed"]
             d == [r EXCEPT !.sockets = @ \ {v}, !.subscribers = @ \ {v}]
  <2>1. viewers' = [viewers EXCEPT ![v] = x] /\ sessions' = [sessions EXCEPT ![s] = d]
    BY <1>1, <1>2, <1>3, <1>8 DEF Gateway!Close
  <2>2. /\ x \in ViewerRecords /\ x.session = s /\ x.got = w.got /\ x.exits = w.exits
        /\ x.state = "closed"
    BY <1>2 DEF ViewerRecords
  <2>3. /\ d \in SessionRecords /\ d.buffer = r.buffer /\ d.read = r.read /\ d.written = r.written
        /\ d.spawned = r.spawned /\ d.status = r.status /\ d.subscribers = r.subscribers \ {v}
        /\ d.sockets = r.sockets \ {v} /\ d.waiting = r.waiting /\ d.broken = r.broken
        /\ d.killed = r.killed /\ d.listed = r.listed /\ d.alive = r.alive
    BY DEF SessionRecords
  <2> HIDE DEF x, d
  <2>4. SessionIsSound(d)
    BY <1>3, <2>3 DEF SessionIsSound
  <2>5. Follows(v, x, d)
    BY <1>6, <2>2, <2>3 DEF Follows
  <2>6. ASSUME NEW u \in Watchers \ {v}, Follows(u, viewers[u], r)
        PROVE  Follows(u, viewers[u], d)
    <3>1. (u \in d.subscribers <=> u \in r.subscribers) /\ (u \in d.sockets <=> u \in r.sockets)
      BY <2>3
    <3> QED
      BY <2>3, <2>6, <3>1 DEF Follows
  <2>7. d.subscribers \cup d.sockets \subseteq r.subscribers \cup r.sockets
    BY <2>3
  <2> QED
    BY <1>5, <2>1, <2>2, <2>3, <2>4, <2>5, <2>6, <2>7
<1> QED
  BY <1>7, <1>8

LEMMA GatewayInit == ASSUME Gateway!Init PROVE GatewayInv
<1>2. sessions = <<>> /\ viewers = <<>> /\ Watched = {} /\ Watchers = {}
  BY DEF Gateway!Init, Watched, Watchers
<1> QED
  BY <1>2 DEF GatewayInv

LEMMA GatewayNext ==
  ASSUME Gateway!GatewayAssumption, LateBodies = FALSE, OneContext = TRUE,
         GatewayInv, [Gateway!Next]_Gateway!vars
  PROVE  GatewayInv'
<1>1. CASE UNCHANGED Gateway!vars
  BY <1>1 DEF Gateway!vars, GatewayInv, Watched, Watchers
<1>2. ASSUME NEW s \in Watched,
             \/ Gateway!OpenSocket(s) \/ Gateway!OpenStream(s) \/ Gateway!Destroy(s)
             \/ Gateway!InputArrives(s) \/ Gateway!InputRefused(s) \/ Gateway!InputBody(s)
             \/ Gateway!Writes(s) \/ Gateway!Ends(s) \/ Gateway!Pump(s)
             \/ Gateway!PumpFails(s) \/ Gateway!Exited(s)
      PROVE  GatewayInv'
  BY <1>2, OpenSocketKeeps, OpenStreamKeeps, DestroyKeeps, InputsKeep, InputBodyKeeps,
     WritesKeeps, EndsKeeps, PumpKeeps, PumpFailsKeeps, ExitedKeeps
<1> QED
  BY <1>1, <1>2, CreateKeeps, DestroyAllKeeps, ViewerEnds
  DEF Gateway!Next, Gateway!Sessions, Gateway!Viewers, Watched, Watchers

LEMMA GatewayHolds == ASSUME GatewayInv PROVE Gateway!ViewersFollowSessions
<1>2. ASSUME NEW v \in Watchers, NEW w, w = viewers[v], NEW r, r = sessions[w.session]
      PROVE  /\ Gateway!IsRun(w.got)
             /\ w.state = "open" /\ (w.kind = "socket" \/ w.exits) /\ r.spawned =>
                  r.status # "stopped" /\ (~r.broken => Gateway!UpToDate(w, r))
             /\ w.state = "closed" =>
                  \A s \in Watched : v \notin sessions[s].subscribers \cup sessions[s].sockets
  <2>1. Follows(v, w, r) /\ w.session \in Watched
    BY <1>2 DEF GatewayInv
  <2>2. UpTo(w.got, r.read) => Gateway!UpToDate(w, r)
    BY DEF UpTo, Gateway!UpToDate, Gateway!Last
  <2>3. \A s \in Watched : v \in sessions[s].subscribers \cup sessions[s].sockets =>
          v \in r.subscribers \cup r.sockets
    BY <1>2 DEF GatewayInv
  <2> QED
    BY <2>1, <2>2, <2>3 DEF Follows
<1>3. \A s \in Watched : ~sessions[s].listed /\ sessions[s].spawned => sessions[s].killed
  BY DEF GatewayInv, SessionIsSound
<1> QED
  BY <1>2, <1>3 DEF Gateway!ViewersFollowSessions, Gateway!Sessions, Gateway!Viewers, Watched, Watchers

\* For any number of sessions, sockets, streams and inputs, and any length of the buffer:
\* who watches a session has its output without a gap or a repetition and ends with its
\* process, nobody who is gone stays subscribed, and a destroyed session's process was
\* killed (onOutput, notifyWebSocketsProcessAttached, destroy), unless a body comes after
\* its session was destroyed, and if the handlers of a socket get one WSContext.
THEOREM ViewersTheorem ==
  ASSUME Gateway!GatewayAssumption, LateBodies = FALSE, OneContext = TRUE
  PROVE  Gateway!Spec => []Gateway!ViewersFollowSessions
  BY GatewayInit, GatewayNext, GatewayHolds, PTL DEF Gateway!Spec

-----------------------------------------------------------------------------
(* The clients attached to the socket of a session (SocketServer) *)

CONSTANTS Client, ReadOnly, MaxClients, MaxConns, MaxLines, EarlyReturn
VARIABLES clients, conns, heard, lines
Server == INSTANCE SocketServer

Nobody == Server!None
Inputs == {"attach", "input", "detach", "end"}
Events ==
  [kind : {"joined", "left", "input", "output", "end"}, client : Client \cup {Nobody}]
ConnRecords ==
  [owner : Client, id : Client \cup {Nobody}, in : Seq(Inputs), out : Seq(Events),
   from : Nat, used : BOOLEAN, open : BOOLEAN]

\* A connection: its first line attaches it, and nothing was sent to it before; its
\* end is heard after its client has given it up.
ConnIsSound(r) ==
  /\ r.id \in {Nobody, r.owner}
  /\ \A i \in 1..Len(r.in) : r.in[i] = "attach" => i = 1 /\ r.id = Nobody /\ r.out = <<>>
  /\ r.used => r.open /\ \A i \in 1..Len(r.in) : r.in[i] \in {"attach", "input"}

\* The k-th connection gets what was said since it attached; that of `late' attaches
\* with what is said next.
Hears(k, r, to, said, late) ==
  r.used /\ r.id # Nobody =>
    /\ to[r.owner] = k
    /\ r.from <= Len(said) \/ (r.owner = late /\ r.from = Len(said) + 1)
    /\ Server!GotInOrder(r.out, said, r.from, r.owner)

Agreed(to, cs, said, late) ==
  /\ to \in [Client -> Nat] /\ cs \in Seq(ConnRecords) /\ said \in Seq(Events)
  /\ \A k \in 1..Len(cs) : ConnIsSound(cs[k]) /\ Hears(k, cs[k], to, said, late)
  /\ \A c \in Client : to[c] # 0 =>
       to[c] \in 1..Len(cs) /\ cs[to[c]].open /\ cs[to[c]].id = c
  \* One connection of a client is open at a time.
  /\ \A j, k \in 1..Len(cs) : cs[j].open /\ cs[k].open /\ cs[j].owner = cs[k].owner => j = k

ServerInv == Agreed(clients, conns, heard, Nobody)

LEMMA CardinalityIsOne == ASSUME NEW S PROVE Server!Cardinality(S) = Cardinality(S)
BY DEF Cardinality, Server!Cardinality

LEMMA InOrder ==
  ASSUME NEW sent, NEW said, NEW from, NEW c
  PROVE  Server!GotInOrder(sent, said, from, c) <=>
           LET due == Server!Due(said, from, c) IN
           /\ Len(sent) = Cardinality(due)
           /\ \A i \in due : sent[Cardinality({j \in due : j <= i})] = said[i]
BY CardinalityIsOne DEF Server!GotInOrder

\* What is said next is due to everybody but who says it.
LEMMA NextIsDue ==
  ASSUME NEW sent \in Seq(Events), NEW said \in Seq(Events), NEW from \in Nat, NEW c,
         NEW e \in Events, Server!GotInOrder(sent, said, from, c)
  PROVE  /\ e.client # c /\ from <= Len(said) =>
              Server!GotInOrder(Append(sent, e), Append(said, e), from, c)
         /\ e.client = c => Server!GotInOrder(sent, Append(said, e), from, c)
<1> DEFINE due == Server!Due(said, from, c)
           more == Append(said, e)
           n == Len(said) + 1
           Upto(s, i) == {j \in s : j <= i}
<1>1. /\ Len(said) \in Nat /\ Len(more) = n /\ more[n] = e
      /\ \A i \in 1..Len(said) : more[i] = said[i]
  BY AppendProperties, LenProperties
<1>2. due = {i \in (from + 1)..Len(said) : said[i].client # c}
  BY DEF Server!Due
<1>3. due \subseteq 1..Len(said) /\ IsFiniteSet(due)
  <2>1. due \subseteq 1..Len(said)
    BY <1>1, <1>2
  <2>2. IsFiniteSet(1..Len(said))
    BY <1>1, FS_Interval
  <2> HIDE DEF due
  <2> QED
    BY <2>1, <2>2, FS_Subset
<1>4. Server!Due(more, from, c) = {i \in (from + 1)..n : more[i].client # c}
  BY <1>1 DEF Server!Due
<1>5. /\ Len(sent) = Cardinality(due) /\ Len(sent) \in Nat
      /\ \A i \in due : sent[Cardinality(Upto(due, i))] = said[i]
  BY LenProperties, InOrder
<1> HIDE DEF more, due
<1>6. ASSUME e.client = c
      PROVE  Server!GotInOrder(sent, more, from, c)
  <2>1. Server!Due(more, from, c) = due
    BY <1>1, <1>2, <1>4, <1>6
  <2>2. \A i \in due : more[i] = said[i]
    BY <1>1, <1>3
  <2> QED
    BY <1>5, <2>1, <2>2, InOrder
<1>7. ASSUME e.client # c, from <= Len(said)
      PROVE  Server!GotInOrder(Append(sent, e), more, from, c)
  <2> DEFINE later == due \cup {n}
  <2>1. Server!Due(more, from, c) = later
    BY <1>1, <1>2, <1>4, <1>7
  <2>2. n \notin due
    BY <1>1, <1>3
  <2>3. Cardinality(later) = Cardinality(due) + 1
    BY <1>3, <2>2, FS_AddElement
  <2>4. /\ Append(sent, e) \in Seq(Events) /\ Len(Append(sent, e)) = Len(sent) + 1
        /\ \A i \in 1..Len(sent) : Append(sent, e)[i] = sent[i]
        /\ Append(sent, e)[Len(sent) + 1] = e
    BY AppendProperties
  <2>5. ASSUME NEW i \in due
        PROVE  Append(sent, e)[Cardinality(Upto(later, i))] = more[i]
    <3>1. Upto(later, i) = Upto(due, i)
      BY <1>1, <1>3
    <3>2. Upto(due, i) \subseteq due /\ i \in Upto(due, i)
      BY <1>1, <1>3
    <3>3. /\ IsFiniteSet(Upto(due, i)) /\ Cardinality(Upto(due, i)) <= Cardinality(due)
          /\ Cardinality(Upto(due, i)) \in Nat /\ Cardinality(Upto(due, i)) # 0
      <4>1. IsFiniteSet(Upto(due, i)) /\ Cardinality(Upto(due, i)) <= Cardinality(due)
        BY <1>3, <3>2, FS_Subset
      <4>2. Cardinality(Upto(due, i)) \in Nat /\ Cardinality(Upto(due, i)) # 0
        BY <3>2, <4>1, FS_CardinalityType, FS_EmptySet
      <4> QED BY <4>1, <4>2
    <3>4. Cardinality(Upto(due, i)) \in 1..Len(sent)
      BY <1>5, <3>3
    <3> QED
      BY <1>1, <1>3, <1>5, <2>4, <3>1, <3>4
  <2>6. Append(sent, e)[Cardinality(Upto(later, n))] = more[n]
    <3>1. Upto(later, n) = later
      <4>1. \A j \in later : j <= n
        BY <1>1, <1>3
      <4> QED BY <4>1
    <3> QED
      BY <1>1, <1>5, <2>3, <2>4, <3>1
  <2>7. \A i \in later : Append(sent, e)[Cardinality(Upto(later, i))] = more[i]
    BY <2>5, <2>6
  <2> QED
    BY <1>5, <2>1, <2>3, <2>4, <2>7, InOrder
<1> QED
  BY <1>6, <1>7 DEF more

LEMMA FunctionIsSeq ==
  ASSUME NEW T, NEW n \in Nat, NEW f \in [1..n -> T]
  PROVE  f \in Seq(T) /\ Len(f) = n
<1>1. f \in Seq(T)
  BY SeqDef
<1>2. Len(f) \in Nat /\ 1..Len(f) = 1..n
  BY <1>1, LenProperties
<1>3. n > Len(f) => n \in 1..n /\ n \notin 1..Len(f)
  BY <1>2
<1>4. n < Len(f) => Len(f) \in 1..Len(f) /\ Len(f) \notin 1..n
  BY <1>2
<1> QED
  BY <1>1, <1>2, <1>3, <1>4

\* One connection goes on.
LEMMA OneChanges ==
  ASSUME NEW to, NEW cs, NEW said, NEW late, Agreed(to, cs, said, late),
         NEW k \in 1..Len(cs), NEW r \in ConnRecords,
         r.owner = cs[k].owner, r.open => cs[k].open,
         ConnIsSound(r), Hears(k, r, to, said, late),
         \A c \in Client : to[c] = k => r.open /\ r.id = c
  PROVE  Agreed(to, [cs EXCEPT ![k] = r], said, late)
<1> DEFINE ds == [cs EXCEPT ![k] = r]
<1>1. cs \in Seq(ConnRecords) /\ Len(cs) \in Nat
  BY LenProperties DEF Agreed
<1>2. /\ ds \in Seq(ConnRecords) /\ Len(ds) = Len(cs) /\ ds[k] = r
      /\ \A j \in 1..Len(cs) : j # k => ds[j] = cs[j]
  BY <1>1, ExceptSeq
<1> HIDE DEF ds
<1>3. \A j \in 1..Len(ds) : ConnIsSound(ds[j]) /\ Hears(j, ds[j], to, said, late)
  BY <1>2 DEF Agreed
<1>4. \A c \in Client : to[c] # 0 => to[c] \in 1..Len(ds) /\ ds[to[c]].open /\ ds[to[c]].id = c
  BY <1>2 DEF Agreed
<1>5. \A i, j \in 1..Len(ds) : ds[i].open /\ ds[j].open /\ ds[i].owner = ds[j].owner => i = j
  <2>1. \A i \in 1..Len(ds) : ds[i].owner = cs[i].owner /\ (ds[i].open => cs[i].open)
    BY <1>2
  <2> QED
    BY <1>2, <2>1 DEF Agreed
<1>6. Agreed(to, ds, said, late)
  BY <1>2, <1>3, <1>4, <1>5 DEF Agreed
<1> QED
  BY <1>6 DEF ds

\* All that use a connection hear what is said, but for who says it.
LEMMA AllHear ==
  ASSUME Server!SocketAssumption,
         NEW to, NEW cs, NEW said, NEW e \in Events, Agreed(to, cs, said, e.client)
  PROVE  Agreed(to, Server!Broadcast(cs, to, e), Append(said, e), Nobody)
<1> DEFINE ds == Server!Broadcast(cs, to, e)
           more == Append(said, e)
           Told(k) == \E c \in Client \ {e.client} : to[c] = k
<1>1. /\ cs \in Seq(ConnRecords) /\ Len(cs) \in Nat /\ DOMAIN cs = 1..Len(cs)
      /\ said \in Seq(Events) /\ Len(said) \in Nat
      /\ \A k \in 1..Len(cs) : cs[k] \in ConnRecords
  BY LenProperties, ElementOfSeq DEF Agreed
<1>2. more \in Seq(Events) /\ Len(more) = Len(said) + 1
  BY <1>1, AppendProperties
<1>3. ds = [k \in 1..Len(cs) |->
              IF Told(k) THEN [cs[k] EXCEPT !.out = Append(@, e)] ELSE cs[k]]
  BY <1>1 DEF Server!Broadcast
<1> HIDE DEF ds, more, Told
<1>4. ASSUME NEW k \in 1..Len(cs)
      PROVE  /\ ds[k] \in ConnRecords
             /\ ds[k].owner = cs[k].owner /\ ds[k].id = cs[k].id /\ ds[k].in = cs[k].in
             /\ ds[k].used = cs[k].used /\ ds[k].open = cs[k].open /\ ds[k].from = cs[k].from
             /\ ds[k].out = IF Told(k) THEN Append(cs[k].out, e) ELSE cs[k].out
  <2>1. ds[k] = IF Told(k) THEN [cs[k] EXCEPT !.out = Append(cs[k].out, e)] ELSE cs[k]
    BY <1>3
  <2>2. cs[k] \in ConnRecords /\ Append(cs[k].out, e) \in Seq(Events)
    BY <1>1, AppendProperties DEF ConnRecords
  <2> QED
    BY <2>1, <2>2 DEF ConnRecords
<1>5. ds \in Seq(ConnRecords) /\ Len(ds) = Len(cs)
  <2>1. ds \in [1..Len(cs) -> ConnRecords]
    BY <1>3, <1>4
  <2> QED
    BY <1>1, <2>1, FunctionIsSeq
<1>6. ASSUME NEW k \in 1..Len(cs), Told(k)
      PROVE  cs[k].id \in Client /\ cs[k].id = cs[k].owner /\ cs[k].id # e.client /\ cs[k].id # Nobody
  <2>1. PICK c \in Client \ {e.client} : to[c] = k
    BY <1>6 DEF Told
  <2>2. to[c] # 0
    BY <1>1, <2>1
  <2>3. cs[k].id = c /\ ConnIsSound(cs[k])
    BY <1>1, <2>1, <2>2 DEF Agreed
  <2> QED
    BY <2>1, <2>3 DEF ConnIsSound, Server!SocketAssumption, Nobody
<1>7. ASSUME NEW k \in 1..Len(cs) PROVE ConnIsSound(ds[k])
  <2>1. ConnIsSound(cs[k])
    BY DEF Agreed
  <2>2. CASE Told(k)
    BY <1>4, <1>6, <2>1, <2>2 DEF ConnIsSound
  <2>3. CASE ~Told(k)
    BY <1>4, <2>1, <2>3 DEF ConnIsSound
  <2> QED BY <2>2, <2>3
<1>8. ASSUME NEW k \in 1..Len(cs), ds[k].used, ds[k].id # Nobody
      PROVE  /\ to[ds[k].owner] = k /\ ds[k].from <= Len(more)
             /\ Server!GotInOrder(ds[k].out, more, ds[k].from, ds[k].owner)
  <2> DEFINE c == cs[k].owner
  <2>1. /\ to[c] = k /\ (cs[k].from <= Len(said) \/ (c = e.client /\ cs[k].from = Len(said) + 1))
        /\ Server!GotInOrder(cs[k].out, said, cs[k].from, c)
    BY <1>4, <1>8 DEF Agreed, Hears
  <2>2. c \in Client /\ cs[k].from \in Nat /\ cs[k].out \in Seq(Events)
    BY <1>1 DEF ConnRecords
  <2>3. CASE c # e.client
    <3>1. Told(k)
      BY <2>1, <2>2, <2>3 DEF Told
    <3>2. Server!GotInOrder(Append(cs[k].out, e), more, cs[k].from, c)
      BY <1>1, <2>1, <2>2, <2>3, NextIsDue DEF more
    <3>3. ds[k].out = Append(cs[k].out, e) /\ ds[k].from = cs[k].from /\ ds[k].owner = c
      BY <1>4, <3>1
    <3>4. cs[k].from <= Len(more)
      BY <1>1, <1>2, <2>1, <2>2
    <3> HIDE DEF c
    <3> QED
      BY <2>1, <3>2, <3>3, <3>4
  <2>4. CASE c = e.client
    <3>1. ~Told(k)
      BY <1>6, <2>4
    <3>2. Server!GotInOrder(cs[k].out, more, cs[k].from, c)
      BY <1>1, <2>1, <2>2, <2>4, NextIsDue DEF more
    <3>3. ds[k].out = cs[k].out /\ ds[k].from = cs[k].from /\ ds[k].owner = c
      BY <1>4, <3>1
    <3>4. cs[k].from <= Len(more)
      BY <1>1, <1>2, <2>1, <2>2
    <3> HIDE DEF c
    <3> QED
      BY <2>1, <3>2, <3>3, <3>4
  <2> QED
    BY <2>3, <2>4
<1>9. \A k \in 1..Len(ds) : ConnIsSound(ds[k]) /\ Hears(k, ds[k], to, more, Nobody)
  <2> SUFFICES ASSUME NEW k \in 1..Len(cs)
               PROVE  ConnIsSound(ds[k]) /\ Hears(k, ds[k], to, more, Nobody)
    BY <1>5
  <2>1. ConnIsSound(ds[k])
    BY <1>7
  <2>2. Hears(k, ds[k], to, more, Nobody)
    <3>1. SUFFICES ASSUME ds[k].used, ds[k].id # Nobody
                   PROVE  /\ to[ds[k].owner] = k /\ ds[k].from <= Len(more)
                          /\ Server!GotInOrder(ds[k].out, more, ds[k].from, ds[k].owner)
      BY DEF Hears
    <3> QED
      BY <1>8, <3>1
  <2> QED
    BY <2>1, <2>2
<1>10. \A c \in Client : to[c] # 0 => to[c] \in 1..Len(ds) /\ ds[to[c]].open /\ ds[to[c]].id = c
  BY <1>4, <1>5 DEF Agreed
<1>11. \A i, j \in 1..Len(ds) : ds[i].open /\ ds[j].open /\ ds[i].owner = ds[j].owner => i = j
  <2>1. \A i \in 1..Len(cs) : ds[i].open = cs[i].open /\ ds[i].owner = cs[i].owner
    BY <1>4
  <2> QED
    BY <1>5, <2>1 DEF Agreed
<1>12. to \in [Client -> Nat]
  BY DEF Agreed
<1>13. Agreed(to, ds, more, Nobody)
  BY <1>2, <1>5, <1>9, <1>10, <1>11, <1>12 DEF Agreed
<1> QED
  BY <1>13 DEF ds, more

\* A name is given up when its client uses no connection it attached.
LEMMA NameGoes ==
  ASSUME NEW to, NEW cs, NEW said, Agreed(to, cs, said, Nobody), NEW c \in Client,
         \A k \in 1..Len(cs) : cs[k].owner = c => ~cs[k].used \/ cs[k].id = Nobody
  PROVE  Agreed([to EXCEPT ![c] = 0], cs, said, Nobody)
<1> DEFINE registered == [to EXCEPT ![c] = 0]
<1>1. /\ registered \in [Client -> Nat] /\ registered[c] = 0
      /\ \A d \in Client : d # c => registered[d] = to[d]
  BY DEF Agreed
<1> HIDE DEF registered
<1>2. \A k \in 1..Len(cs) : cs[k].owner \in Client
  <2>1. cs \in Seq(ConnRecords)
    BY DEF Agreed
  <2>2. \A k \in 1..Len(cs) : cs[k] \in ConnRecords
    BY <2>1, ElementOfSeq
  <2> QED BY <2>2 DEF ConnRecords
<1>3. \A k \in 1..Len(cs) : Hears(k, cs[k], registered, said, Nobody)
  BY <1>1, <1>2 DEF Agreed, Hears
<1>4. Agreed(registered, cs, said, Nobody)
  BY <1>1, <1>3 DEF Agreed
<1> QED
  BY <1>4 DEF registered

LEMMA AgreedLate ==
  ASSUME Server!SocketAssumption,
         NEW to, NEW cs, NEW said, Agreed(to, cs, said, Nobody), NEW c
  PROVE  Agreed(to, cs, said, c)
<1>1. \A k \in 1..Len(cs) : cs[k].owner # Nobody
  <2>1. cs \in Seq(ConnRecords)
    BY DEF Agreed
  <2>2. \A k \in 1..Len(cs) : cs[k] \in ConnRecords
    BY <2>1, ElementOfSeq
  <2> QED
    BY <2>2 DEF ConnRecords, Server!SocketAssumption, Nobody
<1>2. \A k \in 1..Len(cs) : Hears(k, cs[k], to, said, c)
  BY <1>1 DEF Agreed, Hears
<1> QED
  BY <1>2 DEF Agreed

\* #handleClientDisconnect.
LEMMA DisconnectKeeps ==
  ASSUME Server!SocketAssumption, NEW cs, NEW c \in Client \cup {Nobody},
         IF c # Nobody /\ clients[c] # 0
         THEN Agreed([clients EXCEPT ![c] = 0], cs, heard, Nobody)
         ELSE Agreed(clients, cs, heard, Nobody),
         Server!Disconnect(cs, c)
  PROVE  ServerInv'
<1>1. CASE c # Nobody /\ clients[c] # 0
  <2> DEFINE others == [clients EXCEPT ![c] = 0]
             e == Server!Event("left", c)
  <2>1. /\ clients' = others /\ conns' = Server!Broadcast(cs, others, e)
        /\ heard' = Append(heard, e)
    BY <1>1 DEF Server!Disconnect, Server!Leave, Nobody
  <2>2. e \in Events /\ e.client = c /\ c \in Client
    BY <1>1 DEF Server!Event, Events
  <2>3. Agreed(others, cs, heard, Nobody)
    BY <1>1
  <2> HIDE DEF others, e
  <2>4. Agreed(others, cs, heard, e.client)
    BY <2>3, AgreedLate
  <2> QED
    BY <2>1, <2>2, <2>4, AllHear DEF ServerInv
<1>2. CASE ~(c # Nobody /\ clients[c] # 0)
  <2>1. conns' = cs /\ clients' = clients /\ heard' = heard
    BY <1>2 DEF Server!Disconnect, Nobody
  <2> QED
    BY <1>2, <2>1 DEF ServerInv
<1> QED
  BY <1>1, <1>2

\* What a connection that goes on keeps of what is registered about it.
LEMMA ConnIs ==
  ASSUME ServerInv, NEW k \in Server!Ids
  PROVE  /\ k \in 1..Len(conns) /\ conns \in Seq(ConnRecords) /\ conns[k] \in ConnRecords
         /\ ConnIsSound(conns[k]) /\ Hears(k, conns[k], clients, heard, Nobody)
         /\ \A c \in Client : clients[c] = k => conns[k].open /\ conns[k].id = c
BY LenProperties, ElementOfSeq DEF ServerInv, Agreed, Server!Ids

LEMMA ConnectionMade ==
  ASSUME Server!SocketAssumption, EarlyReturn = FALSE, ServerInv,
         NEW c \in Client, Server!Connect(c)
  PROVE  ServerInv'
<1> DEFINE n == Len(conns) + 1
           r == Server!NewConn(c)
<1>1. /\ conns \in Seq(ConnRecords) /\ Len(conns) \in Nat /\ DOMAIN conns = 1..Len(conns)
      /\ \A k \in 1..Len(conns) : conns[k] \in ConnRecords
  BY LenProperties, ElementOfSeq DEF ServerInv, Agreed
<1>2. /\ r \in ConnRecords /\ r.owner = c /\ r.id = Nobody /\ r.out = <<>> /\ r.used /\ r.open
      /\ r.in = <<"attach">>
  <2>1. <<"attach">> \in Seq(Inputs) /\ <<>> \in Seq(Events)
    BY DEF Inputs
  <2> QED
    BY <2>1 DEF Server!NewConn, ConnRecords, Nobody
<1>3. /\ conns' = Append(conns, r) /\ clients' = clients /\ heard' = heard
      /\ \A k \in 1..Len(conns) : conns[k].owner = c => ~conns[k].open
  BY <1>1 DEF Server!Connect, Server!Ids
<1> HIDE DEF r
<1>4. /\ conns' \in Seq(ConnRecords) /\ Len(conns') = n /\ conns'[n] = r
      /\ \A k \in 1..Len(conns) : conns'[k] = conns[k]
  BY <1>1, <1>2, <1>3, AppendProperties
<1>5. ConnIsSound(r) /\ Hears(n, r, clients, heard, Nobody)
  BY <1>2 DEF ConnIsSound, Hears
<1>6. \A k \in 1..n : k \in 1..Len(conns) \/ k = n
  BY <1>1
<1>7. \A k \in 1..n : ConnIsSound(conns'[k]) /\ Hears(k, conns'[k], clients, heard, Nobody)
  BY <1>4, <1>5, <1>6 DEF ServerInv, Agreed
<1>8. \A d \in Client : clients[d] # 0 =>
        clients[d] \in 1..n /\ conns'[clients[d]].open /\ conns'[clients[d]].id = d
  BY <1>1, <1>4 DEF ServerInv, Agreed
<1>9. \A i, j \in 1..n :
        conns'[i].open /\ conns'[j].open /\ conns'[i].owner = conns'[j].owner => i = j
  <2>1. \A i, j \in 1..Len(conns) :
          conns[i].open /\ conns[j].open /\ conns[i].owner = conns[j].owner => i = j
    BY DEF ServerInv, Agreed
  <2>2. conns'[n].owner = c /\ \A i \in 1..Len(conns) : conns'[i].owner = c => ~conns'[i].open
    BY <1>2, <1>3, <1>4
  <2> QED
    BY <1>4, <1>6, <2>1, <2>2
<1> QED
  BY <1>3, <1>4, <1>7, <1>8, <1>9 DEF ServerInv, Agreed

\* What is put on a connection, and its end.
LEMMA ClientKeeps ==
  ASSUME ServerInv, NEW k \in Server!Ids,
         \/ Server!SendInput(k) \/ Server!ClientDisconnects(k)
         \/ Server!Breaks(k) \/ Server!ClientEnds(k)
  PROVE  ServerInv'
<1> DEFINE r == conns[k]
<1>0. /\ k \in 1..Len(conns) /\ conns \in Seq(ConnRecords) /\ r \in ConnRecords
      /\ ConnIsSound(r) /\ Hears(k, r, clients, heard, Nobody)
      /\ \A c \in Client : clients[c] = k => r.open /\ r.id = c
  BY ConnIs
<1>1. clients' = clients /\ heard' = heard /\ r.used
  BY DEF Server!SendInput, Server!ClientDisconnects, Server!Breaks, Server!ClientEnds
<1> DEFINE Goes(ls, u) == [r EXCEPT !.in = ls, !.used = u]
<1>2. ASSUME NEW ls \in Seq(Inputs), NEW u \in BOOLEAN, conns' = [conns EXCEPT ![k] = Goes(ls, u)],
             \A i \in 1..Len(ls) : ls[i] = "attach" => i \in 1..Len(r.in) /\ r.in[i] = "attach",
             u => \A i \in 1..Len(ls) : ls[i] = "input" \/ (i \in 1..Len(r.in) /\ ls[i] = r.in[i])
      PROVE  ServerInv'
  <2> DEFINE s == Goes(ls, u)
  <2>1. /\ s \in ConnRecords /\ s.in = ls /\ s.used = u /\ s.id = r.id /\ s.out = r.out
        /\ s.open = r.open /\ s.from = r.from /\ s.owner = r.owner
    BY <1>0, <1>2 DEF ConnRecords
  <2> HIDE DEF s
  <2>2. ConnIsSound(s)
    BY <1>0, <1>1, <1>2, <2>1 DEF ConnIsSound
  <2>3. Hears(k, s, clients, heard, Nobody)
    BY <1>0, <1>1, <2>1 DEF Hears
  <2> HIDE DEF r
  <2>4. Agreed(clients, [conns EXCEPT ![k] = s], heard, Nobody)
    BY <1>0, <2>1, <2>2, <2>3, OneChanges DEF ServerInv, r
  <2> QED
    BY <1>1, <1>2, <2>4 DEF ServerInv, s
<1>3. r.in \in Seq(Inputs) /\ Len(r.in) \in Nat
  BY <1>0, LenProperties DEF ConnRecords
<1>4. CASE Server!SendInput(k)
  <2> DEFINE ls == Append(r.in, "input")
  <2>1. conns' = [conns EXCEPT ![k] = Goes(ls, TRUE)]
    <3>1. [conns EXCEPT ![k].in = Append(@, "input")] = [conns EXCEPT ![k] = [r EXCEPT !.in = ls]]
      OBVIOUS
    <3>2. [r EXCEPT !.in = ls] = Goes(ls, TRUE)
      BY <1>0, <1>1 DEF ConnRecords
    <3> QED
      BY <1>4, <3>1, <3>2 DEF Server!SendInput
  <2>2. /\ ls \in Seq(Inputs) /\ Len(ls) = Len(r.in) + 1 /\ ls[Len(r.in) + 1] = "input"
        /\ \A i \in 1..Len(r.in) : ls[i] = r.in[i]
    BY <1>3, AppendProperties DEF Inputs
  <2>3. \A i \in 1..Len(ls) : ls[i] = "input" \/ (i \in 1..Len(r.in) /\ ls[i] = r.in[i])
    BY <1>3, <2>2
  <2>4. \A i \in 1..Len(ls) : ls[i] = "attach" => i \in 1..Len(r.in) /\ r.in[i] = "attach"
    BY <2>3
  <2> HIDE DEF ls, r, Goes
  <2> QED
    BY <1>2, <2>1, <2>2, <2>3, <2>4
<1>5. CASE Server!ClientDisconnects(k)
  <2> DEFINE ls == r.in \o <<"detach", "end">>
  <2>1. conns' = [conns EXCEPT ![k] = Goes(ls, FALSE)]
    BY <1>0, <1>5 DEF Server!ClientDisconnects, ConnRecords
  <2>2. <<"detach", "end">> \in Seq(Inputs) /\ Len(<<"detach", "end">>) = 2
    BY DEF Inputs
  <2>3. /\ ls \in Seq(Inputs) /\ Len(ls) = Len(r.in) + 2
        /\ \A i \in 1..Len(r.in) + 2 :
             ls[i] = IF i <= Len(r.in) THEN r.in[i] ELSE <<"detach", "end">>[i - Len(r.in)]
    BY <1>3, <2>2, ConcatProperties
  <2>4. \A i \in 1..2 : <<"detach", "end">>[i] # "attach"
    OBVIOUS
  <2>5. \A i \in 1..Len(ls) : ls[i] = "attach" => i \in 1..Len(r.in) /\ r.in[i] = "attach"
    <3> SUFFICES ASSUME NEW i \in 1..Len(ls), ls[i] = "attach"
                 PROVE  i \in 1..Len(r.in) /\ r.in[i] = "attach"
      OBVIOUS
    <3>1. CASE i <= Len(r.in)
      BY <1>3, <2>3, <3>1
    <3>2. CASE ~(i <= Len(r.in))
      <4>1. i - Len(r.in) \in 1..2 /\ ls[i] = <<"detach", "end">>[i - Len(r.in)]
        BY <1>3, <2>3, <3>2
      <4> QED BY <2>4, <4>1
    <3> QED BY <3>1, <3>2
  <2> HIDE DEF ls, r, Goes
  <2> QED
    BY <1>2, <2>1, <2>3, <2>5
<1>6. CASE Server!Breaks(k)
  <2>1. conns' = [conns EXCEPT ![k] = Goes(<<"end">>, FALSE)]
    BY <1>0, <1>6 DEF Server!Breaks, ConnRecords
  <2>2. <<"end">> \in Seq(Inputs) /\ \A i \in 1..Len(<<"end">>) : <<"end">>[i] # "attach"
    BY DEF Inputs
  <2> HIDE DEF r, Goes
  <2> QED
    BY <1>2, <2>1, <2>2
<1>7. CASE Server!ClientEnds(k)
  <2> DEFINE ls == Append(r.in, "end")
  <2>1. conns' = [conns EXCEPT ![k] = Goes(ls, FALSE)]
    BY <1>0, <1>7 DEF Server!ClientEnds, ConnRecords
  <2>2. /\ ls \in Seq(Inputs) /\ Len(ls) = Len(r.in) + 1 /\ ls[Len(r.in) + 1] = "end"
        /\ \A i \in 1..Len(r.in) : ls[i] = r.in[i]
    BY <1>3, AppendProperties DEF Inputs
  <2>3. \A i \in 1..Len(ls) : ls[i] = "attach" => i \in 1..Len(r.in) /\ r.in[i] = "attach"
    BY <1>3, <2>2
  <2> HIDE DEF ls, r, Goes
  <2> QED
    BY <1>2, <2>1, <2>2, <2>3
<1> QED
  BY <1>4, <1>5, <1>6, <1>7

LEMMA HeadIsFirst == ASSUME NEW T, NEW s \in Seq(T), s # <<>> PROVE Head(s) = s[1]
OBVIOUS

\* The line that is read is the first, and the others attach nobody.
LEMMA LineTaken ==
  ASSUME NEW r \in ConnRecords, ConnIsSound(r), r.in # <<>>
  PROVE  /\ Tail(r.in) \in Seq(Inputs)
         /\ \A i \in 1..Len(Tail(r.in)) :
              Tail(r.in)[i] # "attach" /\ (r.used => Tail(r.in)[i] \in {"attach", "input"})
         /\ Head(r.in) = "attach" => r.id = Nobody /\ r.out = <<>>
         /\ Head(r.in) \in {"detach", "end"} => ~r.used
<1>1. r.in \in Seq(Inputs) /\ Len(r.in) \in Nat \ {0} /\ Head(r.in) = r.in[1]
  BY EmptySeq, HeadIsFirst DEF ConnRecords
<1>2. /\ Tail(r.in) \in Seq(Inputs) /\ Len(Tail(r.in)) = Len(r.in) - 1
      /\ \A i \in 1..Len(Tail(r.in)) : Tail(r.in)[i] = r.in[i + 1]
  BY <1>1, HeadTailProperties
<1>3. \A i \in 1..Len(Tail(r.in)) : i + 1 \in 1..Len(r.in) /\ i + 1 # 1
  BY <1>1, <1>2
<1>4. \A i \in 1..Len(Tail(r.in)) :
        Tail(r.in)[i] # "attach" /\ (r.used => Tail(r.in)[i] \in {"attach", "input"})
  BY <1>2, <1>3 DEF ConnIsSound
<1>5. 1 \in 1..Len(r.in)
  BY <1>1
<1> QED
  BY <1>1, <1>2, <1>4, <1>5 DEF ConnIsSound

\* One line of a connection is read, and something may be sent to who gave it up.
LEMMA ReadKeeps ==
  ASSUME ServerInv, NEW k \in Server!Ids, conns[k].in # <<>>,
         NEW es \in Seq(Events), es = conns[k].out \/ ~conns[k].used \/ conns[k].id = Nobody
  PROVE  Agreed(clients, [conns EXCEPT ![k] = [conns[k] EXCEPT !.in = Tail(conns[k].in), !.out = es]],
                heard, Nobody)
<1> DEFINE r == conns[k]
           s == [r EXCEPT !.in = Tail(r.in), !.out = es]
<1>1. /\ k \in 1..Len(conns) /\ r \in ConnRecords
      /\ ConnIsSound(r) /\ Hears(k, r, clients, heard, Nobody)
      /\ \A c \in Client : clients[c] = k => r.open /\ r.id = c
  BY ConnIs
<1>2. /\ Tail(r.in) \in Seq(Inputs)
      /\ \A i \in 1..Len(Tail(r.in)) :
           Tail(r.in)[i] # "attach" /\ (r.used => Tail(r.in)[i] \in {"attach", "input"})
  BY <1>1, LineTaken
<1>3. /\ s \in ConnRecords /\ s.in = Tail(r.in) /\ s.out = es /\ s.used = r.used /\ s.id = r.id
      /\ s.open = r.open /\ s.from = r.from /\ s.owner = r.owner
  BY <1>1, <1>2 DEF ConnRecords
<1> HIDE DEF s
<1>4. ConnIsSound(s)
  BY <1>1, <1>2, <1>3 DEF ConnIsSound
<1>5. Hears(k, s, clients, heard, Nobody)
  BY <1>1, <1>3 DEF Hears
<1>6. Agreed(clients, [conns EXCEPT ![k] = s], heard, Nobody)
  BY <1>1, <1>3, <1>4, <1>5, OneChanges DEF ServerInv
<1> QED
  BY <1>6 DEF s

LEMMA TakenIs ==
  ASSUME ServerInv, NEW k \in Server!Ids
  PROVE  /\ Server!Taken(k) =
              [conns EXCEPT ![k] = [conns[k] EXCEPT !.in = Tail(conns[k].in), !.out = conns[k].out]]
         /\ Server!Ended(Server!Taken(k), k) =
              [conns EXCEPT ![k] = [conns[k] EXCEPT !.in = Tail(conns[k].in),
                                      !.out = Append(conns[k].out, Server!Event("end", Nobody))]]
<1>1. k \in 1..Len(conns) /\ conns \in Seq(ConnRecords) /\ conns[k] \in ConnRecords
  BY ConnIs
<1>2. DOMAIN conns = 1..Len(conns)
  BY <1>1, LenProperties
<1>3. Server!Taken(k) = [conns EXCEPT ![k] = [conns[k] EXCEPT !.in = Tail(conns[k].in)]]
  BY DEF Server!Taken
<1>4. [conns[k] EXCEPT !.in = Tail(conns[k].in)]
        = [conns[k] EXCEPT !.in = Tail(conns[k].in), !.out = conns[k].out]
  BY <1>1 DEF ConnRecords
<1>5. Server!Ended(Server!Taken(k), k) =
        [Server!Taken(k) EXCEPT ![k] =
           [Server!Taken(k)[k] EXCEPT !.out = Append(@, Server!Event("end", Nobody))]]
  BY DEF Server!Ended, Nobody
<1>6. Server!Taken(k)[k] = [conns[k] EXCEPT !.in = Tail(conns[k].in)]
  BY <1>1, <1>2, <1>3
<1>7. [Server!Taken(k)[k] EXCEPT !.out = Append(@, Server!Event("end", Nobody))]
        = [conns[k] EXCEPT !.in = Tail(conns[k].in),
                           !.out = Append(conns[k].out, Server!Event("end", Nobody))]
  BY <1>1, <1>6 DEF ConnRecords
<1>8. \A x, y : [[conns EXCEPT ![k] = x] EXCEPT ![k] = y] = [conns EXCEPT ![k] = y]
  BY <1>1, <1>2
<1> QED
  BY <1>3, <1>4, <1>5, <1>7, <1>8

LEMMA EventsTyped ==
  /\ Server!Event("end", Nobody) \in Events /\ Server!Event("output", Nobody) \in Events
  /\ \A c \in Client : /\ Server!Event("joined", c) \in Events /\ Server!Event("input", c) \in Events
                       /\ Server!Event("joined", c).client = c /\ Server!Event("input", c).client = c
  /\ Server!Event("output", Nobody).client = Nobody
BY DEF Server!Event, Events

LEMMA AttachKeeps ==
  ASSUME Server!SocketAssumption, ServerInv, NEW k \in Server!Ids, Server!ReadAttach(k)
  PROVE  ServerInv'
<1> DEFINE r == conns[k]
           c == r.owner
<1>1. /\ k \in 1..Len(conns) /\ conns \in Seq(ConnRecords) /\ r \in ConnRecords
      /\ ConnIsSound(r) /\ Hears(k, r, clients, heard, Nobody)
      /\ \A d \in Client : clients[d] = k => r.open /\ r.id = d
  BY ConnIs
<1>2. r.in # <<>> /\ Head(r.in) = "attach" /\ r.open
  BY DEF Server!ReadAttach, Server!Reads
<1>3. /\ Tail(r.in) \in Seq(Inputs) /\ r.id = Nobody /\ r.out = <<>>
      /\ \A i \in 1..Len(Tail(r.in)) :
           Tail(r.in)[i] # "attach" /\ (r.used => Tail(r.in)[i] \in {"attach", "input"})
  BY <1>1, <1>2, LineTaken
<1>4. CASE conns' = Server!Ended(Server!Taken(k), k) /\ UNCHANGED <<clients, heard>>
  <2>1. Append(r.out, Server!Event("end", Nobody)) \in Seq(Events)
    BY <1>1, EventsTyped, AppendProperties DEF ConnRecords
  <2>2. conns' = [conns EXCEPT ![k] =
          [conns[k] EXCEPT !.in = Tail(conns[k].in),
                           !.out = Append(conns[k].out, Server!Event("end", Nobody))]]
    BY <1>4, TakenIs
  <2>3. Agreed(clients, conns', heard, Nobody)
    BY <1>2, <1>3, <2>1, <2>2, ReadKeeps
  <2> QED
    BY <1>4, <2>3 DEF ServerInv
<1>5. CASE /\ clients[c] = 0 /\ clients' = [clients EXCEPT ![c] = k]
           /\ conns' = Server!Broadcast(
                [Server!Taken(k) EXCEPT ![k].id = c, ![k].from = Len(heard) + 1],
                clients', Server!Event("joined", c))
           /\ heard' = Append(heard, Server!Event("joined", c))
  <2> DEFINE s == [r EXCEPT !.in = Tail(r.in), !.id = c, !.from = Len(heard) + 1]
             ds == [conns EXCEPT ![k] = s]
             to == [clients EXCEPT ![c] = k]
  <2>0. /\ c \in Client /\ c # Nobody /\ clients \in [Client -> Nat]
        /\ heard \in Seq(Events) /\ Len(heard) \in Nat /\ Len(conns) \in Nat
    BY <1>1, LenProperties DEF ConnRecords, Server!SocketAssumption, Nobody, ServerInv, Agreed
  <2>1. [Server!Taken(k) EXCEPT ![k].id = c, ![k].from = Len(heard) + 1] = ds
    <3>1. DOMAIN conns = 1..Len(conns)
      BY <1>1, LenProperties
    <3>2. Server!Taken(k) = [conns EXCEPT ![k] = [r EXCEPT !.in = Tail(r.in)]]
      BY DEF Server!Taken
    <3>3. [[[r EXCEPT !.in = Tail(r.in)] EXCEPT !.id = c] EXCEPT !.from = Len(heard) + 1] = s
      BY <1>1 DEF ConnRecords
    <3> HIDE DEF r, c, s
    <3> QED
      BY <1>1, <3>1, <3>2, <3>3
  <2>2. /\ s \in ConnRecords /\ s.in = Tail(r.in) /\ s.id = c /\ s.from = Len(heard) + 1
        /\ s.out = <<>> /\ s.used = r.used /\ s.open = r.open /\ s.owner = c
    <3>1. Len(heard) + 1 \in Nat /\ c \in Client \cup {Nobody} /\ Tail(r.in) \in Seq(Inputs)
      BY <1>3, <2>0
    <3>2. /\ s \in ConnRecords /\ s.in = Tail(r.in) /\ s.id = c /\ s.from = Len(heard) + 1
          /\ s.out = r.out /\ s.used = r.used /\ s.open = r.open /\ s.owner = r.owner
      <4> DEFINE ls == Tail(r.in)
                 n == Len(heard) + 1
      <4>1. s = [r EXCEPT !.in = ls, !.id = c, !.from = n]
        OBVIOUS
      <4> HIDE DEF r, c, s, ls, n
      <4>2. ls \in Seq(Inputs) /\ c \in Client \cup {Nobody} /\ n \in Nat
        BY <3>1 DEF ls, n
      <4>3. /\ s \in ConnRecords /\ s.in = ls /\ s.id = c /\ s.from = n
            /\ s.out = r.out /\ s.used = r.used /\ s.open = r.open /\ s.owner = r.owner
        <5>1. r \in ConnRecords
          BY <1>1
        <5> QED
          BY <4>1, <4>2, <5>1 DEF ConnRecords
      <4> QED
        BY <4>3 DEF ls, n
    <3> QED
      BY <1>3, <3>2
  <2> HIDE DEF s
  <2>3. /\ ds \in Seq(ConnRecords) /\ Len(ds) = Len(conns) /\ ds[k] = s
        /\ \A j \in 1..Len(conns) : j # k => ds[j] = conns[j]
    BY <1>1, <2>2, ExceptSeq
  <2>4. to \in [Client -> Nat] /\ to[c] = k /\ \A d \in Client : d # c => to[d] = clients[d]
    BY <1>1, <2>0
  <2> HIDE DEF ds, to
  <2>5. ConnIsSound(s)
    BY <1>1, <1>2, <1>3, <2>2 DEF ConnIsSound
  <2>6. Hears(k, s, to, heard, c)
    <3>1. Server!Due(heard, Len(heard) + 1, c) = {}
      BY <2>0 DEF Server!Due
    <3>2. Server!GotInOrder(<<>>, heard, Len(heard) + 1, c)
      BY <3>1, InOrder, FS_EmptySet, EmptySeq
    <3> QED
      BY <2>2, <2>4, <3>2 DEF Hears
  <2>7. ASSUME NEW j \in 1..Len(conns), j # k
        PROVE  Hears(j, conns[j], to, heard, c)
    <3>1. Hears(j, conns[j], clients, heard, Nobody) /\ conns[j].owner \in Client
      <4>1. Hears(j, conns[j], clients, heard, Nobody)
        BY DEF ServerInv, Agreed
      <4>2. conns[j] \in ConnRecords
        BY <1>1, ElementOfSeq
      <4> HIDE DEF r, c
      <4> QED
        BY <4>1, <4>2 DEF ConnRecords
    <3>2. conns[j].owner # Nobody
      BY <3>1 DEF Server!SocketAssumption, Nobody
    <3>3. SUFFICES ASSUME conns[j].used, conns[j].id # Nobody
                   PROVE  Hears(j, conns[j], to, heard, c)
      BY DEF Hears
    <3>4. clients[conns[j].owner] = j /\ j # 0
      BY <2>0, <3>1, <3>3 DEF Hears
    <3>5. to[conns[j].owner] = j
      BY <1>5, <2>4, <3>1, <3>4
    <3> QED
      BY <3>1, <3>2, <3>3, <3>5 DEF Hears
  <2>8. \A j \in 1..Len(ds) : ConnIsSound(ds[j]) /\ Hears(j, ds[j], to, heard, c)
    <3>1. \A j \in 1..Len(conns) : ConnIsSound(conns[j])
      BY DEF ServerInv, Agreed
    <3> QED
      BY <2>3, <2>5, <2>6, <2>7, <3>1
  <2>9. \A d \in Client : to[d] # 0 => to[d] \in 1..Len(ds) /\ ds[to[d]].open /\ ds[to[d]].id = d
    <3> SUFFICES ASSUME NEW d \in Client, to[d] # 0
                 PROVE  to[d] \in 1..Len(ds) /\ ds[to[d]].open /\ ds[to[d]].id = d
      OBVIOUS
    <3>1. CASE d = c
      BY <1>1, <1>2, <2>2, <2>3, <2>4, <3>1
    <3>2. CASE d # c
      <4>1. /\ to[d] = clients[d] /\ clients[d] \in 1..Len(conns)
            /\ conns[clients[d]].open /\ conns[clients[d]].id = d
        BY <2>4, <3>2 DEF ServerInv, Agreed
      <4>2. clients[d] # k
        BY <1>1, <1>3, <4>1 DEF Server!SocketAssumption, Nobody
      <4> QED
        BY <2>3, <4>1, <4>2
    <3> QED BY <3>1, <3>2
  <2>10. \A i, j \in 1..Len(ds) : ds[i].open /\ ds[j].open /\ ds[i].owner = ds[j].owner => i = j
    <3>1. \A i \in 1..Len(ds) : ds[i].owner = conns[i].owner /\ ds[i].open = conns[i].open
      <4>1. s.owner = conns[k].owner /\ s.open = conns[k].open
        BY <2>2
      <4> HIDE DEF r, c
      <4> QED
        BY <2>3, <4>1
    <3>2. \A i, j \in 1..Len(conns) :
            conns[i].open /\ conns[j].open /\ conns[i].owner = conns[j].owner => i = j
      BY DEF ServerInv, Agreed
    <3> HIDE DEF r, c
    <3> QED
      BY <2>3, <3>1, <3>2
  <2>11. Agreed(to, ds, heard, c)
    BY <2>0, <2>3, <2>4, <2>8, <2>9, <2>10 DEF Agreed
  <2>12. /\ Server!Event("joined", c) \in Events /\ Server!Event("joined", c).client = c
    BY <2>0, EventsTyped
  <2>13. clients' = to
    BY <1>5 DEF to
  <2>14. /\ conns' = Server!Broadcast(ds, to, Server!Event("joined", c))
         /\ heard' = Append(heard, Server!Event("joined", c))
    BY <1>5, <2>1, <2>13
  <2> HIDE DEF r, c
  <2>15. Agreed(to, conns', heard', Nobody)
    BY <2>11, <2>12, <2>14, AllHear
  <2> QED
    BY <2>13, <2>15 DEF ServerInv
<1> QED
  BY <1>4, <1>5 DEF Server!ReadAttach

LEMMA InputKeeps ==
  ASSUME Server!SocketAssumption, ServerInv, NEW k \in Server!Ids, Server!ReadInput(k)
  PROVE  ServerInv'
<1> DEFINE c == conns[k].owner
           e == Server!Event("input", c)
<1>1. conns[k].in # <<>> /\ conns[k].out \in Seq(Events) /\ c \in Client
  BY ConnIs DEF Server!ReadInput, Server!Reads, ConnRecords
<1>2. Agreed(clients, Server!Taken(k), heard, Nobody)
  BY <1>1, TakenIs, ReadKeeps
<1>3. CASE conns' = Server!Taken(k) /\ UNCHANGED <<clients, heard>>
  BY <1>2, <1>3 DEF ServerInv
<1>4. CASE /\ conns' = Server!Broadcast(Server!Taken(k), clients, e)
           /\ heard' = Append(heard, e) /\ UNCHANGED clients
  <2>1. e \in Events
    BY <1>1, EventsTyped
  <2> HIDE DEF e
  <2>2. Agreed(clients, Server!Taken(k), heard, e.client)
    BY <1>2, AgreedLate
  <2> QED
    BY <1>4, <2>1, <2>2, AllHear DEF ServerInv
<1> QED
  BY <1>3, <1>4 DEF Server!ReadInput

\* Who has given up an open connection uses no other.
LEMMA OwnerGone ==
  ASSUME NEW to, NEW cs, NEW said, Agreed(to, cs, said, Nobody), NEW k \in 1..Len(cs),
         cs[k].open, ~cs[k].used
  PROVE  \A j \in 1..Len(cs) : cs[j].owner = cs[k].owner => ~cs[j].used \/ cs[j].id = Nobody
BY DEF Agreed, ConnIsSound

LEMMA DetachKeeps ==
  ASSUME Server!SocketAssumption, ServerInv, NEW k \in Server!Ids, Server!ReadDetach(k)
  PROVE  ServerInv'
<1> DEFINE r == conns[k]
           c == r.owner
           es == Append(r.out, Server!Event("end", Nobody))
           s == [r EXCEPT !.in = Tail(r.in), !.out = es]
           cs == [conns EXCEPT ![k] = s]
<1>1. /\ k \in 1..Len(conns) /\ conns \in Seq(ConnRecords) /\ r \in ConnRecords /\ ConnIsSound(r)
  BY ConnIs
<1>2. r.in # <<>> /\ Head(r.in) = "detach" /\ r.open
  BY DEF Server!ReadDetach, Server!Reads
<1>3. ~r.used /\ Tail(r.in) \in Seq(Inputs)
  BY <1>1, <1>2, LineTaken
<1>4. es \in Seq(Events) /\ c \in Client
  BY <1>1, EventsTyped, AppendProperties DEF ConnRecords
<1>5. Agreed(clients, cs, heard, Nobody)
  BY <1>2, <1>3, <1>4, ReadKeeps
<1>6. s \in ConnRecords /\ s.open /\ ~s.used /\ s.owner = c
  BY <1>1, <1>2, <1>3, <1>4 DEF ConnRecords
<1>7. Server!Disconnect(cs, c)
  BY TakenIs DEF Server!ReadDetach
<1>8. k \in 1..Len(cs) /\ cs[k] = s
  <2> HIDE DEF s, r
  <2> QED
    BY <1>1, <1>6, ExceptSeq
<1> HIDE DEF cs, s, c
<1>9. Agreed([clients EXCEPT ![c] = 0], cs, heard, Nobody)
  <2>1. \A j \in 1..Len(cs) : cs[j].owner = c => ~cs[j].used \/ cs[j].id = Nobody
    BY <1>5, <1>6, <1>8, OwnerGone
  <2> QED
    BY <1>4, <1>5, <2>1, NameGoes
<1> QED
  BY <1>4, <1>5, <1>7, <1>9, DisconnectKeeps

LEMMA ClosesKeeps ==
  ASSUME Server!SocketAssumption, ServerInv, NEW k \in Server!Ids, Server!SocketCloses(k)
  PROVE  ServerInv'
<1> DEFINE r == conns[k]
           s == [r EXCEPT !.in = Tail(r.in), !.open = FALSE]
           cs == [conns EXCEPT ![k] = s]
<1>1. /\ k \in 1..Len(conns) /\ conns \in Seq(ConnRecords) /\ r \in ConnRecords
      /\ ConnIsSound(r) /\ Hears(k, r, clients, heard, Nobody)
      /\ \A d \in Client : clients[d] = k => r.open /\ r.id = d
  BY ConnIs
<1>2. r.in # <<>> /\ Head(r.in) = "end" /\ r.open
  BY DEF Server!SocketCloses, Server!Reads
<1>3. /\ ~r.used /\ Tail(r.in) \in Seq(Inputs)
      /\ \A i \in 1..Len(Tail(r.in)) : Tail(r.in)[i] # "attach"
  BY <1>1, <1>2, LineTaken
<1>4. /\ s \in ConnRecords /\ s.in = Tail(r.in) /\ ~s.open /\ ~s.used /\ s.id = r.id
      /\ s.out = r.out /\ s.owner = r.owner
  BY <1>1, <1>3 DEF ConnRecords
<1>5. [Server!Taken(k) EXCEPT ![k].open = FALSE] = cs
  <2>1. DOMAIN conns = 1..Len(conns)
    BY <1>1, LenProperties
  <2>2. Server!Taken(k) = [conns EXCEPT ![k] = [r EXCEPT !.in = Tail(r.in)]]
    BY DEF Server!Taken
  <2>3. [[r EXCEPT !.in = Tail(r.in)] EXCEPT !.open = FALSE] = s
    BY <1>1 DEF ConnRecords
  <2> HIDE DEF r, s
  <2> QED
    BY <1>1, <2>1, <2>2, <2>3
<1>6. ConnIsSound(s) /\ \A to : Hears(k, s, to, heard, Nobody)
  BY <1>1, <1>3, <1>4 DEF ConnIsSound, Hears
<1>7. Server!Disconnect(cs, r.id)
  BY <1>5 DEF Server!SocketCloses
<1>8. r.id \in Client \cup {Nobody} /\ r.id \in {Nobody, r.owner} /\ r.owner \in Client
  BY <1>1 DEF ConnRecords, ConnIsSound
<1> HIDE DEF s
<1>9. ASSUME NEW to, Agreed(to, conns, heard, Nobody), \A d \in Client : to[d] # k
      PROVE  Agreed(to, cs, heard, Nobody)
  BY <1>1, <1>4, <1>6, <1>9, OneChanges
<1>10. clients \in [Client -> Nat] /\ k # 0
  BY <1>1 DEF ServerInv, Agreed
<1>11. ASSUME r.id # Nobody, clients[r.id] # 0
       PROVE  Agreed([clients EXCEPT ![r.id] = 0], cs, heard, Nobody)
  <2>1. r.id = r.owner /\ r.id \in Client
    BY <1>8, <1>11
  <2>2. Agreed([clients EXCEPT ![r.id] = 0], conns, heard, Nobody)
    <3>1. \A j \in 1..Len(conns) : conns[j].owner = r.id => ~conns[j].used \/ conns[j].id = Nobody
      BY <1>1, <1>2, <1>3, <2>1, OwnerGone DEF ServerInv
    <3> QED
      BY <2>1, <3>1, NameGoes DEF ServerInv
  <2>3. \A d \in Client : [clients EXCEPT ![r.id] = 0][d] # k
    BY <1>1, <1>10, <2>1
  <2> QED
    BY <1>9, <2>2, <2>3
<1>12. ASSUME r.id = Nobody \/ clients[r.id] = 0
       PROVE  Agreed(clients, cs, heard, Nobody)
  <2>1. \A d \in Client : clients[d] # k
    BY <1>1, <1>10, <1>12 DEF Server!SocketAssumption, Nobody
  <2> QED
    BY <1>9, <2>1 DEF ServerInv
<1> HIDE DEF cs, r
<1> QED
  BY <1>7, <1>8, <1>11, <1>12, DisconnectKeeps

LEMMA OutputKeeps ==
  ASSUME Server!SocketAssumption, ServerInv, Server!Output
  PROVE  ServerInv'
<1> DEFINE e == Server!Event("output", Nobody)
<1>1. /\ conns' = Server!Broadcast(conns, clients, e) /\ heard' = Append(heard, e)
      /\ clients' = clients
  BY DEF Server!Output, Nobody
<1>2. e \in Events /\ e.client = Nobody
  BY EventsTyped
<1> HIDE DEF e
<1> QED
  BY <1>1, <1>2, AllHear DEF ServerInv

LEMMA ServerInit == ASSUME Server!Init PROVE ServerInv
<1>2. /\ clients = [c \in Client |-> 0] /\ conns = <<>> /\ heard = <<>>
      /\ Len(conns) = 0
  BY DEF Server!Init
<1>3. clients \in [Client -> Nat] /\ conns \in Seq(ConnRecords) /\ heard \in Seq(Events)
  BY <1>2
<1>4. \A c \in Client : clients[c] = 0
  BY <1>2
<1> QED
  BY <1>2, <1>3, <1>4 DEF ServerInv, Agreed

LEMMA ServerNext ==
  ASSUME Server!SocketAssumption, EarlyReturn = FALSE, ServerInv, [Server!Next]_Server!vars PROVE ServerInv'
<1>1. CASE UNCHANGED Server!vars
  BY <1>1 DEF Server!vars, ServerInv
<1>2. ASSUME NEW k \in Server!Ids,
             \/ Server!SendInput(k) \/ Server!ClientDisconnects(k) \/ Server!Breaks(k)
             \/ Server!ClientEnds(k) \/ Server!ReadAttach(k) \/ Server!ReadInput(k)
             \/ Server!ReadDetach(k) \/ Server!SocketCloses(k)
      PROVE  ServerInv'
  BY <1>2, ClientKeeps, AttachKeeps, InputKeeps, DetachKeeps, ClosesKeeps
<1> QED
  BY <1>1, <1>2, ConnectionMade, OutputKeeps DEF Server!Next

LEMMA ServerHolds == ASSUME ServerInv PROVE Server!ClientsAgree
<1>2. ASSUME NEW k \in Server!Ids, conns[k].used, conns[k].id # Nobody
      PROVE  /\ clients[conns[k].owner] = k
             /\ Server!GotInOrder(conns[k].out, heard, conns[k].from, conns[k].owner)
  BY <1>2, ConnIs DEF Hears
<1>3. \A c \in Server!Registered : conns[clients[c]].open /\ conns[clients[c]].id = c
  BY DEF ServerInv, Agreed, Server!Registered
<1> QED
  BY <1>2, <1>3 DEF Server!ClientsAgree, Nobody

\* For any number of clients, connections, inputs and outputs, and any limit: a client
\* that uses an attached connection is registered with it and was sent every event of the
\* others since it attached, in the order of the server, and a registered name has an
\* open connection of its own (#broadcast, #handleClientDisconnect), unless a client
\* connects again before its last connection was closed.
THEOREM ClientsTheorem ==
  ASSUME Server!SocketAssumption, EarlyReturn = FALSE
  PROVE  Server!Spec => []Server!ClientsAgree
  BY ServerInit, ServerNext, ServerHolds, PTL DEF Server!Spec
===============================================================================
