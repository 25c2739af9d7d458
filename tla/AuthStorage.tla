---------------------------- MODULE AuthStorage -----------------------------
(***************************************************************************)
(* Credentials shared by the processes of a user:                           *)
(* packages/coding-agent/src/core/auth-storage.ts.                          *)
(*                                                                          *)
(* Each process has a copy of the file auth.json. A login writes through a  *)
(* lock taken synchronously, the refresh of an expired OAuth token holds a  *)
(* lock over its exchange with the provider. The provider rotates: a        *)
(* refresh makes the token it was asked with worthless. A token is its      *)
(* generation, 0 for none; an API key of a second provider is a number too. *)
(***************************************************************************)
EXTENDS Integers, FiniteSets

CONSTANTS
  Process,
  MaxTokens,  \* tokens the provider issues
  MaxKeys,    \* logins with an API key
  Failures    \* among "network", "contention", "stale", "unnoticed", "crash"

Nobody == "nobody"

AuthAssumption ==
  /\ Nobody \notin Process
  /\ {MaxTokens, MaxKeys} \subseteq Nat
  /\ Failures \subseteq {"network", "contention", "stale", "unnoticed", "crash"}

NoData == [token |-> 0, key |-> 0]

VARIABLES
  file,     \* auth.json
  lock,     \* who holds its lock
  issued,   \* the provider's last token
  used,     \* the tokens that were exchanged for newer ones
  expired,  \* the tokens that have expired
  lost,     \* tokens whose exchange a crash or a stale lock cut off
  keys,     \* the last API key that was stored without an error
  procs     \* the processes

vars == <<file, lock, issued, used, expired, lost, keys, procs>>

\* A process: this.data, whether reading failed last (loadError), where its
\* getApiKey is, what it read under the lock, the token it was given, and
\* whether its lock was found compromised.
NewProcess(data) ==
  [data |-> data, loadError |-> FALSE, pc |-> "idle", read |-> NoData, given |-> 0,
   compromised |-> FALSE]

NeedsRefresh(token) == token # 0 /\ token \in expired

Becomes(p, record) == procs' = [procs EXCEPT ![p] = record]

-----------------------------------------------------------------------------
(* The provider.                                                            *)

Expire ==
  /\ \E token \in (1..issued) \ expired : expired' = expired \cup {token}
  /\ UNCHANGED <<file, lock, issued, used, lost, keys, procs>>

-----------------------------------------------------------------------------
(* getApiKey of an OAuth provider.                                          *)

\* reload(): reading needs the lock as well; what was in memory stays if it
\* cannot be had.
Reloaded(record, held) ==
  IF held THEN [record EXCEPT !.loadError = TRUE]
  ELSE [record EXCEPT !.data = file, !.loadError = FALSE]

\* The error of a refresh: memory follows the file, where another process may
\* have left a token.
RefreshFailed(p, data) ==
  Becomes(p, Reloaded([NewProcess(data) EXCEPT !.loadError = procs[p].loadError],
                      lock \notin {Nobody, p}))
Released(p) == IF lock = p THEN Nobody ELSE lock

GetApiKey(p) ==
  /\ procs[p].pc = "idle" /\ NeedsRefresh(procs[p].data.token)
  /\ Becomes(p, [procs[p] EXCEPT !.pc = "locking"])
  /\ UNCHANGED <<file, lock, issued, used, expired, lost, keys>>

\* Defect: the token of the copy in memory is refreshed.
Acquire_Unread(p) ==
  /\ procs[p].pc = "locking" /\ lock = Nobody
  /\ lock' = p
  /\ Becomes(p, [procs[p] EXCEPT !.pc = "asking", !.read = procs[p].data])
  /\ UNCHANGED <<file, issued, used, expired, lost, keys>>

\* The lock is taken, the file read; a token another process has refreshed, or
\* has removed, ends the matter.
Acquire(p) ==
  /\ procs[p].pc = "locking" /\ lock = Nobody
  /\ LET read == [procs[p] EXCEPT !.data = file, !.loadError = FALSE] IN
     \/ /\ ~NeedsRefresh(file.token)
        /\ Becomes(p, [read EXCEPT !.pc = "idle"]) /\ UNCHANGED lock
     \/ /\ NeedsRefresh(file.token)
        /\ Becomes(p, [read EXCEPT !.pc = "asking", !.read = file]) /\ lock' = p
  /\ UNCHANGED <<file, issued, used, expired, lost, keys>>

GivesUpLocking(p) ==
  /\ "contention" \in Failures
  /\ procs[p].pc = "locking" /\ lock # Nobody
  /\ RefreshFailed(p, procs[p].data)
  /\ UNCHANGED <<file, lock, issued, used, expired, lost, keys>>

\* The provider has the request: a token is exchanged once, then refused.
ProviderAnswers(p) ==
  /\ procs[p].pc = "asking"
  /\ \/ /\ procs[p].read.token \notin used /\ issued < MaxTokens
        /\ issued' = issued + 1 /\ used' = used \cup {procs[p].read.token}
        /\ Becomes(p, [procs[p] EXCEPT !.pc = "answered", !.given = issued + 1])
        /\ UNCHANGED lock
     \/ /\ procs[p].read.token \in used \/ "network" \in Failures
        /\ RefreshFailed(p, procs[p].data) /\ lock' = Released(p) /\ UNCHANGED <<issued, used>>
  /\ UNCHANGED <<file, expired, lost, keys>>

\* Defect: the file is written from the copy in memory.
Merged_Memory(p) == [procs[p].data EXCEPT !.token = procs[p].given]

\* What was read under the lock, with the new token.
Merged(p) == [procs[p].read EXCEPT !.token = procs[p].given]

\* The answer: memory has it at once, the file unless the lock was compromised.
Refreshed(p) ==
  /\ procs[p].pc = "answered"
  /\ IF procs[p].compromised
     THEN RefreshFailed(p, Merged(p)) /\ UNCHANGED file
     ELSE /\ file' = Merged(p)
          /\ Becomes(p, NewProcess(Merged(p)))
  /\ lock' = Released(p)
  /\ UNCHANGED <<issued, used, expired, lost, keys>>

\* The holder is too slow to renew its lock: another may take it. It is told
\* before its answer comes, if not "unnoticed" (onCompromised runs off a timer).
LockGoesStale(p) ==
  /\ "stale" \in Failures
  /\ lock = p /\ procs[p].pc \in {"asking", "answered"}
  /\ lock' = Nobody
  /\ lost' = lost \cup {procs[p].read.token}
  /\ Becomes(p, [procs[p] EXCEPT !.compromised = "unnoticed" \notin Failures])
  /\ UNCHANGED <<file, issued, used, expired, keys>>

-----------------------------------------------------------------------------
(* set, remove and reload.                                                  *)

\* A change sets the credential of one provider.
Changed(data, change) == [data EXCEPT ![change.provider] = change.credential]
Change(provider, credential) == [provider |-> provider, credential |-> credential]

\* persistProviderChange is given up when the lock is held, by whomever, and
\* when reading failed before.
Persists(p) == ~procs[p].loadError /\ lock = Nobody

\* Defect: a change is written into the copy in memory, and that to the file.
Persist_Memory(p, change) ==
  file' = IF Persists(p) THEN Changed(procs[p].data, change) ELSE file

\* persistProviderChange: one provider changes in the file as it is now.
Persist(p, change) == file' = IF Persists(p) THEN Changed(file, change) ELSE file

\* set and remove.
SetData(p, change) ==
  /\ "contention" \in Failures \/ Persists(p)
  /\ Becomes(p, [procs[p] EXCEPT !.data = Changed(@, change)])
  /\ Persist(p, change)
  /\ UNCHANGED <<lock, used, expired, lost>>

\* login of the OAuth provider: a new chain of tokens.
Login(p) ==
  /\ issued < MaxTokens
  /\ issued' = issued + 1
  /\ SetData(p, Change("token", issued + 1))
  /\ UNCHANGED keys

SetKey(p) ==
  /\ \E key \in (1..MaxKeys) \ {keys} :
     /\ SetData(p, Change("key", key))
     /\ keys' = IF Persists(p) THEN key ELSE keys
  /\ UNCHANGED issued

Logout(p) ==
  /\ procs[p].data.token # 0
  /\ SetData(p, Change("token", 0))
  /\ UNCHANGED <<issued, keys>>

Reload(p) ==
  /\ procs[p].pc = "idle" /\ ("contention" \in Failures \/ lock = Nobody)
  /\ Becomes(p, Reloaded(procs[p], lock # Nobody))
  /\ UNCHANGED <<file, lock, issued, used, expired, lost, keys>>

\* A process ends at any time, and another starts in its place; a lock left
\* behind goes stale.
Crash(p) ==
  /\ "crash" \in Failures
  /\ Becomes(p, NewProcess(file))
  /\ lock' = Released(p)
  /\ lost' = IF procs[p].pc \in {"asking", "answered"} THEN lost \cup {procs[p].read.token} ELSE lost
  /\ UNCHANGED <<file, issued, used, expired, keys>>

-----------------------------------------------------------------------------
Init ==
  /\ file = [token |-> 1, key |-> 0] /\ issued = 1 /\ used = {} /\ expired = {} /\ lost = {} /\ keys = 0
  /\ lock = Nobody /\ procs = [p \in Process |-> NewProcess(file)]

Next ==
  \/ Expire
  \/ \E p \in Process :
       \/ GetApiKey(p) \/ Acquire(p) \/ GivesUpLocking(p) \/ ProviderAnswers(p)
       \/ Refreshed(p) \/ LockGoesStale(p)
       \/ Login(p) \/ SetKey(p) \/ Logout(p) \/ Reload(p) \/ Crash(p)

Spec == Init /\ [][Next]_vars

-----------------------------------------------------------------------------
\* The file never holds a token that was used up: whoever reads it next can go
\* on with it. It is behind only between the provider's answer and the write by
\* the holder of the lock, or when that holder crashed or lost its lock. And an
\* API key that was stored stays, whatever other processes refresh or store
\* (refreshOAuthTokenWithLock and persistProviderChange read again under the
\* lock before they write).
CredentialsSurvive ==
  /\ file.token \in used \ lost =>
       \E p \in Process : lock = p /\ procs[p].pc = "answered" /\ procs[p].read = file
  /\ file.key = keys
===============================================================================
