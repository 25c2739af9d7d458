---------------------------- MODULE ServicesProofs ----------------------------
(***************************************************************************)
(* Credentials survive for any number of processes, tokens and keys, as    *)
(* long as a process that loses its lock learns of it before it writes;    *)
(* and the parts that are checked beside them, with what is proved of each *)
(* in its own module, put together.                                        *)
(*                                                                         *)
(* A step of the whole is a step of the part at work, so that the invariant *)
(* proved of the part is one of the whole while that part is at work.      *)
(***************************************************************************)
EXTENDS MCServices, TLAPS

Credentials == [token : Nat, key : Nat]
ProcessType ==
  [data : Credentials, loadError : BOOLEAN, pc : {"idle", "locking", "asking", "answered"},
   read : Credentials, given : Nat, compromised : BOOLEAN]

\* The fields of auth-storage.ts and what the provider knows keep their types;
\* tokens are numbered as they are issued.
Typed ==
  /\ file \in Credentials /\ file.token <= issued
  /\ lock \in Process \cup {Nobody}
  /\ issued \in Nat /\ used \subseteq 1..issued /\ keys \in Nat
  /\ procs \in [Process -> ProcessType]

Exchanging(p) == procs[p].pc \in {"asking", "answered"}
Answered(p) == procs[p].pc = "answered"

\* A process in the middle of an exchange holds the lock and has read the file
\* as it is, unless it was told that its lock is lost (withLockAsync); then its
\* token counts as lost.
HolderIsCurrent ==
  \A p \in Process :
    /\ procs[p].compromised => Exchanging(p) /\ procs[p].read.token \in lost
    /\ Exchanging(p) /\ ~procs[p].compromised => lock = p /\ procs[p].read = file

\* A token that was given and not yet written is nowhere else: not used, not in
\* the file, not in another exchange.
GivenIsFresh ==
  /\ \A p \in Process : Exchanging(p) => procs[p].read.token \in 1..issued
  /\ \A p \in Process : Answered(p) =>
       /\ procs[p].given \in 1..issued /\ procs[p].given \notin used
       /\ procs[p].given # file.token
       /\ \A q \in Process :
            /\ Exchanging(q) => procs[q].read.token # procs[p].given
            /\ Answered(q) /\ q # p => procs[q].given # procs[p].given

\* What is used up and in the file is lost, or about to be replaced.
UsedIsReplaced ==
  file.token \in used \ lost => \E p \in Process : Answered(p) /\ ~procs[p].compromised

Inv ==
  /\ Typed /\ HolderIsCurrent /\ GivenIsFresh /\ UsedIsReplaced
  /\ file.key = keys

-----------------------------------------------------------------------------
\* What a step of one process does to the record of each.
LEMMA OneProcess ==
  ASSUME Typed, NEW p \in Process, NEW r, Becomes(p, r)
  PROVE  \A q \in Process : procs'[q] = IF q = p THEN r ELSE procs[q]
BY DEF Typed, Becomes

LEMMA OneProcessTyped ==
  ASSUME Typed, NEW p \in Process, NEW r \in ProcessType, Becomes(p, r)
  PROVE  procs' \in [Process -> ProcessType]
BY DEF Typed, Becomes

\* The records a process may get.
LEMMA Records ==
  ASSUME Typed
  PROVE  /\ \A data \in Credentials : NewProcess(data) \in ProcessType
         /\ \A r \in ProcessType, held \in BOOLEAN :
              /\ Reloaded(r, held) \in ProcessType
              /\ Reloaded(r, held).pc = r.pc
              /\ Reloaded(r, held).compromised = r.compromised
         /\ \A r \in ProcessType, data \in Credentials, e \in BOOLEAN :
              /\ [NewProcess(data) EXCEPT !.loadError = e] \in ProcessType
              /\ [NewProcess(data) EXCEPT !.loadError = e].pc = "idle"
              /\ ~[NewProcess(data) EXCEPT !.loadError = e].compromised
<1>1. NoData \in Credentials BY DEF NoData, Credentials
<1>2. \A data \in Credentials, e \in BOOLEAN :
        /\ NewProcess(data) \in ProcessType
        /\ [NewProcess(data) EXCEPT !.loadError = e] \in ProcessType
        /\ [NewProcess(data) EXCEPT !.loadError = e].pc = "idle"
        /\ ~[NewProcess(data) EXCEPT !.loadError = e].compromised
  BY <1>1 DEF NewProcess, ProcessType
<1>3. \A r \in ProcessType, held \in BOOLEAN :
        /\ Reloaded(r, held) \in ProcessType
        /\ Reloaded(r, held).pc = r.pc
        /\ Reloaded(r, held).compromised = r.compromised
  BY DEF Reloaded, ProcessType, Typed
<1> QED BY <1>2, <1>3

\* A failed refresh leaves the process idle.
LEMMA FailedIsIdle ==
  ASSUME Typed, NEW p \in Process, NEW data \in Credentials, RefreshFailed(p, data)
  PROVE  /\ procs' \in [Process -> ProcessType]
         /\ procs'[p].pc = "idle" /\ ~procs'[p].compromised
         /\ \A q \in Process : q # p => procs'[q] = procs[q]
<1> DEFINE new == [NewProcess(data) EXCEPT !.loadError = procs[p].loadError]
           r == Reloaded(new, lock \notin {Nobody, p})
<1>1. procs[p].loadError \in BOOLEAN BY DEF Typed, ProcessType
<1>2. new \in ProcessType /\ new.pc = "idle" /\ ~new.compromised BY <1>1, Records
<1>3. r \in ProcessType /\ r.pc = "idle" /\ ~r.compromised BY <1>2, Records
<1>4. Becomes(p, r) BY DEF RefreshFailed
<1> HIDE DEF r
<1> QED BY <1>3, <1>4, OneProcess, OneProcessTyped

\* Where the file, the provider and the lost tokens stay as they are, a process
\* that becomes idle, or was and stays so, disturbs nobody.
LEMMA IdleStep ==
  ASSUME Inv, NEW p \in Process,
         file' = file, issued' = issued, used' = used, keys' = keys,
         lost \subseteq lost',
         procs' \in [Process -> ProcessType],
         \A q \in Process : q # p => procs'[q] = procs[q],
         procs'[p].pc \notin {"asking", "answered"}, ~procs'[p].compromised,
         lock' \in Process \cup {Nobody},
         \A q \in Process : q # p /\ lock = q => lock' = q,
         Answered(p) /\ ~procs[p].compromised => file.token \notin used' \ lost'
  PROVE  Inv'
<1>1. Typed' BY DEF Inv, Typed
<1>2. \A q \in Process : /\ Exchanging(q)' => Exchanging(q) /\ q # p
                         /\ Answered(q)' => Answered(q) /\ q # p
  BY DEF Exchanging, Answered
<1>3. HolderIsCurrent'
  <2>1. ASSUME NEW q \in Process, q # p
        PROVE  /\ procs'[q].compromised => Exchanging(q)' /\ procs'[q].read.token \in lost'
               /\ Exchanging(q)' /\ ~procs'[q].compromised => lock' = q /\ procs'[q].read = file'
    BY <2>1 DEF Inv, HolderIsCurrent, Exchanging
  <2> QED BY <1>2, <2>1 DEF HolderIsCurrent
<1>4. GivenIsFresh' BY <1>2 DEF Inv, GivenIsFresh, Exchanging, Answered
<1>5. UsedIsReplaced'
  <2> SUFFICES ASSUME file.token \in used \ lost'
               PROVE  \E q \in Process : Answered(q)' /\ ~procs'[q].compromised
    BY DEF UsedIsReplaced
  <2>1. PICK q \in Process : Answered(q) /\ ~procs[q].compromised
    BY DEF Inv, UsedIsReplaced
  <2>2. q # p BY <2>1
  <2> QED BY <2>1, <2>2 DEF Answered
<1> QED BY <1>1, <1>3, <1>4, <1>5 DEF Inv

-----------------------------------------------------------------------------
(* One lemma for each operation of getApiKey.                               *)

LEMMA InvGetApiKey ==
  ASSUME Inv, NEW p \in Process, GetApiKey(p)
  PROVE  Inv'
<1> DEFINE r == [procs[p] EXCEPT !.pc = "locking"]
<1>1. ~Exchanging(p) BY DEF GetApiKey, Exchanging
<1>2. ~procs[p].compromised BY <1>1 DEF Inv, HolderIsCurrent
<1>3. r \in ProcessType /\ r.pc = "locking" /\ ~r.compromised
  BY <1>2 DEF Inv, Typed, ProcessType
<1>4. Becomes(p, r) BY DEF GetApiKey
<1> HIDE DEF r
<1>5. /\ procs' \in [Process -> ProcessType]
      /\ \A q \in Process : procs'[q] = IF q = p THEN r ELSE procs[q]
  BY <1>3, <1>4, OneProcess, OneProcessTyped DEF Inv
<1> QED BY <1>1, <1>3, <1>5, IdleStep DEF Inv, Typed, GetApiKey, Answered, Exchanging

LEMMA InvAcquire ==
  ASSUME AuthAssumption, Inv, NEW p \in Process, Acquire(p)
  PROVE  Inv'
<1>1. ~Exchanging(p) /\ ~Answered(p) BY DEF Acquire, Exchanging, Answered
<1>2. ~procs[p].compromised BY <1>1 DEF Inv, HolderIsCurrent
<1> DEFINE read == [procs[p] EXCEPT !.data = file, !.loadError = FALSE]
<1>3. read \in ProcessType /\ ~read.compromised BY <1>2 DEF Inv, Typed, ProcessType
<1>4. CASE ~NeedsRefresh(file.token)
  <2> DEFINE r == [read EXCEPT !.pc = "idle"]
  <2>1. r \in ProcessType /\ r.pc = "idle" /\ ~r.compromised BY <1>3 DEF ProcessType
  <2>2. Becomes(p, r) /\ lock' = lock BY <1>4 DEF Acquire
  <2> HIDE DEF r
  <2>3. /\ procs' \in [Process -> ProcessType]
        /\ \A q \in Process : procs'[q] = IF q = p THEN r ELSE procs[q]
    BY <2>1, <2>2, OneProcess, OneProcessTyped DEF Inv
  <2> QED BY <1>1, <2>1, <2>2, <2>3, IdleStep DEF Inv, Typed, Acquire
<1>5. CASE NeedsRefresh(file.token)
  <2> DEFINE r == [read EXCEPT !.pc = "asking", !.read = file]
  <2>1. r \in ProcessType /\ r.pc = "asking" /\ r.read = file /\ ~r.compromised
    BY <1>3 DEF ProcessType, Inv, Typed
  <2>2. Becomes(p, r) /\ lock' = p /\ lock = Nobody BY <1>5 DEF Acquire
  <2> HIDE DEF r
  <2>3. /\ procs' \in [Process -> ProcessType]
        /\ \A q \in Process : procs'[q] = IF q = p THEN r ELSE procs[q]
    BY <2>1, <2>2, OneProcess, OneProcessTyped DEF Inv
  <2>4. UNCHANGED <<file, issued, used, lost, keys>> BY DEF Acquire
  <2>5. Typed' BY <2>2, <2>3, <2>4 DEF Inv, Typed
  <2>6. HolderIsCurrent'
    <3>1. \A q \in Process : q # p => ~Exchanging(q) \/ procs[q].compromised
      BY <2>2 DEF Inv, HolderIsCurrent, AuthAssumption
    <3> QED BY <2>1, <2>2, <2>3, <2>4, <3>1 DEF Inv, HolderIsCurrent, Exchanging
  <2>7. file.token \in 1..issued BY <1>5 DEF NeedsRefresh, Inv, Typed, Credentials
  <2>8. GivenIsFresh' BY <2>1, <2>3, <2>4, <2>7 DEF Inv, GivenIsFresh, Exchanging, Answered
  <2>9. UsedIsReplaced' BY <1>1, <2>3, <2>4 DEF Inv, UsedIsReplaced, Answered
  <2> QED BY <2>4, <2>5, <2>6, <2>8, <2>9 DEF Inv
<1> QED BY <1>4, <1>5

LEMMA InvGivesUpLocking ==
  ASSUME Inv, NEW p \in Process, GivesUpLocking(p)
  PROVE  Inv'
<1>1. procs[p].data \in Credentials BY DEF Inv, Typed, ProcessType
<1>2. RefreshFailed(p, procs[p].data) /\ ~Answered(p) BY DEF GivesUpLocking, Answered
<1> QED BY <1>1, <1>2, FailedIsIdle, IdleStep DEF Inv, Typed, GivesUpLocking

\* A lock released leaves the locks of others alone.
LEMMA ReleasedLock ==
  ASSUME Typed, NEW p \in Process
  PROVE  /\ Released(p) \in Process \cup {Nobody}
         /\ \A q \in Process : q # p /\ lock = q => Released(p) = q
BY DEF Released, Typed

LEMMA InvProviderAnswers ==
  ASSUME Inv, NEW p \in Process, ProviderAnswers(p)
  PROVE  Inv'
<1> DEFINE old == procs[p].read.token
           r == [procs[p] EXCEPT !.pc = "answered", !.given = issued + 1]
<1>1. Exchanging(p) /\ ~Answered(p) BY DEF ProviderAnswers, Exchanging, Answered
<1>2. old \in 1..issued BY <1>1 DEF Inv, GivenIsFresh
<1>3. CASE issued' = issued + 1 /\ used' = used \cup {old} /\ Becomes(p, r) /\ UNCHANGED lock
  <2>1. /\ r \in ProcessType /\ r.pc = "answered" /\ r.given = issued + 1
        /\ r.read = procs[p].read /\ r.compromised = procs[p].compromised
    <3>1. procs[p] \in ProcessType /\ issued + 1 \in Nat BY DEF Inv, Typed
    <3> QED BY <3>1 DEF ProcessType
  <2> HIDE DEF r
  <2>2. /\ procs' \in [Process -> ProcessType]
        /\ \A q \in Process : procs'[q] = IF q = p THEN r ELSE procs[q]
    BY <1>3, <2>1, OneProcess, OneProcessTyped DEF Inv
  <2>3. UNCHANGED <<file, lost, keys>> BY DEF ProviderAnswers
  <2>4. Typed'
    <3>1. file.token \in Nat /\ issued \in Nat BY DEF Inv, Typed, Credentials
    <3>2. file.token <= issued /\ used \subseteq 1..issued BY DEF Inv, Typed
    <3>3. issued' = issued + 1 /\ used' = used \cup {old} BY <1>3
    <3>4. issued' \in Nat /\ file.token <= issued' BY <3>1, <3>2, <3>3
    <3>5. ASSUME NEW t \in used' PROVE t \in 1..issued'
      <4>1. t \in 1..issued BY <1>2, <3>2, <3>3
      <4> QED BY <3>1, <3>3, <4>1
    <3> QED BY <1>3, <2>2, <2>3, <3>4, <3>5 DEF Inv, Typed
  <2>5. HolderIsCurrent'
    BY <1>1, <1>3, <2>1, <2>2, <2>3 DEF Inv, HolderIsCurrent, Exchanging
  <2>6. GivenIsFresh'
    <3>1. ASSUME NEW q \in Process, Exchanging(q)'
          PROVE  procs'[q].read.token \in 1..issued /\ Exchanging(q) /\ procs'[q].read = procs[q].read
      BY <1>1, <2>1, <2>2, <3>1 DEF Inv, GivenIsFresh, Exchanging
    <3>2. ASSUME NEW q \in Process, Answered(q)'
          PROVE  \/ q = p /\ procs'[q].given = issued + 1
                 \/ q # p /\ Answered(q) /\ procs'[q].given = procs[q].given
      BY <2>1, <2>2, <3>2 DEF Answered
    <3>3. file.token \in 0..issued /\ issued \in Nat /\ used \subseteq 1..issued
      BY DEF Inv, Typed, Credentials
    <3>4. \A q \in Process : Answered(q) =>
            procs[q].given \in 1..issued /\ procs[q].given # old
      BY <1>1 DEF Inv, GivenIsFresh
    <3>5. \A q \in Process : Exchanging(q)' => procs'[q].read.token \in 1..issued'
      BY <1>3, <3>1, <3>3
    <3>6. ASSUME NEW q \in Process, Answered(q)'
          PROVE  /\ procs'[q].given \in 1..issued' /\ procs'[q].given \notin used'
                 /\ procs'[q].given # file'.token
      BY <1>2, <1>3, <2>3, <3>2, <3>3, <3>4, <3>6 DEF Inv, GivenIsFresh
    <3>7. ASSUME NEW q \in Process, Answered(q)', NEW o \in Process, Exchanging(o)'
          PROVE  procs'[o].read.token # procs'[q].given
      BY <3>1, <3>2, <3>3, <3>7 DEF Inv, GivenIsFresh
    <3>8. ASSUME NEW q \in Process, Answered(q)', NEW o \in Process, Answered(o)', q # o
          PROVE  procs'[o].given # procs'[q].given
      BY <3>2, <3>3, <3>4, <3>8 DEF Inv, GivenIsFresh
    <3> QED BY <3>5, <3>6, <3>7, <3>8 DEF GivenIsFresh
  <2>7. UsedIsReplaced'
    <3> SUFFICES ASSUME file.token \in used' \ lost
                 PROVE  \E q \in Process : Answered(q)' /\ ~procs'[q].compromised
      BY <2>3 DEF UsedIsReplaced
    <3>1. CASE file.token = old
      <4>1. ~procs[p].compromised BY <3>1 DEF Inv, HolderIsCurrent
      <4> QED BY <2>1, <2>2, <4>1 DEF Answered
    <3>2. CASE file.token # old
      <4>1. PICK q \in Process : Answered(q) /\ ~procs[q].compromised
        BY <1>3, <3>2 DEF Inv, UsedIsReplaced
      <4> QED BY <1>1, <2>2, <4>1 DEF Answered
    <3> QED BY <3>1, <3>2
  <2> QED BY <2>3, <2>4, <2>5, <2>6, <2>7 DEF Inv
<1>4. CASE RefreshFailed(p, procs[p].data) /\ lock' = Released(p) /\ UNCHANGED <<issued, used>>
  <2>1. procs[p].data \in Credentials BY DEF Inv, Typed, ProcessType
  <2>2. UNCHANGED <<file, lost, keys>> BY DEF ProviderAnswers
  <2>3. Typed BY DEF Inv
  <2> QED BY <1>1, <1>4, <2>1, <2>2, <2>3, FailedIsIdle, IdleStep, ReleasedLock
<1> QED BY <1>3, <1>4 DEF ProviderAnswers

LEMMA InvRefreshed ==
  ASSUME AuthAssumption, Inv, NEW p \in Process, Refreshed(p)
  PROVE  Inv'
<1>1. Exchanging(p) /\ Answered(p) BY DEF Refreshed, Exchanging, Answered
<1>2. procs[p].read \in Credentials /\ procs[p].given \in Nat
  BY DEF Inv, Typed, ProcessType
<1>3. /\ Merged(p) \in Credentials
      /\ Merged(p).token = procs[p].given /\ Merged(p).key = procs[p].read.key
  BY <1>2 DEF Merged, Credentials
<1>4. UNCHANGED <<issued, used, lost, keys>> /\ lock' = Released(p) BY DEF Refreshed
<1>5. CASE procs[p].compromised
  <2>1. RefreshFailed(p, Merged(p)) /\ UNCHANGED file BY <1>5 DEF Refreshed
  <2>2. Typed BY DEF Inv
  <2>3. Released(p) \in Process \cup {Nobody}
    BY <2>2, ReleasedLock
  <2> QED BY <1>1, <1>3, <1>4, <1>5, <2>1, <2>2, <2>3, FailedIsIdle, IdleStep, ReleasedLock
<1>6. CASE ~procs[p].compromised
  <2> DEFINE r == NewProcess(Merged(p))
  <2>1. file' = Merged(p) /\ Becomes(p, r) BY <1>6 DEF Refreshed
  <2>2. r \in ProcessType /\ r.pc = "idle" /\ ~r.compromised
    BY <1>3, Records DEF Inv, NewProcess
  <2> HIDE DEF r
  <2>3. /\ procs' \in [Process -> ProcessType]
        /\ \A q \in Process : procs'[q] = IF q = p THEN r ELSE procs[q]
    BY <2>1, <2>2, OneProcess, OneProcessTyped DEF Inv
  <2>4. lock = p /\ procs[p].read = file BY <1>1, <1>6 DEF Inv, HolderIsCurrent
  <2>5. procs[p].given \in 1..issued /\ procs[p].given \notin used
    BY <1>1 DEF Inv, GivenIsFresh
  <2>6. Typed' BY <1>3, <1>4, <2>1, <2>3, <2>5 DEF Inv, Typed, Released
  <2>7. \A q \in Process : Exchanging(q)' => Exchanging(q) /\ q # p
    BY <2>2, <2>3 DEF Exchanging
  <2>8. \A q \in Process : Answered(q)' => Answered(q) /\ q # p
    BY <2>2, <2>3 DEF Answered
  <2>9. HolderIsCurrent'
    <3>1. \A q \in Process : q # p => ~Exchanging(q) \/ procs[q].compromised
      BY <2>4 DEF Inv, HolderIsCurrent
    <3> QED BY <1>4, <2>2, <2>3, <2>7, <3>1 DEF Inv, HolderIsCurrent, Exchanging
  <2>10. GivenIsFresh'
    <3>1. file'.token = procs[p].given BY <1>3, <2>1
    <3> QED BY <1>1, <1>4, <2>3, <2>7, <2>8, <3>1 DEF Inv, GivenIsFresh
  <2>11. UsedIsReplaced' BY <1>3, <1>4, <2>1, <2>5 DEF UsedIsReplaced
  <2>12. file'.key = keys' BY <1>3, <1>4, <2>1, <2>4 DEF Inv
  <2> QED BY <2>6, <2>9, <2>10, <2>11, <2>12 DEF Inv
<1> QED BY <1>5, <1>6

\* A lock that goes stale is noticed: the token that was to be exchanged is lost.
LEMMA InvLockGoesStale ==
  ASSUME AuthAssumption, Inv, NEW p \in Process, LockGoesStale(p), "unnoticed" \notin Failures
  PROVE  Inv'
<1> DEFINE r == [procs[p] EXCEPT !.compromised = TRUE]
<1>1. /\ r \in ProcessType /\ r.pc = procs[p].pc /\ r.read = procs[p].read
      /\ r.given = procs[p].given /\ r.compromised
  BY DEF Inv, Typed, ProcessType
<1>2. /\ Becomes(p, r) /\ lock' = Nobody /\ lost' = lost \cup {procs[p].read.token}
      /\ lock = p /\ Exchanging(p) /\ UNCHANGED <<file, issued, used, keys>>
  <2>1. ("unnoticed" \notin Failures) = TRUE OBVIOUS
  <2> QED BY <2>1 DEF LockGoesStale, Exchanging
<1> HIDE DEF r
<1>3. /\ procs' \in [Process -> ProcessType]
      /\ \A q \in Process : procs'[q] = IF q = p THEN r ELSE procs[q]
  BY <1>1, <1>2, OneProcess, OneProcessTyped DEF Inv
<1>4. Typed' BY <1>2, <1>3 DEF Inv, Typed
<1>5. \A q \in Process : /\ procs'[q].pc = procs[q].pc /\ procs'[q].read = procs[q].read
                         /\ procs'[q].given = procs[q].given
  BY <1>1, <1>3
<1>6. \A q \in Process : q # p => ~Exchanging(q) \/ procs[q].compromised
  BY <1>2 DEF Inv, HolderIsCurrent
<1>7. HolderIsCurrent' BY <1>1, <1>2, <1>3, <1>6 DEF Inv, HolderIsCurrent, Exchanging
<1>8. GivenIsFresh' BY <1>2, <1>5 DEF Inv, GivenIsFresh, Exchanging, Answered
<1>9. UsedIsReplaced'
  <2> SUFFICES ASSUME file.token \in used \ lost'
               PROVE  \E q \in Process : Answered(q)' /\ ~procs'[q].compromised
    BY <1>2 DEF UsedIsReplaced
  <2>1. PICK q \in Process : Answered(q) /\ ~procs[q].compromised
    BY <1>2 DEF Inv, UsedIsReplaced
  <2>2. Exchanging(q) /\ procs[q].read = file
    BY <2>1 DEF Answered, Exchanging, Inv, HolderIsCurrent
  <2>3. q # p BY <1>2, <2>2
  <2> QED BY <1>3, <2>1, <2>3 DEF Answered
<1> QED BY <1>2, <1>4, <1>7, <1>8, <1>9 DEF Inv

-----------------------------------------------------------------------------
(* Logins, keys and logouts: a change of one provider's credential, which   *)
(* reaches the file only when nobody holds the lock.                        *)

LEMMA ChangedCredentials ==
  ASSUME NEW data \in Credentials, NEW n \in Nat
  PROVE  /\ Changed(data, Change("token", n)) \in Credentials
         /\ Changed(data, Change("token", n)).token = n
         /\ Changed(data, Change("token", n)).key = data.key
         /\ Changed(data, Change("key", n)) \in Credentials
         /\ Changed(data, Change("key", n)).key = n
         /\ Changed(data, Change("key", n)).token = data.token
BY DEF Changed, Change, Credentials

\* In memory only the data of one process changes.
LEMMA OnlyData ==
  ASSUME Inv, NEW p \in Process, NEW change, SetData(p, change),
         Changed(procs[p].data, change) \in Credentials
  PROVE  /\ procs' \in [Process -> ProcessType]
         /\ \A q \in Process :
              /\ procs'[q].pc = procs[q].pc /\ procs'[q].read = procs[q].read
              /\ procs'[q].given = procs[q].given
              /\ procs'[q].compromised = procs[q].compromised
         /\ UNCHANGED <<lock, used, lost>>
         /\ file' = IF Persists(p) THEN Changed(file, change) ELSE file
<1> DEFINE data == Changed(procs[p].data, change)
           r == [procs[p] EXCEPT !.data = data]
<1> HIDE DEF data
<1>1. /\ r \in ProcessType /\ r.pc = procs[p].pc /\ r.read = procs[p].read
      /\ r.given = procs[p].given /\ r.compromised = procs[p].compromised
  <2>1. procs[p] \in ProcessType /\ data \in Credentials BY DEF Inv, Typed, data
  <2> QED BY <2>1 DEF ProcessType
<1>2. Becomes(p, r) BY DEF SetData, data
<1> HIDE DEF r
<1>3. /\ procs' \in [Process -> ProcessType]
      /\ \A q \in Process : procs'[q] = IF q = p THEN r ELSE procs[q]
  BY <1>1, <1>2, OneProcess, OneProcessTyped DEF Inv
<1>4. \A q \in Process :
        /\ procs'[q].pc = procs[q].pc /\ procs'[q].read = procs[q].read
        /\ procs'[q].given = procs[q].given
        /\ procs'[q].compromised = procs[q].compromised
  BY <1>1, <1>3
<1> QED BY <1>3, <1>4 DEF SetData, Persist

\* A change keeps the invariant if its token is in no exchange and not used.
LEMMA ChangeStep ==
  ASSUME AuthAssumption, Inv, NEW p \in Process, NEW change, SetData(p, change),
         Changed(procs[p].data, change) \in Credentials,
         Changed(file, change) \in Credentials,
         issued' \in Nat, issued <= issued', keys' \in Nat,
         Changed(file, change).token <= issued',
         \/ Changed(file, change).token = file.token
         \/ /\ Changed(file, change).token \notin used
            /\ \A q \in Process : Answered(q) => procs[q].given # Changed(file, change).token,
         Persists(p) => Changed(file, change).key = keys',
         ~Persists(p) => keys' = keys
  PROVE  Inv'
<1>1. /\ procs' \in [Process -> ProcessType]
      /\ \A q \in Process :
           /\ procs'[q].pc = procs[q].pc /\ procs'[q].read = procs[q].read
           /\ procs'[q].given = procs[q].given
           /\ procs'[q].compromised = procs[q].compromised
      /\ UNCHANGED <<lock, used, lost>>
      /\ file' = IF Persists(p) THEN Changed(file, change) ELSE file
  BY OnlyData
<1>2. \A q \in Process : Exchanging(q)' = Exchanging(q) /\ Answered(q)' = Answered(q)
  BY <1>1 DEF Exchanging, Answered
<1>3. Persists(p) => \A q \in Process : Exchanging(q) => procs[q].compromised
  BY DEF Persists, Inv, HolderIsCurrent, AuthAssumption
<1>4. Typed'
  <2>1. file.token \in Nat /\ issued \in Nat /\ file.token <= issued'
    BY DEF Inv, Typed, Credentials
  <2>2. used' \subseteq 1..issued' BY <1>1, <2>1 DEF Inv, Typed
  <2>3. file' \in Credentials /\ file'.token <= issued' BY <1>1, <2>1 DEF Inv, Typed
  <2> QED BY <1>1, <2>2, <2>3 DEF Inv, Typed
<1>5. HolderIsCurrent'
  <2>1. ASSUME NEW q \in Process, Exchanging(q), ~procs[q].compromised
        PROVE  lock' = q /\ procs'[q].read = file'
    BY <1>1, <1>3, <2>1 DEF Inv, HolderIsCurrent
  <2> QED BY <1>1, <1>2, <2>1 DEF Inv, HolderIsCurrent
<1>6. GivenIsFresh'
  <2>1. ASSUME NEW n \in 1..issued PROVE n \in 1..issued'
    BY DEF Inv, Typed
  <2>2. \A q \in Process : Answered(q) => procs[q].given # file'.token
    BY <1>1 DEF Inv, GivenIsFresh
  <2> QED BY <1>1, <1>2, <2>1, <2>2 DEF Inv, GivenIsFresh
<1>7. UsedIsReplaced'
  <2> SUFFICES ASSUME file'.token \in used \ lost
               PROVE  \E q \in Process : Answered(q)' /\ ~procs'[q].compromised
    BY <1>1 DEF UsedIsReplaced
  <2>1. file.token \in used \ lost BY <1>1
  <2>2. PICK q \in Process : Answered(q) /\ ~procs[q].compromised
    BY <2>1 DEF Inv, UsedIsReplaced
  <2> QED BY <1>1, <1>2, <2>2
<1>8. file'.key = keys' BY <1>1 DEF Inv
<1> QED BY <1>4, <1>5, <1>6, <1>7, <1>8 DEF Inv

LEMMA InvChanges ==
  ASSUME AuthAssumption, Inv, NEW p \in Process, Login(p) \/ SetKey(p) \/ Logout(p)
  PROVE  Inv'
<1>1. /\ file \in Credentials /\ file.token \in Nat /\ file.token <= issued /\ issued \in Nat
      /\ keys \in Nat /\ file.key = keys /\ used \subseteq 1..issued
      /\ procs[p].data \in Credentials
  BY DEF Inv, Typed, ProcessType, Credentials
<1>2. \A q \in Process : Answered(q) => procs[q].given \in 1..issued
  BY DEF Inv, GivenIsFresh
<1>3. CASE Login(p)
  <2>1. /\ SetData(p, Change("token", issued + 1)) /\ issued' = issued + 1 /\ keys' = keys
    BY <1>3 DEF Login
  <2>2. issued + 1 \in Nat /\ issued + 1 \notin used BY <1>1
  <2>3. \A q \in Process : Answered(q) => procs[q].given # issued + 1 BY <1>1, <1>2
  <2> DEFINE c == Change("token", issued + 1)
  <2>4. /\ Changed(file, c) \in Credentials /\ Changed(procs[p].data, c) \in Credentials
        /\ Changed(file, c).token = issued + 1 /\ Changed(file, c).key = file.key
    BY <1>1, <2>2, ChangedCredentials
  <2>5. SetData(p, c) BY <2>1
  <2> HIDE DEF c
  <2>6. issued' \in Nat /\ issued <= issued' /\ issued + 1 <= issued' BY <1>1, <2>1
  <2> QED BY <1>1, <2>1, <2>2, <2>3, <2>4, <2>5, <2>6, ChangeStep
<1>4. CASE SetKey(p)
  <2>1. PICK key \in 1..MaxKeys :
          /\ SetData(p, Change("key", key))
          /\ keys' = IF Persists(p) THEN key ELSE keys
    BY <1>4 DEF SetKey
  <2>2. key \in Nat BY DEF AuthAssumption
  <2>3. issued' = issued BY <1>4 DEF SetKey
  <2> DEFINE c == Change("key", key)
  <2>4. /\ Changed(file, c) \in Credentials /\ Changed(procs[p].data, c) \in Credentials
        /\ Changed(file, c).token = file.token /\ Changed(file, c).key = key
    BY <1>1, <2>2, ChangedCredentials
  <2>5. SetData(p, c) BY <2>1
  <2> HIDE DEF c
  <2>6. issued' \in Nat /\ issued <= issued' /\ file.token <= issued' /\ keys' \in Nat
    BY <1>1, <2>1, <2>2, <2>3
  <2> QED BY <1>1, <2>1, <2>4, <2>5, <2>6, ChangeStep
<1>5. CASE Logout(p)
  <2>1. SetData(p, Change("token", 0)) /\ issued' = issued /\ keys' = keys
    BY <1>5 DEF Logout
  <2>2. 0 \notin used /\ \A q \in Process : Answered(q) => procs[q].given # 0
    BY <1>1, <1>2
  <2> DEFINE c == Change("token", 0)
  <2>3. /\ Changed(file, c) \in Credentials /\ Changed(procs[p].data, c) \in Credentials
        /\ Changed(file, c).token = 0 /\ Changed(file, c).key = file.key
    BY <1>1, ChangedCredentials, ZenonT(30)
  <2>4. SetData(p, c) BY <2>1
  <2> HIDE DEF c
  <2> QED BY <1>1, <2>1, <2>2, <2>3, <2>4, ChangeStep
<1> QED BY <1>3, <1>4, <1>5

-----------------------------------------------------------------------------
LEMMA InvReload ==
  ASSUME Inv, NEW p \in Process, Reload(p)
  PROVE  Inv'
<1> DEFINE r == Reloaded(procs[p], lock # Nobody)
<1>1. ~Exchanging(p) /\ ~Answered(p) BY DEF Reload, Exchanging, Answered
<1>2. ~procs[p].compromised /\ procs[p] \in ProcessType
  BY <1>1 DEF Inv, HolderIsCurrent, Typed
<1>3. r \in ProcessType /\ r.pc = "idle" /\ ~r.compromised
  BY <1>2, Records DEF Inv, Reload
<1>4. Becomes(p, r) BY DEF Reload
<1> HIDE DEF r
<1>5. /\ procs' \in [Process -> ProcessType]
      /\ \A q \in Process : procs'[q] = IF q = p THEN r ELSE procs[q]
  BY <1>3, <1>4, OneProcess, OneProcessTyped DEF Inv
<1> QED BY <1>1, <1>3, <1>5, IdleStep DEF Inv, Typed, Reload

LEMMA InvCrash ==
  ASSUME Inv, NEW p \in Process, Crash(p)
  PROVE  Inv'
<1> DEFINE r == NewProcess(file)
<1>1. r \in ProcessType /\ r.pc = "idle" /\ ~r.compromised
  BY Records DEF Inv, Typed, NewProcess
<1>2. Becomes(p, r) BY DEF Crash
<1> HIDE DEF r
<1>3. /\ procs' \in [Process -> ProcessType]
      /\ \A q \in Process : procs'[q] = IF q = p THEN r ELSE procs[q]
  BY <1>1, <1>2, OneProcess, OneProcessTyped DEF Inv
<1>4. UNCHANGED <<file, issued, used, keys>> /\ lock' = Released(p) /\ lost \subseteq lost'
  BY DEF Crash
<1>5. Answered(p) /\ ~procs[p].compromised => file.token \in lost'
  BY DEF Answered, Exchanging, Inv, HolderIsCurrent, Crash
<1>6. Typed BY DEF Inv
<1> QED BY <1>1, <1>3, <1>4, <1>5, <1>6, IdleStep, ReleasedLock

LEMMA InvInit == AuthAssumption /\ Init => Inv
<1> SUFFICES ASSUME AuthAssumption, Init PROVE Inv
  OBVIOUS
<1>1. file \in Credentials /\ file.token = 1 /\ file.key = 0 /\ issued = 1 /\ used = {}
      /\ keys = 0 /\ lock = Nobody
  BY DEF Init, Credentials
<1>2. /\ NewProcess(file) \in ProcessType /\ NewProcess(file).pc = "idle"
      /\ ~NewProcess(file).compromised
  BY <1>1 DEF NewProcess, ProcessType, NoData, Credentials
<1>3. \A p \in Process : procs[p] = NewProcess(file) BY DEF Init
<1>4. Typed BY <1>1, <1>2 DEF Init, Typed
<1> QED
  BY <1>1, <1>2, <1>3, <1>4
  DEF Inv, HolderIsCurrent, GivenIsFresh, UsedIsReplaced, Exchanging, Answered

LEMMA InvNext ==
  ASSUME AuthAssumption, "unnoticed" \notin Failures, Inv, [Next]_vars
  PROVE  Inv'
<1>1. CASE Expire
  <2>1. UNCHANGED <<file, lock, issued, used, lost, keys, procs>> BY <1>1 DEF Expire
  <2> QED
    BY <2>1
    DEF Inv, Typed, HolderIsCurrent, GivenIsFresh, UsedIsReplaced, Exchanging, Answered
<1>2. CASE UNCHANGED vars
  BY <1>2 DEF vars, Inv, Typed, HolderIsCurrent, GivenIsFresh, UsedIsReplaced, Exchanging, Answered
<1>3. ASSUME NEW p \in Process,
             \/ GetApiKey(p) \/ Acquire(p) \/ GivesUpLocking(p) \/ ProviderAnswers(p)
             \/ Refreshed(p) \/ LockGoesStale(p)
             \/ Login(p) \/ SetKey(p) \/ Logout(p) \/ Reload(p) \/ Crash(p)
      PROVE  Inv'
  BY <1>3, InvGetApiKey, InvAcquire, InvGivesUpLocking, InvProviderAnswers, InvRefreshed,
     InvLockGoesStale, InvChanges, InvReload, InvCrash
<1> QED BY <1>1, <1>2, <1>3 DEF Next

\* The invariant says what the property says.
LEMMA InvSurvive == Inv => CredentialsSurvive
<1> SUFFICES ASSUME Inv, file.token \in used \ lost
             PROVE  \E p \in Process : lock = p /\ procs[p].pc = "answered" /\ procs[p].read = file
  BY DEF CredentialsSurvive, Inv
<1>1. PICK p \in Process : Answered(p) /\ ~procs[p].compromised
  BY DEF Inv, UsedIsReplaced
<1> QED BY <1>1 DEF Inv, HolderIsCurrent, Exchanging, Answered

\* A refreshed token is never lost to another process that refreshes, logs in,
\* logs out or stores a key (refreshOAuthTokenWithLock, persistProviderChange of
\* auth-storage.ts), for any number of processes and tokens, if a process that
\* loses its lock is told before its answer comes (onCompromised).
THEOREM CredentialsTheorem ==
  ASSUME AuthAssumption, "unnoticed" \notin Failures
  PROVE  Spec => []CredentialsSurvive
<1>1. Init => Inv BY InvInit
<1>2. Inv /\ [Next]_vars => Inv' BY InvNext
<1>3. Inv => CredentialsSurvive BY InvSurvive
<1> QED BY <1>1, <1>2, <1>3, PTL DEF Spec

-----------------------------------------------------------------------------
\* One part is at work, from first to last.
LEMMA PartStays == ASSUME [ServicesNext]_servicesVars PROVE part' = part
  BY DEF ServicesNext, SocketMoves, AuthMoves, SettingsMove, TuiMoves, KeysMove,
      GatewayMoves, PathMoves, MomMoves, PlanMoves, OthersRest, CoreRests,
      servicesVars

\* Processes keep their credentials beside the other parts too: the whole does with
\* them what AuthStorage may do.
LEMMA ServicesAuth == [ServicesNext]_servicesVars => [Next]_vars
  BY DEF ServicesNext, SocketMoves, AuthMoves, SettingsMove, TuiMoves, KeysMove,
      GatewayMoves, PathMoves, MomMoves, PlanMoves, OthersRest, CoreRests,
      servicesVars

\* A token is never lost to another process (the same, in the whole).
THEOREM ServicesKeepCredentials ==
  ASSUME "unnoticed" \notin Failures PROVE ServicesSpec => []CredentialsSurvive
<1>1. ServicesInit => Init
  BY DEF ServicesInit
<1>2. Init => Inv
  BY Assumptions, InvInit
<1>3. Inv /\ [Next]_vars => Inv'
  BY Assumptions, InvNext
<1> QED
  BY <1>1, <1>2, <1>3, ServicesAuth, InvSurvive, PTL DEF ServicesSpec

-----------------------------------------------------------------------------
\* The module with the proofs about sockets and gateway, for a socket of two clients
\* of which one may only read; what it says of requests is not used.
LinkProofs == INSTANCE ConnectionProofs WITH
  Client <- {c1, c2}, ReadOnly <- {c2}, MaxClients <- 2, MaxLines <- MaxInputs,
  MaxSessions <- 1, MaxChunks <- 3, MaxBufferLines <- 2,
  Stream <- {}, MaxSockets <- 0, at <- Unused, socket <- Unused, mode <- Unused,
  starts <- Unused, got <- Unused, open <- Unused, owed <- Unused,
  websocketSessionCache <- Unused, busy <- Unused, timer <- Unused,
  Providers <- {}, Endpoints <- 0, MaxRetries <- 0, provider <- Unused,
  attempt <- Unused, endpointIndex <- Unused, place <- Unused, result <- Unused,
  replies <- Unused
\* The same for a socket that takes one client.
NarrowProofs == INSTANCE ConnectionProofs WITH
  Client <- {c1, c2}, ReadOnly <- {}, MaxClients <- 1, MaxLines <- MaxInputs,
  MaxSessions <- 1, MaxChunks <- 3, MaxBufferLines <- 2,
  Stream <- {}, MaxSockets <- 0, at <- Unused, socket <- Unused, mode <- Unused,
  starts <- Unused, got <- Unused, open <- Unused, owed <- Unused,
  websocketSessionCache <- Unused, busy <- Unused, timer <- Unused,
  Providers <- {}, Endpoints <- 0, MaxRetries <- 0, provider <- Unused,
  attempt <- Unused, endpointIndex <- Unused, place <- Unused, result <- Unused,
  replies <- Unused

\* The instances that are checked are those that are proved about.
LEMMA SocketSame ==
  /\ Socket!Init <=> LinkProofs!Server!Init
  /\ Socket!Next <=> LinkProofs!Server!Next
  /\ Socket!vars = LinkProofs!Server!vars
  /\ Socket!ClientsAgree <=> LinkProofs!Server!ClientsAgree
<1>1. Socket!Init <=> LinkProofs!Server!Init
  BY DEF Socket!Init, LinkProofs!Server!Init
<1>2. Socket!vars = LinkProofs!Server!vars
  BY DEF Socket!vars, LinkProofs!Server!vars
<1>3. ASSUME NEW c PROVE Socket!Connect(c) <=> LinkProofs!Server!Connect(c)
  BY DEF Socket!Connect, LinkProofs!Server!Connect, Socket!NewConn,
      LinkProofs!Server!NewConn, Socket!Ids, LinkProofs!Server!Ids, Socket!None,
      LinkProofs!Server!None
<1>4. ASSUME NEW k PROVE Socket!SendInput(k) <=> LinkProofs!Server!SendInput(k)
  BY DEF Socket!SendInput, LinkProofs!Server!SendInput
<1>5. ASSUME NEW k PROVE Socket!ClientDisconnects(k) <=> LinkProofs!Server!ClientDisconnects(k)
  BY DEF Socket!ClientDisconnects, LinkProofs!Server!ClientDisconnects
<1>6. ASSUME NEW k PROVE Socket!Breaks(k) <=> LinkProofs!Server!Breaks(k)
  BY DEF Socket!Breaks, LinkProofs!Server!Breaks
<1>7. ASSUME NEW k PROVE Socket!ClientEnds(k) <=> LinkProofs!Server!ClientEnds(k)
  BY DEF Socket!ClientEnds, LinkProofs!Server!ClientEnds, Socket!Last,
      LinkProofs!Server!Last, Socket!Event, LinkProofs!Server!Event, Socket!None,
      LinkProofs!Server!None
<1>8. ASSUME NEW k PROVE Socket!ReadAttach(k) <=> LinkProofs!Server!ReadAttach(k)
  BY DEF Socket!ReadAttach, LinkProofs!Server!ReadAttach, Socket!Reads,
      LinkProofs!Server!Reads, Socket!Taken, LinkProofs!Server!Taken, Socket!Ended,
      LinkProofs!Server!Ended, Socket!Broadcast, LinkProofs!Server!Broadcast,
      Socket!Event, LinkProofs!Server!Event, Socket!Registered,
      LinkProofs!Server!Registered, Socket!Cardinality,
      LinkProofs!Server!Cardinality, Socket!None, LinkProofs!Server!None
<1>9. ASSUME NEW k PROVE Socket!ReadInput(k) <=> LinkProofs!Server!ReadInput(k)
  BY DEF Socket!ReadInput, LinkProofs!Server!ReadInput, Socket!Reads,
      LinkProofs!Server!Reads, Socket!Taken, LinkProofs!Server!Taken,
      Socket!Broadcast, LinkProofs!Server!Broadcast, Socket!Event,
      LinkProofs!Server!Event, Socket!Ids, LinkProofs!Server!Ids
<1>10. ASSUME NEW k PROVE Socket!ReadDetach(k) <=> LinkProofs!Server!ReadDetach(k)
  BY DEF Socket!ReadDetach, LinkProofs!Server!ReadDetach, Socket!Reads,
      LinkProofs!Server!Reads, Socket!Taken, LinkProofs!Server!Taken, Socket!Ended,
      LinkProofs!Server!Ended, Socket!Event, LinkProofs!Server!Event,
      Socket!Disconnect, LinkProofs!Server!Disconnect, Socket!Leave,
      LinkProofs!Server!Leave, Socket!Broadcast, LinkProofs!Server!Broadcast,
      Socket!None, LinkProofs!Server!None
<1>11. ASSUME NEW k PROVE Socket!SocketCloses(k) <=> LinkProofs!Server!SocketCloses(k)
  BY DEF Socket!SocketCloses, LinkProofs!Server!SocketCloses, Socket!Reads,
      LinkProofs!Server!Reads, Socket!Taken, LinkProofs!Server!Taken, Socket!Event,
      LinkProofs!Server!Event, Socket!Disconnect, LinkProofs!Server!Disconnect,
      Socket!Leave, LinkProofs!Server!Leave, Socket!Broadcast,
      LinkProofs!Server!Broadcast, Socket!None, LinkProofs!Server!None
<1>12. Socket!Output <=> LinkProofs!Server!Output
  BY DEF Socket!Output, LinkProofs!Server!Output, Socket!Broadcast,
      LinkProofs!Server!Broadcast, Socket!Event, LinkProofs!Server!Event,
      Socket!None, LinkProofs!Server!None
<1>13. Socket!Next <=> LinkProofs!Server!Next
  BY <1>3, <1>4, <1>5, <1>6, <1>7, <1>8, <1>9, <1>10, <1>11, <1>12
  DEF Socket!Next, LinkProofs!Server!Next, Socket!Ids, LinkProofs!Server!Ids
<1>14. Socket!ClientsAgree <=> LinkProofs!Server!ClientsAgree
  BY DEF Socket!ClientsAgree, LinkProofs!Server!ClientsAgree, Socket!Ids,
      LinkProofs!Server!Ids, Socket!None, LinkProofs!Server!None, Socket!Registered,
      LinkProofs!Server!Registered, Socket!GotInOrder, LinkProofs!Server!GotInOrder,
      Socket!Due, LinkProofs!Server!Due, Socket!Cardinality,
      LinkProofs!Server!Cardinality
<1> QED
  BY <1>1, <1>2, <1>3, <1>4, <1>5, <1>6, <1>7, <1>8, <1>9, <1>10, <1>11, <1>12,
     <1>13, <1>14

LEMMA NarrowSame ==
  /\ Narrow!Init <=> NarrowProofs!Server!Init
  /\ Narrow!Next <=> NarrowProofs!Server!Next
  /\ Narrow!vars = NarrowProofs!Server!vars
  /\ Narrow!ClientsAgree <=> NarrowProofs!Server!ClientsAgree
<1>1. Narrow!Init <=> NarrowProofs!Server!Init
  BY DEF Narrow!Init, NarrowProofs!Server!Init
<1>2. Narrow!vars = NarrowProofs!Server!vars
  BY DEF Narrow!vars, NarrowProofs!Server!vars
<1>3. ASSUME NEW c PROVE Narrow!Connect(c) <=> NarrowProofs!Server!Connect(c)
  BY DEF Narrow!Connect, NarrowProofs!Server!Connect, Narrow!NewConn,
      NarrowProofs!Server!NewConn, Narrow!Ids, NarrowProofs!Server!Ids, Narrow!None,
      NarrowProofs!Server!None
<1>4. ASSUME NEW k PROVE Narrow!SendInput(k) <=> NarrowProofs!Server!SendInput(k)
  BY DEF Narrow!SendInput, NarrowProofs!Server!SendInput
<1>5. ASSUME NEW k PROVE Narrow!ClientDisconnects(k) <=> NarrowProofs!Server!ClientDisconnects(k)
  BY DEF Narrow!ClientDisconnects, NarrowProofs!Server!ClientDisconnects
<1>6. ASSUME NEW k PROVE Narrow!Breaks(k) <=> NarrowProofs!Server!Breaks(k)
  BY DEF Narrow!Breaks, NarrowProofs!Server!Breaks
<1>7. ASSUME NEW k PROVE Narrow!ClientEnds(k) <=> NarrowProofs!Server!ClientEnds(k)
  BY DEF Narrow!ClientEnds, NarrowProofs!Server!ClientEnds, Narrow!Last,
      NarrowProofs!Server!Last, Narrow!Event, NarrowProofs!Server!Event,
      Narrow!None, NarrowProofs!Server!None
<1>8. ASSUME NEW k PROVE Narrow!ReadAttach(k) <=> NarrowProofs!Server!ReadAttach(k)
  BY DEF Narrow!ReadAttach, NarrowProofs!Server!ReadAttach, Narrow!Reads,
      NarrowProofs!Server!Reads, Narrow!Taken, NarrowProofs!Server!Taken,
      Narrow!Ended, NarrowProofs!Server!Ended, Narrow!Broadcast,
      NarrowProofs!Server!Broadcast, Narrow!Event, NarrowProofs!Server!Event,
      Narrow!Registered, NarrowProofs!Server!Registered, Narrow!Cardinality,
      NarrowProofs!Server!Cardinality, Narrow!None, NarrowProofs!Server!None
<1>9. ASSUME NEW k PROVE Narrow!ReadInput(k) <=> NarrowProofs!Server!ReadInput(k)
  BY DEF Narrow!ReadInput, NarrowProofs!Server!ReadInput, Narrow!Reads,
      NarrowProofs!Server!Reads, Narrow!Taken, NarrowProofs!Server!Taken,
      Narrow!Broadcast, NarrowProofs!Server!Broadcast, Narrow!Event,
      NarrowProofs!Server!Event, Narrow!Ids, NarrowProofs!Server!Ids
<1>10. ASSUME NEW k PROVE Narrow!ReadDetach(k) <=> NarrowProofs!Server!ReadDetach(k)
  BY DEF Narrow!ReadDetach, NarrowProofs!Server!ReadDetach, Narrow!Reads,
      NarrowProofs!Server!Reads, Narrow!Taken, NarrowProofs!Server!Taken,
      Narrow!Ended, NarrowProofs!Server!Ended, Narrow!Event,
      NarrowProofs!Server!Event, Narrow!Disconnect, NarrowProofs!Server!Disconnect,
      Narrow!Leave, NarrowProofs!Server!Leave, Narrow!Broadcast,
      NarrowProofs!Server!Broadcast, Narrow!None, NarrowProofs!Server!None
<1>11. ASSUME NEW k PROVE Narrow!SocketCloses(k) <=> NarrowProofs!Server!SocketCloses(k)
  BY DEF Narrow!SocketCloses, NarrowProofs!Server!SocketCloses, Narrow!Reads,
      NarrowProofs!Server!Reads, Narrow!Taken, NarrowProofs!Server!Taken,
      Narrow!Event, NarrowProofs!Server!Event, Narrow!Disconnect,
      NarrowProofs!Server!Disconnect, Narrow!Leave, NarrowProofs!Server!Leave,
      Narrow!Broadcast, NarrowProofs!Server!Broadcast, Narrow!None,
      NarrowProofs!Server!None
<1>12. Narrow!Output <=> NarrowProofs!Server!Output
  BY DEF Narrow!Output, NarrowProofs!Server!Output, Narrow!Broadcast,
      NarrowProofs!Server!Broadcast, Narrow!Event, NarrowProofs!Server!Event,
      Narrow!None, NarrowProofs!Server!None
<1>13. Narrow!Next <=> NarrowProofs!Server!Next
  BY <1>3, <1>4, <1>5, <1>6, <1>7, <1>8, <1>9, <1>10, <1>11, <1>12
  DEF Narrow!Next, NarrowProofs!Server!Next, Narrow!Ids, NarrowProofs!Server!Ids
<1>14. Narrow!ClientsAgree <=> NarrowProofs!Server!ClientsAgree
  BY DEF Narrow!ClientsAgree, NarrowProofs!Server!ClientsAgree, Narrow!Ids,
      NarrowProofs!Server!Ids, Narrow!None, NarrowProofs!Server!None,
      Narrow!Registered, NarrowProofs!Server!Registered, Narrow!GotInOrder,
      NarrowProofs!Server!GotInOrder, Narrow!Due, NarrowProofs!Server!Due,
      Narrow!Cardinality, NarrowProofs!Server!Cardinality
<1> QED
  BY <1>1, <1>2, <1>3, <1>4, <1>5, <1>6, <1>7, <1>8, <1>9, <1>10, <1>11, <1>12,
     <1>13, <1>14

LEMMA GatewaySame ==
  /\ Gateway!Init <=> LinkProofs!Gateway!Init
  /\ Gateway!Next <=> LinkProofs!Gateway!Next
  /\ Gateway!vars = LinkProofs!Gateway!vars
  /\ Gateway!ViewersFollowSessions <=> LinkProofs!Gateway!ViewersFollowSessions
<1>1. Gateway!Init <=> LinkProofs!Gateway!Init
  BY DEF Gateway!Init, LinkProofs!Gateway!Init
<1>2. Gateway!vars = LinkProofs!Gateway!vars
  BY DEF Gateway!vars, LinkProofs!Gateway!vars
<1>3. Gateway!Create <=> LinkProofs!Gateway!Create
  BY DEF Gateway!Create, LinkProofs!Gateway!Create, Gateway!NewSession,
      LinkProofs!Gateway!NewSession
<1>4. Gateway!DestroyAll <=> LinkProofs!Gateway!DestroyAll
  BY DEF Gateway!DestroyAll, LinkProofs!Gateway!DestroyAll, Gateway!Destroyed,
      LinkProofs!Gateway!Destroyed, Gateway!MayDestroy,
      LinkProofs!Gateway!MayDestroy, Gateway!Sessions, LinkProofs!Gateway!Sessions
<1>5. ASSUME NEW s PROVE Gateway!OpenSocket(s) <=> LinkProofs!Gateway!OpenSocket(s)
  BY DEF Gateway!OpenSocket, LinkProofs!Gateway!OpenSocket, Gateway!NewViewer,
      LinkProofs!Gateway!NewViewer, Gateway!Watch, LinkProofs!Gateway!Watch,
      Gateway!Replay, LinkProofs!Gateway!Replay
<1>6. ASSUME NEW s PROVE Gateway!OpenStream(s) <=> LinkProofs!Gateway!OpenStream(s)
  BY DEF Gateway!OpenStream, LinkProofs!Gateway!OpenStream, Gateway!NewViewer,
      LinkProofs!Gateway!NewViewer, Gateway!Watch, LinkProofs!Gateway!Watch,
      Gateway!Replay, LinkProofs!Gateway!Replay
<1>7. ASSUME NEW s PROVE Gateway!Destroy(s) <=> LinkProofs!Gateway!Destroy(s)
  BY DEF Gateway!Destroy, LinkProofs!Gateway!Destroy, Gateway!Destroyed,
      LinkProofs!Gateway!Destroyed, Gateway!MayDestroy,
      LinkProofs!Gateway!MayDestroy
<1>8. ASSUME NEW s PROVE Gateway!InputArrives(s) <=> LinkProofs!Gateway!InputArrives(s)
  BY DEF Gateway!InputArrives, LinkProofs!Gateway!InputArrives
<1>9. ASSUME NEW s PROVE Gateway!InputRefused(s) <=> LinkProofs!Gateway!InputRefused(s)
  BY DEF Gateway!InputRefused, LinkProofs!Gateway!InputRefused
<1>10. ASSUME NEW s PROVE Gateway!Writes(s) <=> LinkProofs!Gateway!Writes(s)
  BY DEF Gateway!Writes, LinkProofs!Gateway!Writes
<1>11. ASSUME NEW s PROVE Gateway!Ends(s) <=> LinkProofs!Gateway!Ends(s)
  BY DEF Gateway!Ends, LinkProofs!Gateway!Ends
<1>12. ASSUME NEW s PROVE Gateway!PumpFails(s) <=> LinkProofs!Gateway!PumpFails(s)
  BY DEF Gateway!PumpFails, LinkProofs!Gateway!PumpFails
<1>13. ASSUME NEW s PROVE Gateway!InputBody(s) <=> LinkProofs!Gateway!InputBody(s)
  BY DEF Gateway!InputBody, LinkProofs!Gateway!InputBody, Gateway!Notified,
      LinkProofs!Gateway!Notified, Gateway!Watch, LinkProofs!Gateway!Watch,
      Gateway!Replay, LinkProofs!Gateway!Replay, Gateway!Viewers,
      LinkProofs!Gateway!Viewers
<1>14. ASSUME NEW s PROVE Gateway!Pump(s) <=> LinkProofs!Gateway!Pump(s)
  BY DEF Gateway!Pump, LinkProofs!Gateway!Pump, Gateway!Pumping,
      LinkProofs!Gateway!Pumping, Gateway!Buffered, LinkProofs!Gateway!Buffered,
      Gateway!Viewers, LinkProofs!Gateway!Viewers
<1>15. ASSUME NEW s PROVE Gateway!Exited(s) <=> LinkProofs!Gateway!Exited(s)
  BY DEF Gateway!Exited, LinkProofs!Gateway!Exited, Gateway!Viewers,
      LinkProofs!Gateway!Viewers
<1>16. ASSUME NEW v PROVE Gateway!MessageTooLarge(v) <=> LinkProofs!Gateway!MessageTooLarge(v)
  BY DEF Gateway!MessageTooLarge, LinkProofs!Gateway!MessageTooLarge
<1>17. ASSUME NEW v PROVE Gateway!Close(v) <=> LinkProofs!Gateway!Close(v)
  BY DEF Gateway!Close, LinkProofs!Gateway!Close
<1>18. Gateway!Next <=> LinkProofs!Gateway!Next
  BY <1>3, <1>4, <1>5, <1>6, <1>7, <1>8, <1>9, <1>10, <1>11, <1>12, <1>13, <1>14,
     <1>15, <1>16, <1>17
  DEF Gateway!Next, LinkProofs!Gateway!Next, Gateway!Sessions,
      LinkProofs!Gateway!Sessions, Gateway!Viewers, LinkProofs!Gateway!Viewers
<1>19. Gateway!ViewersFollowSessions <=> LinkProofs!Gateway!ViewersFollowSessions
  BY DEF Gateway!ViewersFollowSessions, LinkProofs!Gateway!ViewersFollowSessions,
      Gateway!Viewers, LinkProofs!Gateway!Viewers, Gateway!Sessions,
      LinkProofs!Gateway!Sessions, Gateway!IsRun, LinkProofs!Gateway!IsRun,
      Gateway!UpToDate, LinkProofs!Gateway!UpToDate, Gateway!Last,
      LinkProofs!Gateway!Last
<1> QED
  BY <1>1, <1>2, <1>3, <1>4, <1>5, <1>6, <1>7, <1>8, <1>9, <1>10, <1>11, <1>12,
     <1>13, <1>14, <1>15, <1>16, <1>17, <1>18, <1>19

\* A step of the whole is a step of the part at work.
LEMMA SocketStep ==
  ASSUME [ServicesNext]_servicesVars, part = "socket"
  PROVE  [LinkProofs!Server!Next]_(LinkProofs!Server!vars)
<1>1. CASE UNCHANGED servicesVars
  BY <1>1 DEF servicesVars, socketVars, LinkProofs!Server!vars
<1>2. CASE ServicesNext
  BY <1>2, SocketSame
  DEF ServicesNext, SocketMoves, AuthMoves, SettingsMove, TuiMoves, KeysMove,
      GatewayMoves, PathMoves, MomMoves, PlanMoves, OthersRest, CoreRests
<1> QED
  BY <1>1, <1>2

LEMMA NarrowStep ==
  ASSUME [ServicesNext]_servicesVars, part = "narrow"
  PROVE  [NarrowProofs!Server!Next]_(NarrowProofs!Server!vars)
<1>1. CASE UNCHANGED servicesVars
  BY <1>1 DEF servicesVars, socketVars, NarrowProofs!Server!vars
<1>2. CASE ServicesNext
  BY <1>2, NarrowSame
  DEF ServicesNext, SocketMoves, AuthMoves, SettingsMove, TuiMoves, KeysMove,
      GatewayMoves, PathMoves, MomMoves, PlanMoves, OthersRest, CoreRests
<1> QED
  BY <1>1, <1>2

LEMMA GatewayStep ==
  ASSUME [ServicesNext]_servicesVars, part = "gateway"
  PROVE  [LinkProofs!Gateway!Next]_(LinkProofs!Gateway!vars)
<1>1. CASE UNCHANGED servicesVars
  BY <1>1 DEF servicesVars, gatewayVars, LinkProofs!Gateway!vars
<1>2. CASE ServicesNext
  BY <1>2, GatewaySame
  DEF ServicesNext, SocketMoves, AuthMoves, SettingsMove, TuiMoves, KeysMove,
      GatewayMoves, PathMoves, MomMoves, PlanMoves, OthersRest, CoreRests
<1> QED
  BY <1>1, <1>2

LEMMA ServersAssumed ==
  /\ LinkProofs!Server!SocketAssumption /\ NarrowProofs!Server!SocketAssumption
  /\ LinkProofs!Gateway!GatewayAssumption
  BY Assumptions
  DEF Socket!SocketAssumption, LinkProofs!Server!SocketAssumption,
      Narrow!SocketAssumption, NarrowProofs!Server!SocketAssumption,
      Gateway!GatewayAssumption, LinkProofs!Gateway!GatewayAssumption, Socket!None,
      LinkProofs!Server!None, Narrow!None, NarrowProofs!Server!None

ClientsInv ==
  /\ part = "socket" => LinkProofs!ServerInv
  /\ part = "narrow" => NarrowProofs!ServerInv

LEMMA ClientsInit == ServicesInit => ClientsInv
  BY SocketSame, NarrowSame, LinkProofs!ServerInit, NarrowProofs!ServerInit
  DEF ServicesInit, ClientsInv

LEMMA ClientsStep ==
  ASSUME EarlyReturn = FALSE PROVE ClientsInv /\ [ServicesNext]_servicesVars => ClientsInv'
<1> SUFFICES ASSUME ClientsInv, [ServicesNext]_servicesVars PROVE ClientsInv'
  OBVIOUS
<1>1. CASE part = "socket"
  BY <1>1, PartStays, SocketStep, ServersAssumed, LinkProofs!ServerNext
  DEF ClientsInv
<1>2. CASE part = "narrow"
  BY <1>2, PartStays, NarrowStep, ServersAssumed, NarrowProofs!ServerNext
  DEF ClientsInv
<1> QED
  BY <1>1, <1>2, PartStays DEF ClientsInv

\* Clients of a socket server agree on who is there and on what was said, on a
\* socket that takes one and on one of which a client may only read, for any
\* number of connections and inputs, if nobody returns before the server knows that
\* he left (#broadcast, #handleClientDisconnect in socket-server.ts).
THEOREM ClientsAgreeTheorem ==
  ASSUME EarlyReturn = FALSE PROVE ServicesSpec => []ClientsAgree
<1>1. ClientsInv => ClientsAgree
  BY SocketSame, NarrowSame, LinkProofs!ServerHolds, NarrowProofs!ServerHolds
  DEF ClientsInv, ClientsAgree
<1> QED
  BY <1>1, ClientsInit, ClientsStep, PTL DEF ServicesSpec

WatchersInv == part = "gateway" => LinkProofs!GatewayInv

LEMMA WatchersInit == ServicesInit => WatchersInv
  BY GatewaySame, LinkProofs!GatewayInit DEF ServicesInit, WatchersInv

LEMMA WatchersStep ==
  ASSUME LateBodies = FALSE, OneContext = TRUE
  PROVE  WatchersInv /\ [ServicesNext]_servicesVars => WatchersInv'
  BY PartStays, GatewayStep, ServersAssumed, LinkProofs!GatewayNext DEF WatchersInv

\* Sockets and streams show the output of their session's process, and no process
\* outlives its session, for any number of them and of inputs, if the session lasts
\* until its inputs have come and the handlers of a socket get one WSContext (session-process.ts, ws.ts, session-manager.ts).
THEOREM ViewersFollowTheorem ==
  ASSUME LateBodies = FALSE, OneContext = TRUE
  PROVE  ServicesSpec => []ViewersFollowSessions
<1>1. WatchersInv => ViewersFollowSessions
  BY GatewaySame, LinkProofs!GatewayHolds DEF WatchersInv, ViewersFollowSessions
<1> QED
  BY <1>1, WatchersInit, WatchersStep, PTL DEF ServicesSpec

-----------------------------------------------------------------------------
\* The module with the proofs about what is kept, for the channel and for settings of
\* two fields.
KeptProofs == INSTANCE RecordProofs WITH
  Sizes <- {1}, KeepRecentTokens <- 2, MaxMessages <- MaxSaid, MaxBackfill <- 1,
  MaxRepeats <- MaxAgain, MaxEvents <- 2, QueueLimit <- 1, Environment <- Channel, Field <- {f1, f2}
\* The same for one process by itself, whose file does not exist yet.
FirstProofs == INSTANCE RecordProofs WITH
  Sizes <- {1}, KeepRecentTokens <- 2, MaxMessages <- MaxSaid, MaxBackfill <- 1,
  MaxRepeats <- MaxAgain, MaxEvents <- 2, QueueLimit <- 1, Environment <- Channel, Field <- {f1, f2}, Process <- {p1},
  Happens <- {"burst", "missing"}

LEMMA ChannelSame ==
  /\ Mom!Init <=> KeptProofs!Channel!Init
  /\ Mom!Next <=> KeptProofs!Channel!Next
  /\ Mom!vars = KeptProofs!Channel!vars
  /\ Mom!ContextFollowsChannel <=> KeptProofs!Channel!ContextFollowsChannel
<1>1. Mom!Init <=> KeptProofs!Channel!Init
  BY DEF Mom!Init, KeptProofs!Channel!Init, Mom!Idle, KeptProofs!Channel!Idle
<1>2. Mom!vars = KeptProofs!Channel!vars
  BY DEF Mom!vars, KeptProofs!Channel!vars
<1>3. ASSUME NEW toBot, NEW text, NEW known PROVE Mom!Say(toBot, text, known) <=> KeptProofs!Channel!Say(toBot, text, known)
  BY DEF Mom!Say, KeptProofs!Channel!Say, Mom!Message, KeptProofs!Channel!Message,
      Mom!Deliver, KeptProofs!Channel!Deliver,
      Mom!UserLine, KeptProofs!Channel!UserLine, Mom!Started,
      KeptProofs!Channel!Started, Mom!Idle, KeptProofs!Channel!Idle
<1>4. Mom!EventDue <=> KeptProofs!Channel!EventDue
  BY DEF Mom!EventDue, KeptProofs!Channel!EventDue, Mom!Started,
      KeptProofs!Channel!Started, Mom!Idle, KeptProofs!Channel!Idle
<1>5. Mom!Sync <=> KeptProofs!Channel!Sync
  BY DEF Mom!Sync, KeptProofs!Channel!Sync, Mom!Unsynced,
      KeptProofs!Channel!Unsynced, Mom!LoggedText, KeptProofs!Channel!LoggedText,
      Mom!Logged, KeptProofs!Channel!Logged, Mom!InOrder,
      KeptProofs!Channel!InOrder, Mom!Cardinality, KeptProofs!Channel!Cardinality,
      Mom!Range, KeptProofs!Channel!Range
<1>6. Mom!Prompt <=> KeptProofs!Channel!Prompt
  BY DEF Mom!Prompt, KeptProofs!Channel!Prompt, Mom!PromptText,
      KeptProofs!Channel!PromptText, Mom!RunEnds, KeptProofs!Channel!RunEnds,
      Mom!Started, KeptProofs!Channel!Started, Mom!Idle, KeptProofs!Channel!Idle
<1>7. Mom!Answer <=> KeptProofs!Channel!Answer
  BY DEF Mom!Answer, KeptProofs!Channel!Answer, Mom!BotLine,
      KeptProofs!Channel!BotLine
<1>8. Mom!Report <=> KeptProofs!Channel!Report
  BY DEF Mom!Report, KeptProofs!Channel!Report, Mom!RunEnds,
      KeptProofs!Channel!RunEnds, Mom!Started, KeptProofs!Channel!Started, Mom!Idle,
      KeptProofs!Channel!Idle
<1>9. Mom!Crash <=> KeptProofs!Channel!Crash
  BY DEF Mom!Crash, KeptProofs!Channel!Crash, Mom!Idle, KeptProofs!Channel!Idle
<1>10. Mom!Start <=> KeptProofs!Channel!Start
  BY DEF Mom!Start, KeptProofs!Channel!Start
<1>11. Mom!Connect <=> KeptProofs!Channel!Connect
  BY DEF Mom!Connect, KeptProofs!Channel!Connect, Mom!Backfill, Mom!Behind,
      KeptProofs!Channel!Behind, Mom!Beyond, KeptProofs!Channel!Beyond,
      KeptProofs!Channel!Backfill, Mom!UserLine, KeptProofs!Channel!UserLine,
      Mom!InOrder, KeptProofs!Channel!InOrder, Mom!Max, KeptProofs!Channel!Max,
      Mom!Logged, KeptProofs!Channel!Logged, Mom!Cardinality,
      KeptProofs!Channel!Cardinality, Mom!Range, KeptProofs!Channel!Range
<1>12. ASSUME NEW m, NEW toBot PROVE Mom!Replay(m, toBot) <=> KeptProofs!Channel!Replay(m, toBot)
  BY DEF Mom!Replay, KeptProofs!Channel!Replay, Mom!Deliver, KeptProofs!Channel!Deliver,
      Mom!UserLine, KeptProofs!Channel!UserLine, Mom!Started,
      KeptProofs!Channel!Started, Mom!Idle, KeptProofs!Channel!Idle, Mom!Logged,
      KeptProofs!Channel!Logged, Mom!Cardinality, KeptProofs!Channel!Cardinality
<1>13. Mom!Next <=> KeptProofs!Channel!Next
  BY <1>3, <1>4, <1>5, <1>6, <1>7, <1>8, <1>9, <1>10, <1>11, <1>12
  DEF Mom!Next, KeptProofs!Channel!Next
<1>14. Mom!ContextFollowsChannel <=> KeptProofs!Channel!ContextFollowsChannel
  BY DEF Mom!ContextFollowsChannel, KeptProofs!Channel!ContextFollowsChannel,
      Mom!LogIsComplete, KeptProofs!Channel!LogIsComplete, Mom!AnswersKnowTheLog,
      KeptProofs!Channel!AnswersKnowTheLog, Mom!Times, KeptProofs!Channel!Times,
      Mom!LoggedText, KeptProofs!Channel!LoggedText, Mom!PromptText,
      KeptProofs!Channel!PromptText, Mom!Cardinality, KeptProofs!Channel!Cardinality,
      Mom!Logged, KeptProofs!Channel!Logged
<1> QED
  BY <1>1, <1>2, <1>3, <1>4, <1>5, <1>6, <1>7, <1>8, <1>9, <1>10, <1>11, <1>12, <1>13,
     <1>14

LEMMA SettingsSame ==
  /\ Settings!Init <=> KeptProofs!Settings!Init
  /\ Settings!Next <=> KeptProofs!Settings!Next
  /\ Settings!vars = KeptProofs!Settings!vars
  /\ Settings!SettingsSurvive <=> KeptProofs!Settings!SettingsSurvive
<1>1. Settings!Init <=> KeptProofs!Settings!Init
  BY DEF Settings!Init, KeptProofs!Settings!Init, Settings!AtFirst,
      KeptProofs!Settings!AtFirst, Settings!NewManager,
      KeptProofs!Settings!NewManager
<1>2. Settings!vars = KeptProofs!Settings!vars
  BY DEF Settings!vars, KeptProofs!Settings!vars
<1>3. ASSUME NEW p, NEW f PROVE Settings!Set(p, f) <=> KeptProofs!Settings!Set(p, f)
  BY DEF Settings!Set, KeptProofs!Settings!Set, Settings!Idle,
      KeptProofs!Settings!Idle, Settings!Becomes, KeptProofs!Settings!Becomes
<1>4. ASSUME NEW p PROVE Settings!Write(p) <=> KeptProofs!Settings!Write(p)
  BY DEF Settings!Write, KeptProofs!Settings!Write, Settings!Idle,
      KeptProofs!Settings!Idle, Settings!Becomes, KeptProofs!Settings!Becomes,
      Settings!Stores, KeptProofs!Settings!Stores, Settings!Merged,
      KeptProofs!Settings!Merged, Settings!Done, KeptProofs!Settings!Done,
      Settings!Fails, KeptProofs!Settings!Fails, Settings!AtFirst,
      KeptProofs!Settings!AtFirst
<1>5. ASSUME NEW p PROVE Settings!Create(p) <=> KeptProofs!Settings!Create(p)
  BY DEF Settings!Create, KeptProofs!Settings!Create, Settings!Idle,
      KeptProofs!Settings!Idle, Settings!Becomes, KeptProofs!Settings!Becomes,
      Settings!Stores, KeptProofs!Settings!Stores, Settings!Done,
      KeptProofs!Settings!Done
<1>6. ASSUME NEW f PROVE Settings!Edit(f) <=> KeptProofs!Settings!Edit(f)
  BY DEF Settings!Edit, KeptProofs!Settings!Edit, Settings!Stores,
      KeptProofs!Settings!Stores
<1>7. ASSUME NEW p PROVE Settings!Reload(p) <=> KeptProofs!Settings!Reload(p)
  BY DEF Settings!Reload, KeptProofs!Settings!Reload, Settings!Idle,
      KeptProofs!Settings!Idle, Settings!Becomes, KeptProofs!Settings!Becomes
<1>8. ASSUME NEW p PROVE Settings!Reloaded(p) <=> KeptProofs!Settings!Reloaded(p)
  BY DEF Settings!Reloaded, KeptProofs!Settings!Reloaded, Settings!Idle,
      KeptProofs!Settings!Idle, Settings!Becomes, KeptProofs!Settings!Becomes
<1>9. Settings!Next <=> KeptProofs!Settings!Next
  BY <1>3, <1>4, <1>5, <1>6, <1>7, <1>8 DEF Settings!Next, KeptProofs!Settings!Next
<1>10. Settings!SettingsSurvive <=> KeptProofs!Settings!SettingsSurvive
  BY DEF Settings!SettingsSurvive, KeptProofs!Settings!SettingsSurvive
<1> QED
  BY <1>1, <1>2, <1>3, <1>4, <1>5, <1>6, <1>7, <1>8, <1>9, <1>10

LEMMA ChannelStep ==
  ASSUME [ServicesNext]_servicesVars, part = "mom"
  PROVE  [KeptProofs!Channel!Next]_(KeptProofs!Channel!vars)
<1>1. CASE UNCHANGED servicesVars
  BY <1>1 DEF servicesVars, momVars, KeptProofs!Channel!vars
<1>2. CASE ServicesNext
  BY <1>2, ChannelSame
  DEF ServicesNext, SocketMoves, AuthMoves, SettingsMove, TuiMoves, KeysMove,
      GatewayMoves, PathMoves, MomMoves, PlanMoves, OthersRest, CoreRests
<1> QED
  BY <1>1, <1>2

LEMMA SettingsStep ==
  ASSUME [ServicesNext]_servicesVars, part = "settings"
  PROVE  [KeptProofs!Settings!Next]_(KeptProofs!Settings!vars)
<1>1. CASE UNCHANGED servicesVars
  BY <1>1 DEF servicesVars, settingsVars, KeptProofs!Settings!vars
<1>2. CASE ServicesNext
  BY <1>2, SettingsSame
  DEF ServicesNext, SocketMoves, AuthMoves, SettingsMove, TuiMoves, KeysMove,
      GatewayMoves, PathMoves, MomMoves, PlanMoves, OthersRest, CoreRests
<1> QED
  BY <1>1, <1>2

ChannelInv == part = "mom" => KeptProofs!ChannelInv

LEMMA ChannelInit == ServicesInit => ChannelInv
  BY ChannelSame, KeptProofs!ChannelInit DEF ServicesInit, ChannelInv

LEMMA ChannelNext ==
  ASSUME Channel \subseteq {"crash"}
  PROVE  ChannelInv /\ [ServicesNext]_servicesVars => ChannelInv'
<1>1. KeptProofs!Channel!ChannelAssumption
  BY Assumptions
  DEF Mom!ChannelAssumption, KeptProofs!Channel!ChannelAssumption, Mom!Happenings,
      KeptProofs!Channel!Happenings
<1> QED
  BY <1>1, PartStays, ChannelStep, KeptProofs!ChannelStep DEF ChannelInv

\* The agent of a Slack channel knows what was said in it, for any number of
\* messages, of crashes and of deliveries of old messages, under the conditions of
\* the proof about the channel (syncLogToSessionManager in context.ts, backfillChannel
\* in slack.ts).
THEOREM ContextFollowsTheorem ==
  ASSUME Channel \subseteq {"crash"} PROVE ServicesSpec => []ContextFollowsChannel
<1>1. ChannelInv => ContextFollowsChannel
  BY ChannelSame, KeptProofs!ChannelHolds DEF ChannelInv, ContextFollowsChannel
<1> QED
  BY <1>1, ChannelInit, ChannelNext, PTL DEF ServicesSpec

LEMMA FirstSame ==
  /\ First!Init <=> FirstProofs!Settings!Init
  /\ First!Next <=> FirstProofs!Settings!Next
  /\ First!vars = FirstProofs!Settings!vars
  /\ First!SettingsSurvive <=> FirstProofs!Settings!SettingsSurvive
<1>1. First!Init <=> FirstProofs!Settings!Init
  BY DEF First!Init, FirstProofs!Settings!Init, First!AtFirst,
      FirstProofs!Settings!AtFirst, First!NewManager,
      FirstProofs!Settings!NewManager
<1>2. First!vars = FirstProofs!Settings!vars
  BY DEF First!vars, FirstProofs!Settings!vars
<1>3. ASSUME NEW p, NEW f PROVE First!Set(p, f) <=> FirstProofs!Settings!Set(p, f)
  BY DEF First!Set, FirstProofs!Settings!Set, First!Idle, FirstProofs!Settings!Idle,
      First!Becomes, FirstProofs!Settings!Becomes
<1>4. ASSUME NEW p PROVE First!Write(p) <=> FirstProofs!Settings!Write(p)
  BY DEF First!Write, FirstProofs!Settings!Write, First!Idle,
      FirstProofs!Settings!Idle, First!Becomes, FirstProofs!Settings!Becomes,
      First!Stores, FirstProofs!Settings!Stores, First!Merged,
      FirstProofs!Settings!Merged, First!Done, FirstProofs!Settings!Done,
      First!Fails, FirstProofs!Settings!Fails, First!AtFirst,
      FirstProofs!Settings!AtFirst
<1>5. ASSUME NEW p PROVE First!Create(p) <=> FirstProofs!Settings!Create(p)
  BY DEF First!Create, FirstProofs!Settings!Create, First!Idle,
      FirstProofs!Settings!Idle, First!Becomes, FirstProofs!Settings!Becomes,
      First!Stores, FirstProofs!Settings!Stores, First!Done,
      FirstProofs!Settings!Done
<1>6. ASSUME NEW f PROVE First!Edit(f) <=> FirstProofs!Settings!Edit(f)
  BY DEF First!Edit, FirstProofs!Settings!Edit, First!Stores,
      FirstProofs!Settings!Stores
<1>7. ASSUME NEW p PROVE First!Reload(p) <=> FirstProofs!Settings!Reload(p)
  BY DEF First!Reload, FirstProofs!Settings!Reload, First!Idle,
      FirstProofs!Settings!Idle, First!Becomes, FirstProofs!Settings!Becomes
<1>8. ASSUME NEW p PROVE First!Reloaded(p) <=> FirstProofs!Settings!Reloaded(p)
  BY DEF First!Reloaded, FirstProofs!Settings!Reloaded, First!Idle,
      FirstProofs!Settings!Idle, First!Becomes, FirstProofs!Settings!Becomes
<1>9. First!Next <=> FirstProofs!Settings!Next
  BY <1>3, <1>4, <1>5, <1>6, <1>7, <1>8 DEF First!Next, FirstProofs!Settings!Next
<1>10. First!SettingsSurvive <=> FirstProofs!Settings!SettingsSurvive
  BY DEF First!SettingsSurvive, FirstProofs!Settings!SettingsSurvive
<1> QED
  BY <1>1, <1>2, <1>3, <1>4, <1>5, <1>6, <1>7, <1>8, <1>9, <1>10

LEMMA FirstStep ==
  ASSUME [ServicesNext]_servicesVars, part = "first"
  PROVE  [FirstProofs!Settings!Next]_(FirstProofs!Settings!vars)
<1>1. CASE UNCHANGED servicesVars
  BY <1>1 DEF servicesVars, settingsVars, FirstProofs!Settings!vars
<1>2. CASE ServicesNext
  BY <1>2, FirstSame
  DEF ServicesNext, SocketMoves, AuthMoves, SettingsMove, TuiMoves, KeysMove,
      GatewayMoves, PathMoves, MomMoves, PlanMoves, OthersRest, CoreRests
<1> QED
  BY <1>1, <1>2

LEMMA FirstAssumed == FirstProofs!Alone
  BY DEF FirstProofs!Alone

SettingsInv ==
  /\ part = "settings" => KeptProofs!SettingsInv
  /\ part = "first" => FirstProofs!AloneInv

LEMMA SettingsInit ==
  ASSUME KeptProofs!Orderly PROVE ServicesInit => SettingsInv
  BY SettingsSame, FirstSame, FirstAssumed, KeptProofs!SettingsInit,
     FirstProofs!AloneInit
  DEF ServicesInit, SettingsInv

LEMMA SettingsNext ==
  ASSUME KeptProofs!Orderly PROVE SettingsInv /\ [ServicesNext]_servicesVars => SettingsInv'
<1> SUFFICES ASSUME SettingsInv, [ServicesNext]_servicesVars PROVE SettingsInv'
  OBVIOUS
<1>1. CASE part = "settings"
  BY <1>1, PartStays, SettingsStep, KeptProofs!SettingsNext DEF SettingsInv
<1>2. CASE part = "first"
  BY <1>2, PartStays, FirstStep, FirstAssumed, FirstProofs!AloneNext DEF SettingsInv
<1> QED
  BY <1>1, <1>2, PartStays DEF SettingsInv

\* No setting is lost: several processes that set one value at a time, and fail to
\* lock the file, and the user's editor lose none, and neither does one process that
\* sets several in a row and finds no file (persistScopedSettings, enqueueWrite in
\* settings-manager.ts).
THEOREM SettingsSurviveTheorem ==
  ASSUME Happens \cap {"burst", "missing", "unreadable"} = {}
  PROVE  ServicesSpec => []SettingsSurvive
<1> KeptProofs!Orderly
  BY DEF KeptProofs!Orderly
<1>1. SettingsInv => SettingsSurvive
  BY SettingsSame, FirstSame, KeptProofs!SettingsHold, FirstProofs!AloneHolds
  DEF SettingsInv, SettingsSurvive
<1> QED
  BY <1>1, SettingsInit, SettingsNext, PTL DEF ServicesSpec
-----------------------------------------------------------------------------
\* The proofs about a path, for the sizes and the budget of this composition: each
\* operator of the two instances is the same.
LEMMA CompactionOperators ==
  ASSUME NEW p
  PROVE  /\ Compacting!WithoutHistory(p) <=> KeptProofs!WithoutHistory(p)
         /\ Compacting!CompactionEntry(p) = KeptProofs!CompactionEntry(p)
         /\ Compacting!Compactions(p) = KeptProofs!Compactions(p)
         /\ Compacting!Previous(p) = KeptProofs!Previous(p)
<1>1. \A start : Compacting!findValidCutPoints(p, start) = KeptProofs!findValidCutPoints(p, start)
  BY DEF Compacting!findValidCutPoints, KeptProofs!findValidCutPoints,
      Compacting!HasMessage, KeptProofs!HasMessage, Compacting!Messages,
      KeptProofs!Messages
<1>2. \A start : Compacting!TokensFrom(p, start) = KeptProofs!TokensFrom(p, start)
  BY DEF Compacting!TokensFrom, KeptProofs!TokensFrom, Compacting!Messages,
      KeptProofs!Messages, Compacting!MapThenSumSet, KeptProofs!MapThenSumSet,
      Compacting!MapThenFoldSet, KeptProofs!MapThenFoldSet
<1>3. \A start : Compacting!CutIndex(p, start) = KeptProofs!CutIndex(p, start)
  BY DEF Compacting!CutIndex, KeptProofs!CutIndex, Compacting!findValidCutPoints,
      KeptProofs!findValidCutPoints, Compacting!HasMessage, KeptProofs!HasMessage,
      Compacting!TokensFrom, KeptProofs!TokensFrom, Compacting!Messages,
      KeptProofs!Messages, Compacting!Min, KeptProofs!Min, Compacting!MapThenSumSet,
      KeptProofs!MapThenSumSet, Compacting!MapThenFoldSet, KeptProofs!MapThenFoldSet
<1>4. ASSUME NEW start PROVE Compacting!FirstKept(p, start) = KeptProofs!FirstKept(p, start)
  <2> DEFINE At(points, cut) ==
             LET S == {i \in start..cut : \A j \in i..(cut - 1) :
                         p[j].kind \in {"summary", "setting"}}
             IN  IF points = {} THEN start ELSE CHOOSE x \in S : \A y \in S : x =< y
  <2>1. Compacting!FirstKept(p, start) =
         At(Compacting!findValidCutPoints(p, start), Compacting!CutIndex(p, start))
    BY DEF Compacting!FirstKept, Compacting!Min
  <2>2. KeptProofs!FirstKept(p, start) =
         At(KeptProofs!findValidCutPoints(p, start), KeptProofs!CutIndex(p, start))
    BY DEF KeptProofs!FirstKept, KeptProofs!Min
  <2> HIDE DEF At
  <2> QED
    BY <1>1, <1>3, <2>1, <2>2
<1>5. ASSUME NEW start PROVE Compacting!TurnStart(p, start) = KeptProofs!TurnStart(p, start)
  <2> DEFINE At(points, first) ==
             LET starts == {i \in start..first : p[i].kind \in {"user", "bash", "summary"}}
             IN  IF points = {} \/ p[first].kind = "user" \/ starts = {} THEN 0
                 ELSE CHOOSE x \in starts : \A y \in starts : x >= y
  <2>1. Compacting!TurnStart(p, start) =
         At(Compacting!findValidCutPoints(p, start), Compacting!FirstKept(p, start))
    BY DEF Compacting!TurnStart, Compacting!Max
  <2>2. KeptProofs!TurnStart(p, start) =
         At(KeptProofs!findValidCutPoints(p, start), KeptProofs!FirstKept(p, start))
    BY DEF KeptProofs!TurnStart, KeptProofs!Max
  <2> HIDE DEF At
  <2> QED
    BY <1>1, <1>4, <2>1, <2>2
<1>6. /\ Compacting!Compactions(p) = KeptProofs!Compactions(p)
      /\ Compacting!Previous(p) = KeptProofs!Previous(p)
  BY DEF Compacting!Compactions, KeptProofs!Compactions, Compacting!Previous,
      KeptProofs!Previous, Compacting!Max, KeptProofs!Max
<1>7. Compacting!BoundaryStart(p) = KeptProofs!BoundaryStart(p)
  BY <1>6 DEF Compacting!BoundaryStart, KeptProofs!BoundaryStart
<1>8. Compacting!HistoryEnd(p) = KeptProofs!HistoryEnd(p)
  BY <1>4, <1>5, <1>7 DEF Compacting!HistoryEnd, KeptProofs!HistoryEnd
<1>9. /\ Compacting!messagesToSummarize(p) = KeptProofs!messagesToSummarize(p)
      /\ Compacting!turnPrefixMessages(p) = KeptProofs!turnPrefixMessages(p)
  BY <1>4, <1>7, <1>8
  DEF Compacting!messagesToSummarize, KeptProofs!messagesToSummarize,
      Compacting!turnPrefixMessages, KeptProofs!turnPrefixMessages,
      Compacting!MessagesIn, KeptProofs!MessagesIn, Compacting!HasMessage,
      KeptProofs!HasMessage, Compacting!Messages, KeptProofs!Messages
<1>10. Compacting!WithoutHistory(p) <=> KeptProofs!WithoutHistory(p)
  BY <1>9 DEF Compacting!WithoutHistory, KeptProofs!WithoutHistory
<1>11. Compacting!Summarized(p) = KeptProofs!Summarized(p)
  BY <1>6, <1>9, <1>10
  DEF Compacting!Summarized, KeptProofs!Summarized, Compacting!previousSummary,
      KeptProofs!previousSummary
<1>12. Compacting!CompactionEntry(p) = KeptProofs!CompactionEntry(p)
  BY <1>4, <1>7, <1>11 DEF Compacting!CompactionEntry, KeptProofs!CompactionEntry
<1> QED
  BY <1>6, <1>10, <1>12

LEMMA CompactionSame ==
  /\ Compacting!Init <=> KeptProofs!Init
  /\ Compacting!Next <=> KeptProofs!Next
  /\ KeptProofs!NothingIsForgotten /\ KeptProofs!KeepsWhatIsRecent =>
       Compacting!CompactionsKeepHistory
<1>1. Compacting!Init <=> KeptProofs!Init
  BY DEF Compacting!Init, KeptProofs!Init
<1>2. Compacting!AppendEntry <=> KeptProofs!AppendEntry
  BY DEF Compacting!AppendEntry, KeptProofs!AppendEntry, Compacting!Kinds,
      KeptProofs!Kinds, Compacting!Messages, KeptProofs!Messages, Compacting!Entry,
      KeptProofs!Entry
<1>3. Compacting!Compact <=> KeptProofs!Compact
  BY CompactionOperators DEF Compacting!Compact, KeptProofs!Compact
<1>4. Compacting!Next <=> KeptProofs!Next
  BY <1>2, <1>3 DEF Compacting!Next, KeptProofs!Next
<1>5. KeptProofs!NothingIsForgotten => Compacting!NothingIsForgotten
  BY CompactionOperators
  DEF Compacting!NothingIsForgotten, KeptProofs!NothingIsForgotten,
      Compacting!HasMessage, KeptProofs!HasMessage, Compacting!Messages,
      KeptProofs!Messages
<1>6. KeptProofs!KeepsWhatIsRecent => Compacting!KeepsWhatIsRecent
  <2> DEFINE Keeps(last) ==
               LET kept == {i \in path[last].first..(last - 1) :
                              path[i].kind \in Compacting!Messages}
               IN  kept # {} =>
                     /\ path[Compacting!Min(kept)].kind # "toolResult"
                     /\ \/ Compacting!MapThenSumSet(LAMBDA i : path[i].size,
                             kept \ {Compacting!Min(kept)}) < 2
                        \/ path[Compacting!Max(kept)].kind = "toolResult"
                        \/ 2 = 0
  <2>1. Compacting!KeepsWhatIsRecent <=>
          (Compacting!Compactions(path) # {} => Keeps(Compacting!Previous(path)))
    BY DEF Compacting!KeepsWhatIsRecent
  <2>2. KeptProofs!KeepsWhatIsRecent <=>
          (KeptProofs!Compactions(path) # {} => Keeps(KeptProofs!Previous(path)))
    BY DEF KeptProofs!KeepsWhatIsRecent, Compacting!Messages, KeptProofs!Messages,
        Compacting!Min, KeptProofs!Min, Compacting!Max, KeptProofs!Max,
        Compacting!MapThenSumSet, KeptProofs!MapThenSumSet,
        Compacting!MapThenFoldSet, KeptProofs!MapThenFoldSet
  <2> HIDE DEF Keeps
  <2> QED
    BY <2>1, <2>2, CompactionOperators
<1> QED
  BY <1>1, <1>4, <1>5, <1>6 DEF Compacting!CompactionsKeepHistory

LEMMA CompactionStep ==
  ASSUME [ServicesNext]_servicesVars, part = "compaction"
  PROVE  [KeptProofs!Next]_path
<1>1. CASE UNCHANGED servicesVars
  BY <1>1 DEF servicesVars
<1>2. CASE ServicesNext
  BY <1>2, CompactionSame
  DEF ServicesNext, SocketMoves, AuthMoves, SettingsMove, TuiMoves, KeysMove,
      GatewayMoves, PathMoves, MomMoves, PlanMoves, OthersRest, CoreRests
<1> QED
  BY <1>1, <1>2

HistoryInv == part = "compaction" => KeptProofs!Inv /\ KeptProofs!RecentInv

LEMMA CompactionInit == ServicesInit => HistoryInv
BY CompactionSame, KeptProofs!HistoryInit, KeptProofs!RecentInit
DEF ServicesInit, HistoryInv

LEMMA CompactionAssumed == KeptProofs!CompactionAssumption
BY Assumptions DEF Compacting!CompactionAssumption, KeptProofs!CompactionAssumption

LEMMA CompactionNext ==
  ASSUME LongFirstTurns = FALSE
  PROVE  HistoryInv /\ [ServicesNext]_servicesVars => HistoryInv'
BY PartStays, CompactionStep, CompactionAssumed, KeptProofs!HistoryNext,
   KeptProofs!RecentNext
DEF HistoryInv

\* However often a path is compacted, the model is sent each message or a summary
\* of it, no result without its call, and no more than the recent ones asked for,
\* under the conditions of the proofs about compactions (findCutPoint,
\* prepareCompaction and compact in compaction.ts).
THEOREM CompactionsTheorem ==
  ASSUME LongFirstTurns = FALSE
  PROVE  ServicesSpec => []CompactionsKeepHistory
<1>1. HistoryInv => CompactionsKeepHistory
  <2> SUFFICES ASSUME HistoryInv, part = "compaction" PROVE Compacting!CompactionsKeepHistory
    BY DEF CompactionsKeepHistory
  <2>1. KeptProofs!NothingIsForgotten
    BY DEF HistoryInv, KeptProofs!Inv
  <2>2. KeptProofs!KeepsWhatIsRecent
    BY KeptProofs!RecentByTotal DEF HistoryInv, KeptProofs!RecentInv
  <2> QED
    BY <2>1, <2>2, CompactionSame
<1> QED
  BY <1>1, CompactionInit, CompactionNext, PTL DEF ServicesSpec
===============================================================================
