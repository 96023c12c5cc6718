----------------------------- MODULE ShardTier -----------------------------
(***************************************************************************)
(* The SSD tier of adapters/storage/shard_tier.py: a byte-budgeted LRU of  *)
(* shard files on local disk, filled by fetch (a query misses, and gets    *)
(* the shard whatever it displaces) and prewarm (speculative: may not      *)
(* displace an entry younger than MIN_RESIDENT_S).                         *)
(*                                                                         *)
(* Threads of one process call fetch and prewarm.  The first to miss a URI *)
(* becomes its initiator and downloads; the others wait for its event.     *)
(* Each step below is one critical section of _RESIDENCY_LOCK or           *)
(* _INFLIGHT_LOCK, or one file-system call outside both.                   *)
(***************************************************************************)
EXTENDS Integers, Sequences, SequencesExt, FiniteSets, FiniteSetsExt

CONSTANTS
  Uris,       \* shard URIs; a URI names one content, and one local path
  Size,       \* bytes of each shard
  TierBytes,  \* _TIER_BYTES, the budget
  Threads,    \* request threads and the prewarm consumer
  NoThread,   \* nobody
  Allowed     \* which of Disturbances may happen

\* Failing downloads and unlinks, an expired wait, files removed by hand, a restart, and
\* calls of evict, which is public and has no caller in production.
Disturbances == {"download", "unlink", "timeout", "operator", "restart", "evict"}

ASSUME TierAssumption ==
  /\ IsFiniteSet(Uris) /\ Uris # {}
  /\ Size \in [Uris -> Nat \ {0}]
  /\ TierBytes \in Nat
  /\ NoThread \notin Threads
  /\ Allowed \subseteq Disturbances

VARIABLES
  lru,        \* _RESIDENCY: resident URIs, least recently used first
  young,      \* URIs whose last_admit_at is less than MIN_RESIDENT_S ago
  bytes_used, \* _BYTES_USED
  inflight,   \* _INFLIGHT: the thread whose event is registered for a URI
  disk,       \* URIs whose file is at its local path
  call,       \* where each thread is in its call of fetch or prewarm
  stray,      \* history: files left by a restart or by an unlink that failed
  removed     \* history: resident files an operator has removed

residencyVars == <<lru, young, bytes_used>>
fileVars == <<disk, stray, removed>>
vars == <<residencyVars, inflight, fileVars, call>>

Ops == {"fetch", "prewarm"}
Outcomes == {"path", "missing", "full", "timeout"}

Idle == [pc |-> "idle"]
At(pc, op, u) == [pc |-> pc, op |-> op, uri |-> u]

Init ==
  /\ lru = <<>> /\ young = {} /\ bytes_used = 0
  /\ inflight = [u \in Uris |-> NoThread]
  /\ disk = {} /\ stray = {} /\ removed = {}
  /\ call = [t \in Threads |-> Idle]

Resident == ToSet(lru)
Bytes(S) == MapThenSumSet(LAMBDA u : Size[u], S)

-----------------------------------------------------------------------------
(* The residency table *)

\* A warm hit needs the entry and its file.
Warm(u) == u \in Resident /\ u \in disk

\* A hit moves the entry to the most recently used end; its admission time stays.
Touch(u) ==
  /\ lru' = Append(RemoveFirst(lru, u), u)
  /\ UNCHANGED <<young, bytes_used>>

\* _evict_locked and the eviction loop drop entries, then unlink their files; an
\* unlink that fails is logged and the file stays.
Unlink(victims) ==
  \E kept \in SUBSET (victims \cap disk) :
    /\ kept # {} => "unlink" \in Allowed
    /\ disk' = disk \ (victims \ kept)
    /\ stray' = (stray \ victims) \cup kept
    /\ removed' = removed \ victims

\* How many entries the eviction loop drops from the LRU end of order, given the
\* running total used.
EvictCount(order, used) ==
  Min({k \in 0..Len(order) :
         \/ used - Bytes({order[i] : i \in 1..k}) <= TierBytes
         \/ k = Len(order)})

\* Mutant of admit_locked: a re-admitted entry is counted twice.
AdmitTwiceCounted(u) ==
  LET order == Append(RemoveFirst(lru, u), u)
      used  == bytes_used + Size[u]
      k     == EvictCount(order, used)
      gone  == {order[i] : i \in 1..k}
  IN  /\ lru' = SubSeq(order, k + 1, Len(order))
      /\ bytes_used' = used - Bytes(gone)
      /\ young' = (young \cup {u}) \ gone
      /\ Unlink(gone)

\* _admit_locked: insert u at the MRU end, evict from the LRU end until the total fits.
admit_locked(u) ==
  LET order == Append(RemoveFirst(lru, u), u)
      used  == bytes_used - (IF u \in Resident THEN Size[u] ELSE 0) + Size[u]
      k     == EvictCount(order, used)
      gone  == {order[i] : i \in 1..k}
  IN  /\ lru' = SubSeq(order, k + 1, Len(order))
      /\ bytes_used' = used - Bytes(gone)
      /\ young' = (young \cup {u}) \ gone
      /\ Unlink(gone)

\* _check_admission_capacity_locked: the entries that would have to go, in LRU
\* order, are enough and none of them is young.
CapacityFor(u) ==
  LET others    == RemoveFirst(lru, u)
      projected == bytes_used - (IF u \in Resident THEN Size[u] ELSE 0) + Size[u]
      first(k)  == {others[i] : i \in 1..k}
  IN  \/ projected <= TierBytes
      \/ \E k \in 1..Len(others) :
           /\ Bytes(first(k)) >= projected - TierBytes
           /\ first(k) \cap young = {}

-----------------------------------------------------------------------------
(* fetch and prewarm *)

Go(t, c) == call' = [call EXCEPT ![t] = c]
Step(t, pc) == Go(t, [call[t] EXCEPT !.pc = pc])

\* What the call will do once its finally clause is through: return or raise.
Ending(t, out) == [pc |-> "pop", op |-> call[t].op, uri |-> call[t].uri, out |-> out]
Return(op, u) == At("open", op, u)
Raise(op, u, out) == [pc |-> "raised", op |-> op, uri |-> u, out |-> out]

\* The fast path.
Call(t, op, u) ==
  /\ call[t].pc = "idle"
  /\ \/ Warm(u) /\ Touch(u) /\ Go(t, Return(op, u))
     \/ ~Warm(u) /\ Go(t, At("miss", op, u)) /\ UNCHANGED residencyVars
  /\ UNCHANGED <<inflight, fileVars>>

\* Mutant of Register: a registration that does not look at the table again.
RegisterBlindly(t) ==
  /\ call[t].pc = "miss"
  /\ LET u == call[t].uri  op == call[t].op IN
     \/ /\ inflight[u] # NoThread
        /\ Go(t, [pc |-> "wait", op |-> op, uri |-> u, on |-> inflight[u]])
        /\ UNCHANGED inflight
     \/ /\ inflight[u] = NoThread
        /\ inflight' = [inflight EXCEPT ![u] = t]
        /\ Step(t, "get")
  /\ UNCHANGED <<residencyVars, fileVars>>

\* Single-flight registration, with the second look at the table.
Register(t) ==
  /\ call[t].pc = "miss"
  /\ LET u == call[t].uri  op == call[t].op IN
     \/ /\ Warm(u)
        /\ Touch(u) /\ Go(t, Return(op, u))
        /\ UNCHANGED inflight
     \/ /\ ~Warm(u) /\ inflight[u] # NoThread
        /\ Go(t, [pc |-> "wait", op |-> op, uri |-> u, on |-> inflight[u]])
        /\ UNCHANGED <<residencyVars, inflight>>
     \/ /\ ~Warm(u) /\ inflight[u] = NoThread
        /\ inflight' = [inflight EXCEPT ![u] = t]
        /\ Step(t, "get")
        /\ UNCHANGED residencyVars
  /\ UNCHANGED fileVars

\* download_to a unique temporary file, then os.replace.
Download(t) ==
  /\ call[t].pc = "get"
  /\ disk' = disk \cup {call[t].uri}
  /\ stray' = stray \ {call[t].uri} /\ removed' = removed \ {call[t].uri}
  /\ Step(t, "admit")
  /\ UNCHANGED <<residencyVars, inflight>>

\* Mutant of DownloadFails: a failed download raises without its finally clause.
FailUncleared(t) ==
  /\ "download" \in Allowed
  /\ call[t].pc = "get"
  /\ Go(t, Raise(call[t].op, call[t].uri, "missing"))
  /\ UNCHANGED <<residencyVars, inflight, fileVars>>

DownloadFails(t) ==
  /\ "download" \in Allowed
  /\ call[t].pc = "get"
  /\ Go(t, Ending(t, "missing"))
  /\ UNCHANGED <<residencyVars, inflight, fileVars>>

\* getsize, then admission; a prewarm has to pass the floor first.
Admit(t) ==
  /\ call[t].pc = "admit"
  /\ call[t].uri \in disk
  /\ call[t].op = "prewarm" => CapacityFor(call[t].uri)
  /\ admit_locked(call[t].uri)
  /\ Go(t, Ending(t, "path"))
  /\ UNCHANGED inflight

RejectPrewarm(t) ==
  /\ call[t].pc = "admit"
  /\ call[t].uri \in disk
  /\ call[t].op = "prewarm" /\ ~CapacityFor(call[t].uri)
  /\ Step(t, "reject")
  /\ UNCHANGED <<residencyVars, inflight, fileVars>>

\* getsize raises FileNotFoundError: the file went between the rename and here.
SizeFails(t) ==
  /\ call[t].pc = "admit"
  /\ call[t].uri \notin disk
  /\ Go(t, Ending(t, "missing"))
  /\ UNCHANGED <<residencyVars, inflight, fileVars>>

\* Mutant of UnlinkRejected: the rejected file is left where it is.
LeaveRejected(t) ==
  /\ call[t].pc = "reject"
  /\ Go(t, Ending(t, "full"))
  /\ UNCHANGED <<residencyVars, inflight, fileVars>>

\* The rejected file is unlinked outside the residency lock.
UnlinkRejected(t) ==
  /\ call[t].pc = "reject"
  /\ Unlink({call[t].uri})
  /\ Go(t, Ending(t, "full"))
  /\ UNCHANGED <<residencyVars, inflight>>

\* The finally clause: pop the in-flight entry ...
PopInflight(t) ==
  /\ call[t].pc = "pop"
  /\ inflight' = [inflight EXCEPT ![call[t].uri] = NoThread]
  /\ Step(t, "set")
  /\ UNCHANGED <<residencyVars, fileVars>>

\* ... then set the event, which wakes its waiters; the call returns or raises.
SetEvent(t) ==
  /\ call[t].pc = "set"
  /\ call' = [s \in Threads |->
       IF s = t
       THEN IF call[t].out = "path" THEN Return(call[t].op, call[t].uri)
            ELSE Raise(call[t].op, call[t].uri, call[t].out)
       ELSE IF call[s].pc = "wait" /\ call[s].on = t
       THEN At("woken", call[s].op, call[s].uri)
       ELSE call[s]]
  /\ UNCHANGED <<residencyVars, inflight, fileVars>>

\* A woken waiter looks at the table once more.
Wake(t) ==
  /\ call[t].pc = "woken"
  /\ LET u == call[t].uri  op == call[t].op IN
     \/ Warm(u) /\ Touch(u) /\ Go(t, Return(op, u))
     \/ /\ ~Warm(u)
        /\ Go(t, Raise(op, u, IF op = "fetch" THEN "missing" ELSE "full"))
        /\ UNCHANGED residencyVars
  /\ UNCHANGED <<inflight, fileVars>>

\* event.wait runs into RB_SHARD_TIER_COALESCE_WAIT_S.
WaitTimesOut(t) ==
  /\ "timeout" \in Allowed
  /\ call[t].pc = "wait"
  /\ Go(t, Raise(call[t].op, call[t].uri, "timeout"))
  /\ UNCHANGED <<residencyVars, inflight, fileVars>>

\* The caller goes on: it opens the returned path (an open file survives an
\* unlink), or maps the exception to a response.
Resume(t) ==
  /\ call[t].pc \in {"open", "raised"}
  /\ Go(t, Idle)
  /\ UNCHANGED <<residencyVars, inflight, fileVars>>

-----------------------------------------------------------------------------
(* The rest of the interface, time, and the world outside *)

evict(u) ==
  /\ "evict" \in Allowed
  /\ u \in Resident
  /\ lru' = RemoveFirst(lru, u)
  /\ bytes_used' = bytes_used - Size[u]
  /\ young' = young \ {u}
  /\ Unlink({u})
  /\ UNCHANGED <<inflight, call>>

\* MIN_RESIDENT_S passes for an entry.
Mature(u) ==
  /\ u \in young
  /\ young' = young \ {u}
  /\ UNCHANGED <<lru, bytes_used, inflight, fileVars, call>>

\* Somebody cleans up the tier directory by hand.
OperatorRemoves(u) ==
  /\ "operator" \in Allowed
  /\ u \in disk
  /\ disk' = disk \ {u}
  /\ stray' = stray \ {u}
  /\ removed' = removed \cup ({u} \cap Resident)
  /\ UNCHANGED <<residencyVars, inflight, call>>

\* The process restarts: its tables are empty, its files stay.
Restart ==
  /\ "restart" \in Allowed
  /\ lru' = <<>> /\ young' = {} /\ bytes_used' = 0
  /\ inflight' = [u \in Uris |-> NoThread]
  /\ call' = [t \in Threads |-> Idle]
  /\ stray' = disk /\ removed' = {}
  /\ UNCHANGED disk

-----------------------------------------------------------------------------
InitiatorStep(t) ==
  \/ Download(t) \/ DownloadFails(t)
  \/ Admit(t) \/ SizeFails(t)
  \/ RejectPrewarm(t) \/ UnlinkRejected(t)
  \/ PopInflight(t) \/ SetEvent(t)

Proceed(t) == Register(t) \/ InitiatorStep(t) \/ Wake(t) \/ Resume(t)

Next ==
  \/ \E t \in Threads :
       \/ \E op \in Ops, u \in Uris : Call(t, op, u)
       \/ Proceed(t)
       \/ WaitTimesOut(t)
  \/ \E u \in Uris : evict(u) \/ Mature(u) \/ OperatorRemoves(u)
  \/ Restart

Spec == Init /\ [][Next]_vars

-----------------------------------------------------------------------------
(* Properties *)

InitiatorPcs == {"get", "admit", "reject", "pop"}
Initiates(t, u) == call[t].pc \in InitiatorPcs /\ call[t].uri = u

Calls ==
  {Idle}
    \cup [pc : {"miss", "get", "admit", "reject", "woken", "open"}, op : Ops, uri : Uris]
    \cup [pc : {"wait"}, op : Ops, uri : Uris, on : Threads]
    \cup [pc : {"pop", "set", "raised"}, op : Ops, uri : Uris, out : Outcomes]

\* Types of the tier's variables; only resident entries have an admission time.
TypeOK ==
  /\ lru \in Seq(Uris)
  /\ young \subseteq Resident
  /\ bytes_used \in Nat
  /\ inflight \in [Uris -> Threads \cup {NoThread}]
  /\ disk \subseteq Uris /\ stray \subseteq disk /\ removed \subseteq Resident
  /\ call \in [Threads -> Calls]

\* A thread that had to wait for the registration locks never downloads a shard that
\* became resident meanwhile (the second look at the table in fetch and prewarm).
NoRedundantDownload ==
  \A t \in Threads : call[t].pc = "get" => ~Warm(call[t].uri)

\* _BYTES_USED is the size of what is resident, through evictions, re-admissions of an
\* entry whose file vanished, and rejections, and it is within the budget whenever
\* the lock is free.
BudgetHolds ==
  /\ Len(lru) = Cardinality(Resident)
  /\ bytes_used = Bytes(Resident)
  /\ bytes_used <= TierBytes

\* Table and directory agree: the file of a resident entry is there unless an operator
\* took it, and a file nobody accounts for is one on its way to admission or rejection,
\* or one that a restart or a failed unlink left behind.
FilesAccounted ==
  /\ Resident \subseteq disk \cup removed
  /\ disk \ (Resident \cup stray)
       \subseteq {call[t].uri : t \in {s \in Threads : call[s].pc \in {"admit", "reject"}}}

\* Nobody waits for nobody: whoever waits for a shard waits on a thread that is still at
\* work on that shard and has its event to set, on failures and rejections too.
WaitersAreOwed ==
  \A t \in Threads : call[t].pc = "wait" =>
    LET s == call[t].on IN
      call[s].pc \in InitiatorPcs \cup {"set"} /\ call[s].uri = call[t].uri

=============================================================================
