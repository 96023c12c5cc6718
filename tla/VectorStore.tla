---------------------------- MODULE VectorStore ----------------------------
(***************************************************************************)
(* What the write path and the read path promise together, with no recall  *)
(* tier, shard, builder or sweep in sight: a store of versioned vectors in *)
(* which a write is visible as soon as it is acknowledged and an answer is *)
(* the content of the store at one moment of the read.                     *)
(***************************************************************************)
EXTENDS Integers

CONSTANTS Ids, Readers, NoAnswer

VARIABLES
  store,   \* the version each id shows, 0 when it shows nothing
  clock,   \* versions handed out
  answer   \* what each reader has read, NoAnswer when it has read nothing

vars == <<store, clock, answer>>

Init ==
  /\ store = [i \in Ids |-> 0]
  /\ clock = 0
  /\ answer = [r \in Readers |-> NoAnswer]

\* Every id of the batch gets a version of its own, newer than all before.
Put(batch) ==
  /\ clock' \in Nat /\ clock' > clock
  /\ store' \in [Ids -> Nat]
  /\ \A i \in Ids : IF i \in batch THEN store'[i] \in (clock + 1)..clock'
                                    ELSE store'[i] = store[i]
  /\ \A i, j \in batch : store'[i] = store'[j] => i = j
  /\ UNCHANGED answer

Delete(i) ==
  /\ clock' = clock + 1
  /\ store' = [store EXCEPT ![i] = 0]
  /\ UNCHANGED answer

Read(r) ==
  /\ answer' = [answer EXCEPT ![r] = store]
  /\ UNCHANGED <<store, clock>>

\* The answer is delivered, or the read is given up.
Done(r) ==
  /\ answer' = [answer EXCEPT ![r] = NoAnswer]
  /\ UNCHANGED <<store, clock>>

Next ==
  \/ \E batch \in (SUBSET Ids) \ {{}} : Put(batch)
  \/ \E i \in Ids : Delete(i)
  \/ \E r \in Readers : Read(r) \/ Done(r)

Spec == Init /\ [][Next]_vars
=============================================================================
