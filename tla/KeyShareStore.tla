--------------------------- MODULE KeyShareStore ---------------------------
(***************************************************************************)
(* What a node's key share storage promises its callers: each slot (a key  *)
(* share or the key data of one key) holds what was last stored in it, a   *)
(* store, a get or a delete happens at one moment between its call and its *)
(* return or not at all, and what happened survives the process.           *)
(***************************************************************************)
CONSTANTS
    Calls,   \* calls of the storage, each in use at most once at a time
    Slots,   \* what can be stored, by key and kind
    Values,  \* plaintexts
    None     \* nothing stored

VARIABLES
    kept,    \* kept[s]: what slot s holds
    call     \* call[c]: operation, slot, value stored or read, and state

vars == <<kept, call>>

Idle == [op |-> "none", slot |-> None, value |-> None, state |-> "idle"]

Init ==
    /\ kept = [s \in Slots |-> None]
    /\ call = [c \in Calls |-> Idle]

Begin(c, op, s, v) ==
    /\ call[c] = Idle
    /\ call' = [call EXCEPT ![c] = [op |-> op, slot |-> s, value |-> v, state |-> "pending"]]
    /\ UNCHANGED kept

Pending(c, op) == call[c].op = op /\ call[c].state = "pending"

Store(c) ==
    /\ Pending(c, "store")
    /\ kept' = [kept EXCEPT ![call[c].slot] = call[c].value]
    /\ call' = [call EXCEPT ![c].state = "ok"]

Delete(c) ==
    /\ Pending(c, "delete")
    /\ kept' = [kept EXCEPT ![call[c].slot] = None]
    /\ call' = [call EXCEPT ![c].state = "ok"]

Get(c) ==
    /\ Pending(c, "get")
    /\ call' = [call EXCEPT ![c] = [op |-> "get", slot |-> call[c].slot,
                                    value |-> kept[call[c].slot], state |-> "ok"]]
    /\ UNCHANGED kept

Fail(c) ==
    /\ call[c].state = "pending"
    /\ call' = [call EXCEPT ![c].state = "failed"]
    /\ UNCHANGED kept

Return(c) ==
    /\ call[c].state \in {"ok", "failed"}
    /\ call' = [call EXCEPT ![c] = Idle]
    /\ UNCHANGED kept

\* The process stops: nobody waits for an answer any more.
Crash ==
    /\ call' = [c \in Calls |-> Idle]
    /\ UNCHANGED kept

Next ==
    \/ \E c \in Calls :
          \/ \E s \in Slots :
                \/ \E v \in Values : Begin(c, "store", s, v)
                \/ Begin(c, "get", s, None)
                \/ Begin(c, "delete", s, None)
          \/ Store(c)
          \/ Delete(c)
          \/ Get(c)
          \/ Fail(c)
          \/ Return(c)
    \/ Crash

Spec == Init /\ [][Next]_vars
=============================================================================
