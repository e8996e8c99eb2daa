-------------------------- MODULE KeyShareStorage --------------------------
(***************************************************************************)
(* FileSystemKeyShareStorage: the files of one node's key share storage,   *)
(* at the granularity of system calls, while calls overlap, system calls   *)
(* fail and the process stops at any point and comes back.  A file is what *)
(* decrypting it gives; one that was not written to its end is Torn, and   *)
(* GCM refuses it.  A power failure, which could also lose a rename, is    *)
(* not considered: the code does not sync.                                 *)
(***************************************************************************)
CONSTANTS
    Calls,   \* goroutines that use the storage
    Keys,    \* key IDs, each a directory
    Values,  \* plaintexts
    None,    \* no file
    Torn     \* a file that does not decrypt

ASSUME ValuesAssumption ==
    /\ None \notin Values
    /\ Torn \notin Values \cup {None}

\* A node's two files in a key's directory: nodeID.enc and nodeID.keydata.enc.
Slots == Keys \X {"share", "keydata"}
DirOf(s) == s[1]

VARIABLES
    dirs,    \* directories that exist
    file,    \* file[s]: the file at the slot's path
    tmp,     \* tmp[s]: the file at that path with .tmp appended
    call     \* call[c]: operation, slot, value and the next system call

vars == <<dirs, file, tmp, call>>

Idle == [op |-> "none", slot |-> None, value |-> None, state |-> "idle"]

Init ==
    /\ dirs = {}
    /\ file = [s \in Slots |-> None]
    /\ tmp = [s \in Slots |-> None]
    /\ call = [c \in Calls |-> Idle]

At(c, op, state) == call[c].op = op /\ call[c].state = state
Goto(c, state)   == call' = [call EXCEPT ![c].state = state]

Begin(c, op, s, v, state) ==
    /\ call[c] = Idle
    /\ call' = [call EXCEPT ![c] = [op |-> op, slot |-> s, value |-> v, state |-> state]]
    /\ UNCHANGED <<dirs, file, tmp>>

-----------------------------------------------------------------------------
(* StoreKeyShare and StoreKeyData                                          *)

\* One goroutine at a time stores to a path: the DKG of a key runs in the function
\* of a sync.Once, and stores key data and share one after the other.
BeginStore(c, s, v) ==
    /\ \A d \in Calls : call[d].op = "store" => call[d].slot # s
    /\ Begin(c, "store", s, v, "mkdir")

\* Fault: the file's path is made a directory.
MkdirAllOfFile(c) ==
    /\ At(c, "store", "mkdir")
    /\ dirs' = dirs \cup {call[c].slot}
    /\ Goto(c, "open")
    /\ UNCHANGED <<file, tmp>>

MkdirAll(c) ==
    /\ At(c, "store", "mkdir")
    /\ dirs' = dirs \cup {DirOf(call[c].slot)}
    /\ Goto(c, "open")
    /\ UNCHANGED <<file, tmp>>

\* Fault: the file is written in place.
WriteFileInPlace(c) ==
    /\ At(c, "store", "open")
    /\ DirOf(call[c].slot) \in dirs
    /\ file' = [file EXCEPT ![call[c].slot] = Torn]
    /\ tmp' = [tmp EXCEPT ![call[c].slot] = Torn]
    /\ Goto(c, "write")
    /\ UNCHANGED dirs

\* os.WriteFile creates or truncates the temporary file ...
OpenTemp(c) ==
    /\ At(c, "store", "open")
    /\ DirOf(call[c].slot) \in dirs
    /\ tmp' = [tmp EXCEPT ![call[c].slot] = Torn]
    /\ Goto(c, "write")
    /\ UNCHANGED <<dirs, file>>

\* ... and fills it.
WriteTemp(c) ==
    /\ At(c, "store", "write")
    /\ tmp' = [tmp EXCEPT ![call[c].slot] = call[c].value]
    /\ Goto(c, "rename")
    /\ UNCHANGED <<dirs, file>>

Rename(c) ==
    LET s == call[c].slot IN
    /\ At(c, "store", "rename")
    /\ file' = [file EXCEPT ![s] = tmp[s]]
    /\ tmp' = [tmp EXCEPT ![s] = None]
    /\ Goto(c, "ok")
    /\ UNCHANGED dirs

-----------------------------------------------------------------------------
(* GetKeyShare and GetKeyData                                              *)

BeginGet(c, s) == Begin(c, "get", s, None, "read")

\* A file that was opened stays as it is when another takes its name.
ReadFile(c) ==
    /\ At(c, "get", "read")
    /\ file[call[c].slot] # Torn
    /\ call' = [call EXCEPT ![c] = [op |-> "get", slot |-> call[c].slot,
                                    value |-> file[call[c].slot], state |-> "ok"]]
    /\ UNCHANGED <<dirs, file, tmp>>

-----------------------------------------------------------------------------
(* DeleteKeyShare: the share, then the directory if nothing is in it       *)

BeginDelete(c, s) ==
    /\ s[2] = "share"
    /\ Begin(c, "delete", s, None, "remove")

Remove(c) ==
    /\ At(c, "delete", "remove")
    /\ file' = [file EXCEPT ![call[c].slot] = None]
    /\ Goto(c, IF file[call[c].slot] = None THEN "ok" ELSE "readdir")
    /\ UNCHANGED <<dirs, tmp>>

Empty(d) == \A s \in Slots : DirOf(s) = d => file[s] = None /\ tmp[s] = None

Readdirnames(c) ==
    /\ At(c, "delete", "readdir")
    /\ Goto(c, IF Empty(DirOf(call[c].slot)) THEN "rmdir" ELSE "ok")
    /\ UNCHANGED <<dirs, file, tmp>>

\* os.Remove does not remove a directory that has got a file since.
RemoveDir(c) ==
    LET d == DirOf(call[c].slot) IN
    /\ At(c, "delete", "rmdir")
    /\ dirs' = IF Empty(d) THEN dirs \ {d} ELSE dirs
    /\ Goto(c, "ok")
    /\ UNCHANGED <<file, tmp>>

-----------------------------------------------------------------------------
\* A system call fails, or what was read does not decrypt.  DeleteKeyShare does not
\* look at errors once the file is gone.
Fail(c) ==
    /\ call[c].state \in {"mkdir", "open", "write", "rename", "read", "remove"}
    /\ Goto(c, "failed")
    /\ UNCHANGED <<dirs, file, tmp>>

Return(c) ==
    /\ call[c].state \in {"ok", "failed"}
    /\ call' = [call EXCEPT ![c] = Idle]
    /\ UNCHANGED <<dirs, file, tmp>>

\* The process stops and comes back; the disk is what it was.
Crash ==
    /\ call' = [c \in Calls |-> Idle]
    /\ UNCHANGED <<dirs, file, tmp>>

Step(c) ==
    \/ \E s \in Slots :
          \/ \E v \in Values : BeginStore(c, s, v)
          \/ BeginGet(c, s)
          \/ BeginDelete(c, s)
    \/ MkdirAll(c) \/ OpenTemp(c) \/ WriteTemp(c) \/ Rename(c)
    \/ ReadFile(c)
    \/ Remove(c) \/ Readdirnames(c) \/ RemoveDir(c)
    \/ Fail(c)
    \/ Return(c)

Next == Crash \/ \E c \in Calls : Step(c)

Spec == Init /\ [][Next]_vars

-----------------------------------------------------------------------------
(* Properties                                                              *)

States == {"idle", "mkdir", "open", "write", "rename", "read", "remove", "readdir", "rmdir",
           "ok", "failed"}

TypeOK ==
    /\ dirs \subseteq Keys
    /\ file \in [Slots -> Values \cup {None, Torn}]
    /\ tmp \in [Slots -> Values \cup {None, Torn}]
    /\ call \in [Calls -> [op : {"none", "store", "get", "delete"}, slot : Slots \cup {None},
                           value : Values \cup {None}, state : States]]

\* What the callers see of a call: it waits for its effect or it has had it.
SeenState(state) ==
    CASE state \in {"idle", "ok", "failed"} -> state
      [] state \in {"readdir", "rmdir"}     -> "ok"
      [] OTHER                              -> "pending"

AsSeen(k) == [k EXCEPT !.state = SeenState(k.state)]

Promise == INSTANCE KeyShareStore
    WITH kept <- [s \in Slots |-> IF file[s] = Torn THEN None ELSE file[s]],
         call <- [c \in Calls |-> AsSeen(call[c])]

\* key_share_storage.go:122 (a temporary file and an atomic rename): through files
\* and system calls that fail, overlap or stop half-way, the storage is the store of
\* KeyShareStore: what a slot held is never lost to a store that does not complete,
\* no get sees half of one, and removing a share's directory takes nothing with it.
IsAStore == Promise!Spec
=============================================================================
