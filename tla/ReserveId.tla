----------------------------- MODULE ReserveId -----------------------------
(***************************************************************************)
(* reserve_id of helpers.c: sessions that start recordings at the same time *)
(* pick the lowest free number of a directory and claim it by creating the  *)
(* file exclusively, again from the start when somebody else was faster.    *)
(*                                                                         *)
(* The directory is the set of the numbers its files are named after; other *)
(* names are skipped (helpers.c:32-35).  Nothing of the program removes a   *)
(* file.                                                                   *)
(***************************************************************************)
EXTENDS Integers, Sequences, FiniteSetsExt

CONSTANTS Callers,
          Existing,     \* recordings of earlier runs of the server
          MayFail,      \* open may fail with another error than EEXIST
          MaxCalls      \* bound: calls that return an id

ASSUME ReserveIdAssumption ==
  /\ Existing \subseteq Nat \ {0} /\ IsFiniteSet(Existing)
  /\ MayFail \in BOOLEAN /\ MaxCalls \in Nat

VARIABLES files,     \* numbers in the directory
          pc,        \* of each caller
          listed,    \* what the caller's listing holds so far, at least
          id,        \* the number it tries
          handed     \* history: the numbers returned, in order

reserve_vars == <<files, pc, listed, id, handed>>

ReserveInit ==
  /\ files = Existing
  /\ pc = [c \in Callers |-> "idle"]
  /\ listed = [c \in Callers |-> {}]
  /\ id = [c \in Callers |-> 0]
  /\ handed = <<>>

Calling == {c \in Callers : pc[c] # "idle"}

Call(c) ==
  /\ pc[c] = "idle" /\ Len(handed) + Cardinality(Calling) < MaxCalls
  /\ pc' = [pc EXCEPT ![c] = "open"]
  /\ UNCHANGED <<files, listed, id, handed>>

OpenDir(c) ==
  /\ pc[c] = "open"
  /\ listed' = [listed EXCEPT ![c] = files]
  /\ pc' = [pc EXCEPT ![c] = "read"]
  /\ UNCHANGED <<files, id, handed>>

\* The loop over the sorted numbers S, which goes past each that is the next id.
\* Faulty variant: the number after the last one.
FirstFree_Last(S) == IF S = {} THEN 1 ELSE Max(S) + 1
FirstFree(S) ==
  LET next[i \in 0 .. Cardinality(S)] ==
        IF i = 0 THEN 1
        ELSE IF next[i - 1] \in S THEN next[i - 1] + 1 ELSE next[i - 1]
  IN  next[Cardinality(S)]

\* A file that appears while the directory is read is listed or not.
ReadDir(c) ==
  /\ pc[c] = "read"
  /\ \E new \in SUBSET (files \ listed[c]) :
       id' = [id EXCEPT ![c] = FirstFree(listed[c] \cup new)]
  /\ pc' = [pc EXCEPT ![c] = "create"]
  /\ UNCHANGED <<files, listed, handed>>

\* Faulty variant: open without O_EXCL, which succeeds on an existing file.
Created_Shared(c) == TRUE
Created(c) == id[c] \notin files

Create(c) ==
  /\ pc[c] = "create" /\ Created(c)
  /\ files' = files \cup {id[c]}
  /\ handed' = Append(handed, id[c])
  /\ pc' = [pc EXCEPT ![c] = "idle"]
  /\ UNCHANGED <<listed, id>>

\* EEXIST: list the directory again.
\* Faulty variant: try the same number again.
Retry_Same(c) ==
  /\ pc[c] = "create" /\ id[c] \in files
  /\ pc' = [pc EXCEPT ![c] = "create"]
  /\ UNCHANGED <<files, listed, id, handed>>
Retry(c) ==
  /\ pc[c] = "create" /\ id[c] \in files
  /\ pc' = [pc EXCEPT ![c] = "open"]
  /\ UNCHANGED <<files, listed, id, handed>>

\* ERROR: the directory cannot be read, or the file not be created.
Fail(c) ==
  /\ MayFail /\ pc[c] \in {"read", "create"}
  /\ pc' = [pc EXCEPT ![c] = "idle"]
  /\ UNCHANGED <<files, listed, id, handed>>

Step(c) == OpenDir(c) \/ ReadDir(c) \/ Create(c) \/ Retry(c)

ReserveNext == \E c \in Callers : Call(c) \/ Step(c) \/ Fail(c)

ReserveSpec == ReserveInit /\ [][ReserveNext]_reserve_vars

\* A call that has begun runs on; it need not fail.
ReserveFairSpec == ReserveSpec /\ \A c \in Callers : WF_reserve_vars(Step(c))

----------------------------------------------------------------------------
(* Properties.                                                             *)

\* No id is handed out twice and none that a recording already has, however the
\* callers overlap: no recording overwrites another.
Unique ==
  \A i \in DOMAIN handed :
    /\ handed[i] \notin Existing
    /\ \A j \in DOMAIN handed : handed[i] = handed[j] => i = j

\* Everything handed out is in the directory.  (Strengthens Unique.)
UniqueInv ==
  /\ Unique
  /\ Existing \subseteq files
  /\ handed \in Seq(files)

\* An id is handed out only if every smaller one is taken: the ids of a
\* directory stay dense although the listing is stale when it is used.
Dense == \A i \in DOMAIN handed : 1 .. handed[i] \subseteq files

\* A listing, complete or not, is of files that stay there, so that all numbers below
\* the one it leads to are taken, then and later.  (Strengthens Dense.)
DenseInv ==
  /\ IsFiniteSet(files)
  /\ pc \in [Callers -> {"idle", "open", "read", "create"}]
  /\ listed \in [Callers -> SUBSET files]
  /\ id \in [Callers -> Nat]
  /\ \A c \in Callers : pc[c] = "create" => 1 .. id[c] - 1 \subseteq files
  /\ handed \in Seq(Nat) /\ Dense

\* A call returns: a retry means that another call has returned.
Returns == \A c \in Callers : pc[c] # "idle" ~> pc[c] = "idle"
=============================================================================
