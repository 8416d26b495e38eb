---------------------------- MODULE LedgerWriters ----------------------------
(***************************************************************************)
(* What the tasks that write one session ledger rely on, whatever the      *)
(* entries say: the tree only grows at the leaf, an operation that fails   *)
(* takes back what it appended and nothing else, and the state of a        *)
(* background run stays on the branch that spawned it.                     *)
(*                                                                         *)
(* SessionTree implements this specification.                              *)
(***************************************************************************)
EXTENDS Naturals, Sequences

CONSTANTS
  Worker,   \* background runs
  Writer,   \* tasks that move the leaf
  Batch     \* the most entries that one operation appends

VARIABLES
  tree,     \* per entry: the run it is of, if any, and the entries from the root to it
  leaf,     \* the entry the session is at; 0 before the first
  batch,    \* per writer: what it would take back
  job       \* per run: whether it is attached, and its last entry

vars == <<tree, leaf, batch, job>>

Nothing == [open |-> FALSE, first |-> 0, size |-> 0, from |-> 0]

Init ==
  /\ tree = <<>> /\ leaf = 0
  /\ batch = [p \in Writer |-> Nothing]
  /\ job = [w \in Worker |-> [state |-> "unborn", entry |-> 0]]

Above(t, at) == IF at = 0 THEN {} ELSE t[at].above

\* t with n more entries, the first at its place under at and each of the others under
\* the one before.
Grown(t, at, n) ==
  [i \in 1 .. Len(t) + n |->
     IF i <= Len(t) THEN t[i]
     ELSE [of |-> {}, above |-> Above(t, at) \cup (Len(t) + 1 .. i)]]

\* n entries appended at the leaf.
Write(n) ==
  /\ leaf' = IF n = 0 THEN leaf ELSE Len(tree) + n
  /\ tree' = Grown(tree, leaf, n)

Captures ==
  /\ UNCHANGED <<batch, job>>
  /\ \E n \in 1 .. Batch : Write(n)

\* Appended by an operation that may still fail.
Begins(p) ==
  /\ ~batch[p].open
  /\ \E n \in 1 .. Batch :
        /\ batch' = [batch EXCEPT ![p] = [open |-> TRUE, first |-> Len(tree) + 1,
                                          size |-> n, from |-> leaf]]
        /\ Write(n)
  /\ UNCHANGED job

\* The session goes to another entry.
Branches(p) ==
  /\ ~batch[p].open
  /\ batch' = [batch EXCEPT ![p] = [open |-> TRUE, first |-> 0, size |-> 0, from |-> leaf]]
  /\ leaf' \in DOMAIN tree
  /\ UNCHANGED <<tree, job>>

\* The operation succeeds, or fails when it can no longer take anything back.
Ends(p) ==
  /\ batch[p].open
  /\ batch' = [batch EXCEPT ![p] = Nothing]
  /\ UNCHANGED <<tree, leaf, job>>

TakesBack(p) ==
  LET b == batch[p]
  IN  /\ b.open
      /\ b.size = 0 \/ Len(tree) = b.first + b.size - 1
      /\ b.from <= Len(tree)
      /\ batch' = [batch EXCEPT ![p] = Nothing]
      /\ tree' = SubSeq(tree, 1, Len(tree) - b.size)
      /\ leaf' = b.from
      /\ UNCHANGED job

\* A run whose last entry is no longer on the way to the leaf goes its own way.
Leaves(w) ==
  /\ job[w].state = "attached" /\ job[w].entry \notin Above(tree, leaf)
  /\ job' = [job EXCEPT ![w].state = "detached"]
  /\ UNCHANGED <<tree, leaf, batch>>

Persists(w) ==
  LET id == Len(tree) + 1
  IN  /\ \/ job[w].state = "unborn"
         \/ job[w].state = "attached" /\ job[w].entry \in Above(tree, leaf)
      /\ tree' = Append(tree, [of |-> {w}, above |-> Above(tree, leaf) \cup {id}])
      /\ leaf' = id
      /\ job' = [job EXCEPT ![w] = [state |-> "attached", entry |-> id]]
      /\ UNCHANGED batch

\* What a run is after a restart: attached where the conversation has it.
Found(w) ==
  \/ \E e \in Above(tree', leaf') :
       tree'[e].of = {w} /\ job'[w] = [state |-> "attached", entry |-> e]
  \/ job[w].state = "unborn" /\ job'[w] = job[w]
  \/ job'[w] = [state |-> "detached", entry |-> 0]

Restarts ==
  /\ batch' = [p \in Writer |-> Nothing]
  /\ \E n \in 0 .. Batch : Write(n)
  /\ job' \in [Worker -> [state : {"unborn", "attached", "detached"}, entry : 0 .. Len(tree')]]
  /\ \A w \in Worker : Found(w)

Next ==
  \/ Captures \/ Restarts
  \/ \E p \in Writer : Begins(p) \/ Branches(p) \/ Ends(p) \/ TakesBack(p)
  \/ \E w \in Worker : Leaves(w) \/ Persists(w)

Spec == Init /\ [][Next]_vars

-------------------------------------------------------------------------------
(* What every task may rely on. *)

\* The entries that a writer would take back.
Own(p) == {i \in DOMAIN tree : batch[p].open /\ i >= batch[p].first
                               /\ i < batch[p].first + batch[p].size}

\* No branch has a state of a run without the entry of its spawn: an entry of the run
\* never lands where the conversation does not have the run.
JobsOnTheirBranch ==
  \A w \in Worker : \A i \in DOMAIN tree : \A k \in 1 .. i :
    /\ tree[i].of = {w} /\ tree[k].of = {w}
    /\ \A n \in 1 .. k - 1 : tree[n].of # {w}
    => k \in tree[i].above

\* Whatever a failed operation takes back, what others have appended since stays in
\* the ledger, messages and job states alike.
OthersEntriesStay ==
  [][\A i \in DOMAIN tree :
       i \notin DOMAIN tree' => \E p \in Writer : i \in Own(p) /\ batch'[p] = Nothing]_vars

-------------------------------------------------------------------------------
(* Why: what every step keeps true. *)

TypeOK ==
  /\ tree \in Seq([of : SUBSET Worker, above : SUBSET Nat])
  /\ leaf \in 0 .. Len(tree)
  /\ batch \in [Writer -> [open : BOOLEAN, first : Nat, size : Nat, from : Nat]]
  /\ job \in [Worker -> [state : {"unborn", "attached", "detached"}, entry : Nat]]

\* The way to an entry is the way to each entry on it, and more.
Rooted ==
  \A i \in DOMAIN tree :
    /\ i \in tree[i].above /\ tree[i].above \subseteq 1 .. i
    /\ \A k \in tree[i].above : tree[k].above \subseteq tree[i].above

\* What would be taken back is there, is nobody else's, and the leaf was before it.
Disjoint ==
  \A p \in Writer : batch[p].open /\ batch[p].size > 0 =>
    /\ batch[p].from < batch[p].first
    /\ batch[p].first + batch[p].size <= Len(tree) + 1
    /\ \A i \in Own(p) : tree[i].of = {}
    /\ \A q \in Writer \ {p} : Own(p) \cap Own(q) = {}

\* A run's record of its last entry is right while it writes any.
JobsSound ==
  \A w \in Worker :
    /\ job[w].state = "unborn" => \A i \in DOMAIN tree : tree[i].of # {w}
    /\ job[w].state = "attached" => job[w].entry \in DOMAIN tree /\ tree[job[w].entry].of = {w}

Inductive == Rooted /\ Disjoint /\ JobsSound /\ JobsOnTheirBranch
===============================================================================
