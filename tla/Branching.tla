----------------------------- MODULE Branching ------------------------------
(***************************************************************************)
(* The branching dialog of Day 10 (src/app/services/day10: models.py, the  *)
(* BranchingStrategy of strategies.py, service.py): one conversation tree  *)
(* for all clients.  Messages belong to one branch each; what a branch     *)
(* shows is its parent's history up to a checkpoint and then its own.      *)
(*                                                                         *)
(* A turn is built from the active branch, waits for the provider, and is  *)
(* recorded on the branch that is active by then.  Identifiers are random  *)
(* and never repeat: branches are numbered in the order of creation.       *)
(***************************************************************************)
EXTENDS Integers, Sequences

CONSTANTS Requests,          \* chat requests; bounds the number of turns
          MaxBranches,       \* bound: branches made since the start, roots included
          SeedLength,        \* the common prefix of the demo
          NoBranch, NoMessage

\* Assumed of the constants by the runs and the theorems.
BranchingAssumption ==
    /\ MaxBranches \in Nat \ {0}
    /\ SeedLength \in Nat
    /\ NoBranch \notin Nat
    /\ "seed" \notin Requests
    /\ NoMessage \notin [by : Requests \cup {"seed"}, number : Nat]

VARIABLES branches,          \* Conversation.branches: parent and checkpoint, by branch
          messages,          \* Conversation.messages
          active,            \* Conversation.active_branch_id
          made,              \* how many branches there have been
          request            \* what each chat request is doing

vars == <<branches, messages, active, made, request>>

BranchIds == 1 .. MaxBranches

Id == [by : Requests \cup {"seed"}, number : Nat]
BranchMessage == [id : Id, branch : BranchIds]
Branch == [parent : BranchIds \cup {NoBranch}, checkpoint : Id \cup {NoMessage}]
Root == [parent |-> NoBranch, checkpoint |-> NoMessage]

Init ==
    /\ branches = [b \in {1} |-> Root]
    /\ messages = <<>>
    /\ active = 1
    /\ made = 1
    /\ request = [r \in Requests |-> [phase |-> "idle", branch |-> 1]]

----------------------------------------------------------------------------
(* What a branch shows.                                                    *)

\* The messages of a list that are of a branch itself.
Own(list, branch) ==
    LET own[i \in 0 .. Len(list)] ==
            IF i = 0 THEN <<>>
            ELSE IF list[i].branch = branch THEN Append(own[i - 1], list[i])
            ELSE own[i - 1]
    IN  own[Len(list)]

HasMessage(history, id) == \E i \in 1 .. Len(history) : history[i].id = id

PositionOf(history, id) == CHOOSE i \in 1 .. Len(history) : history[i].id = id

\* A parent's history as far as the checkpoint, or all of it without one.
UpTo(history, checkpoint) ==
    IF HasMessage(history, checkpoint)
    THEN SubSeq(history, 1, PositionOf(history, checkpoint))
    ELSE history

\* _full_history of every branch of a tree; a parent is older than its children.
Histories(tree, list) ==
    LET h[b \in DOMAIN tree] ==
            IF tree[b].parent = NoBranch THEN Own(list, b)
            ELSE UpTo(h[tree[b].parent], tree[b].checkpoint) \o Own(list, b)
    IN  h

\* _inherited_prefix.
Inherited(tree, list, b) ==
    IF tree[b].parent = NoBranch THEN <<>>
    ELSE UpTo(Histories(tree, list)[tree[b].parent], tree[b].checkpoint)

----------------------------------------------------------------------------
(* Branches.                                                               *)

HistoryOf(b) == Histories(branches, messages)[b]

\* A checkpoint must be in the history of the parent.
CheckpointAllowed(parent, checkpoint) ==
    checkpoint = NoMessage \/ HasMessage(HistoryOf(parent), checkpoint)

\* Without one the branch starts after the parent's last message, if any.
CheckpointOr(parent, checkpoint) ==
    LET history == HistoryOf(parent)
    IN  IF checkpoint = NoMessage /\ history # <<>> THEN history[Len(history)].id
        ELSE checkpoint

\* Mutant: a checkpoint is kept per parent, so that a new branch moves the one
\* of its siblings.
CreateBranchShared(parent, checkpoint) ==
    /\ made < MaxBranches
    /\ parent \in DOMAIN branches
    /\ CheckpointAllowed(parent, checkpoint)
    /\ made' = made + 1
    /\ LET new == [parent |-> parent, checkpoint |-> CheckpointOr(parent, checkpoint)]
       IN  branches' = [b \in DOMAIN branches \cup {made + 1} |->
                            IF b = made + 1 \/ branches[b].parent = parent THEN new
                            ELSE branches[b]]
    /\ active' = made + 1
    /\ UNCHANGED <<messages, request>>

\* A parent that is not named is the active branch.  The new branch becomes
\* the active one.
CreateBranch(parent, checkpoint) ==
    /\ made < MaxBranches
    /\ parent \in DOMAIN branches
    /\ CheckpointAllowed(parent, checkpoint)
    /\ made' = made + 1
    /\ LET new == [parent |-> parent, checkpoint |-> CheckpointOr(parent, checkpoint)]
       IN  branches' = [b \in DOMAIN branches \cup {made + 1} |->
                            IF b = made + 1 THEN new ELSE branches[b]]
    /\ active' = made + 1
    /\ UNCHANGED <<messages, request>>

Activate(branch) ==
    /\ branch \in DOMAIN branches
    /\ active' = branch
    /\ UNCHANGED <<branches, messages, made, request>>

\* The in-flight turns stay: they will be recorded in the new conversation.
Reset ==
    /\ made < MaxBranches
    /\ made' = made + 1
    /\ branches' = [b \in {made + 1} |-> Root]
    /\ messages' = <<>>
    /\ active' = made + 1
    /\ UNCHANGED request

\* seed_branching_demo: a common prefix and two branches from its end, the
\* first of them active.
SeedDemo ==
    /\ made + 3 <= MaxBranches
    /\ LET root == made + 1
           end == IF SeedLength = 0 THEN NoMessage
                  ELSE [by |-> "seed", number |-> SeedLength]
           fork == [parent |-> root, checkpoint |-> end]
       IN  /\ branches' = [b \in root .. made + 3 |-> IF b = root THEN Root ELSE fork]
           /\ messages' = [i \in 1 .. SeedLength |->
                            [id |-> [by |-> "seed", number |-> i], branch |-> root]]
           /\ active' = made + 2
    /\ made' = made + 3
    /\ UNCHANGED request

----------------------------------------------------------------------------
(* A turn.                                                                 *)

\* chat: branch_id, when given, is activated first and stays active even if
\* the provider fails.
Chat(r, branch) ==
    /\ request[r].phase = "idle"
    /\ branch \in DOMAIN branches
    /\ active' = branch
    /\ request' = [request EXCEPT ![r] = [phase |-> "asking", branch |-> branch]]
    /\ UNCHANGED <<branches, messages, made>>

TurnOf(r, branch) ==
    <<[id |-> [by |-> r, number |-> 1], branch |-> branch],
      [id |-> [by |-> r, number |-> 2], branch |-> branch]>>

RecordTurn(r) ==
    /\ request[r].phase = "asking"
    /\ messages' = messages \o TurnOf(r, active)
    /\ request' = [request EXCEPT ![r].phase = "done"]
    /\ UNCHANGED <<branches, active, made>>

ChatFails(r) ==
    /\ request[r].phase = "asking"
    /\ request' = [request EXCEPT ![r].phase = "failed"]
    /\ UNCHANGED <<branches, messages, active, made>>

Checkpoints == {NoMessage} \cup {messages[i].id : i \in 1 .. Len(messages)}

Next ==
    \/ \E parent \in BranchIds : \E checkpoint \in Checkpoints :
          CreateBranch(parent, checkpoint)
    \/ \E branch \in BranchIds : Activate(branch)
    \/ Reset
    \/ SeedDemo
    \/ \E r \in Requests, branch \in BranchIds : Chat(r, branch)
    \/ \E r \in Requests : RecordTurn(r) \/ ChatFails(r)

Spec == Init /\ [][Next]_vars

----------------------------------------------------------------------------
(* Properties.                                                             *)

TypeOK ==
    /\ DOMAIN branches \subseteq BranchIds
    /\ \A b \in DOMAIN branches : branches[b] \in Branch
    /\ messages \in Seq(BranchMessage)
    /\ active \in DOMAIN branches
    /\ made \in BranchIds
    /\ \A r \in Requests :
          /\ request[r].phase \in {"idle", "asking", "done", "failed"}
          /\ request[r].branch \in BranchIds

\* The branches form a tree with one root, every message is on a branch of
\* the tree, and a checkpoint is in what its branch inherits, where it is the
\* last message.
ConversationIsTree ==
    /\ \A b \in DOMAIN branches :
          LET branch == branches[b]
          IN  IF branch.parent = NoBranch THEN \A c \in DOMAIN branches : b <= c
              ELSE /\ branch.parent \in DOMAIN branches /\ branch.parent < b
                   /\ branch.checkpoint # NoMessage =>
                          LET inherited == Inherited(branches, messages, b)
                          IN  /\ inherited # <<>>
                              /\ inherited[Len(inherited)].id = branch.checkpoint
    /\ \A i \in 1 .. Len(messages) : messages[i].branch \in DOMAIN branches

\* Turns are recorded whole: question and answer side by side on one branch,
\* and no branch shows a message twice, whatever was activated, created or
\* reset while the provider was answering.
TurnsStayWhole ==
    \A b \in DOMAIN branches :
        LET own == Own(messages, b)
        IN  /\ Len(own) % 2 = 0 \/ own[1].id.by = "seed"
            /\ \A i \in 1 .. Len(own) :
                  own[i].id.by # "seed" /\ own[i].id.number = 1 =>
                      i < Len(own) /\ own[i + 1].id = [own[i].id EXCEPT !.number = 2]
            /\ \A i, j \in 1 .. Len(HistoryOf(b)) :
                  HistoryOf(b)[i].id = HistoryOf(b)[j].id => i = j

\* Anchored: made from a checkpoint, like all its ancestors but the root.
Anchored(tree, b) ==
    \E line \in SUBSET DOMAIN tree :
        /\ b \in line
        /\ \A c \in line : \/ tree[c].parent = NoBranch
                           \/ tree[c].checkpoint # NoMessage /\ tree[c].parent \in line

\* An anchored branch never sees what its parent or a sibling gets later:
\* what it inherits is fixed for as long as it exists.  (A branch made while
\* its parent was empty has no checkpoint and shows all the parent ever gets.)
PastIsFixed ==
    [][\A b \in DOMAIN branches \cap DOMAIN branches' :
          Anchored(branches, b) =>
              Inherited(branches', messages', b) = Inherited(branches, messages, b)]_vars
=============================================================================
