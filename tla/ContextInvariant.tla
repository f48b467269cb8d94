-------------------------- MODULE ContextInvariant --------------------------
(***************************************************************************)
(* The inductive invariant of Context: what a tree of tasks is between two *)
(* steps, when no subtask resumes one that is not its child.               *)
(*                                                                         *)
(* It speaks of chains of callers, of branches and of the order in which   *)
(* what closes will end, and none of these is finite by itself.  Labels of *)
(* the tasks stand for them: from a task to the next one                   *)
(*     d   grows from a parent to its children,                            *)
(*     r   is the root, the ptask of the context,                          *)
(*     b   is the head of the continue block that a task is in, or NULL,   *)
(*     p   grows along the callers of what closes, and up its tree.        *)
(* N bounds d and p.  A tree is good when some labels fit it.              *)
(***************************************************************************)
EXTENDS Context

Pmode == {"ABSENT", "NORMAL", "CLOSE", "ASYNC", "END", "OFF"}

(* The trees without an error. *)
Trees == [pmode    : [Task -> Pmode],
          parent   : [Task -> Task \cup {NULL}],
          ring     : [Task \cup {NULL} -> Seq(Task)],
          caller   : [Task -> Task \cup {NULL}],
          run      : SUBSET Task,
          waiting  : SUBSET Task,
          bound    : SUBSET Task,
          autofree : SUBSET Task,
          mark     : SUBSET Task,
          catch    : [Task -> {"none", "catch", "reset"}],
          exc      : [Task -> ExcType],
          start    : [Task -> Task \cup {NULL}],
          fatal    : {OK}]

Normal(c)  == {t \in Task : c.pmode[t] = "NORMAL"}
Closing(c) == {t \in Task : c.pmode[t] \in {"CLOSE", "ASYNC", "END"}}
Heads(c)   == {t \in Normal(c) : c.exc[t].kind = "HEAD"}

(* The tasks to which an exception comes. *)
Pending(c) == {t \in Task : c.exc[t].kind \in {"ABORT", "CONTINUE"}}

(* The tasks that have control. *)
Tokens(c)  == (c.run \cap Live(c)) \cup c.bound

Active(c)  == c.run \cup c.waiting

(* Each element of q is related by R to those after it. *)
Sorted(q, R) == \A i, j \in DOMAIN q : i < j => <<q[i], q[j]>> \in R

Different == {p \in Task \X Task : p[1] # p[2]}
----------------------------------------------------------------------------
(* Rings and parents agree. *)
Tree(c, d) ==
    /\ d \in [Task -> Nat]
    /\ c.parent \in [Task -> Task \cup {NULL}]
    /\ \A u \in Task \cup {NULL} : c.ring[u] \in Seq(Task)
    /\ \A u \in Task \cup {NULL} : Sorted(c.ring[u], Different)
    /\ \A u \in Task \cup {NULL} : ToSet(c.ring[u]) = {t \in Live(c) : c.parent[t] = u}
    /\ \A t \in Live(c) : c.parent[t] # NULL =>
          c.parent[t] \in Live(c) /\ d[c.parent[t]] < d[t]

(* What is below a closing task closes. *)
RootOK(c, d, r, N) ==
    /\ \A t \in Task : d[t] <= N
    /\ \A t \in Live(c) : r[t] \in Live(c) /\ c.parent[r[t]] = NULL
    /\ \A t \in Live(c) : r[t] = IF c.parent[t] = NULL THEN t ELSE r[c.parent[t]]
    /\ \A t \in Live(c) : c.parent[t] \in Closing(c) => t \in Closing(c)

(* Who has ended leaves nothing behind, and its memory even less. *)
GoneOK(c) ==
    /\ \A t \in Task \ Live(c) :
          /\ c.caller[t] = NULL /\ c.start[t] = NULL
          /\ t \notin c.waiting /\ c.exc[t] = NoExc
    /\ \A t \in Task : c.pmode[t] = "ABSENT" =>
          t \notin c.run \cup c.autofree \cup c.mark /\ c.catch[t] = "none"

(* One task of a context has control; a context where somebody has it, or  *)
(* closes, is not suspended.                                               *)
RunOK(c, r) ==
    /\ c.run \cap c.waiting = {}
    /\ c.bound \subseteq c.waiting \cap Normal(c)
    /\ \A t, u \in Tokens(c) : r[t] = r[u] => t = u
    /\ \A t \in Tokens(c) \cup Closing(c) : r[t] \in Closing(c) \cup Active(c)

(* A caller waits, for one task of its context; in normal mode it is the   *)
(* parent of who is active, but for the heads of continue blocks.          *)
CallOK(c, r) ==
    /\ \A t \in Live(c) : c.caller[t] # NULL =>
          c.caller[t] \in Live(c) \ c.bound /\ r[c.caller[t]] = r[t]
    /\ \A t \in Live(c) : c.caller[t] \in Normal(c) => c.caller[t] \in c.waiting
    /\ \A t \in Live(c) : c.caller[t] \in c.run => c.pmode[c.caller[t]] = "ASYNC"
    /\ \A t, u \in Live(c) : c.caller[t] = c.caller[u] /\ c.caller[t] # NULL => t = u
    /\ \A t \in Normal(c) :
          c.caller[t] = IF t \in Active(c) \ Heads(c) THEN c.parent[t] ELSE NULL

(* Who waits or closes, and has no control, is resumed by another task: as *)
(* its caller, as the start of an implosion, or when its block goes on.    *)
WakeOK(c) ==
    \A t \in (c.waiting \cup Closing(c)) \ (c.run \cup c.bound) :
       \/ \E u \in Live(c) : c.caller[u] = t
       \/ \E u \in Live(c) : c.start[u] = t
       \/ \E h \in Heads(c) : c.exc[h].raise = t

(* The tasks of a block wait, from the one that raised up to the head, and *)
(* nobody else resumes the one that raised.                                *)
BlockOK(c, r, b) ==
    /\ b \in [Task -> Task \cup {NULL}]
    /\ \A t \in Task : b[t] # NULL =>
          /\ t \in (Normal(c) \cap c.waiting) \ c.bound
          /\ b[t] \in Heads(c)
          /\ r[t] = r[b[t]]
          /\ c.parent[t] # NULL
    /\ \A h \in Heads(c) :
          /\ b[h] = h /\ c.exc[h].before = h
          /\ c.exc[h].raise \in Task /\ b[c.exc[h].raise] = h
          /\ \A u \in Live(c) : c.caller[u] # c.exc[h].raise
    /\ \A t \in Live(c) : c.caller[t] \in Normal(c) =>
          b[c.caller[t]] = IF t \in Normal(c) THEN b[t] ELSE NULL

(* Who is to catch an exception still says so, and runs, or waits for what *)
(* closes; a mark of zm_checkBusy stays on closing tasks only.             *)
ExcOK(c, r) ==
    /\ \A t \in Pending(c) : c.catch[t] = "catch"
    /\ \A t \in Normal(c) \cap Pending(c) : t \in c.run \/ \E k \in Closing(c) : c.caller[k] = t
    /\ \A t \in Closing(c) \cap Pending(c) : r[t] \in Closing(c) /\ c.pmode[t] # "END"
    /\ c.mark \cap Normal(c) = {}
    /\ \A t \in Live(c) : c.catch[t] = "reset" => c.parent[t] # NULL

(* What closes ends in the order of p, leaves first.  While it does, no    *)
(* task of the context in normal mode has control; if the root stays, one  *)
(* closing task alone has a parent that stays, and it resumes the catcher. *)
CloseOK(c, r, p, N) ==
    /\ p \in [Task -> Nat] /\ \A t \in Task : p[t] <= N
    /\ \A t \in Tokens(c) \cap Normal(c), k \in Closing(c) : r[k] # r[t]
    /\ \A k \in Closing(c) : /\ c.caller[k] \in Closing(c) => p[k] < p[c.caller[k]]
                             /\ c.parent[k] \in Closing(c) => p[k] < p[c.parent[k]]
    /\ \A t \in Task : c.pmode[t] = "END" => t \in c.run /\ c.ring[t] = <<>>
    /\ \A k \in Closing(c) : r[k] \notin Closing(c) =>
          c.caller[k] # NULL /\ (c.parent[k] \in Closing(c) <=> c.caller[k] \in Closing(c))
    /\ \A j, k \in Closing(c) :
          r[j] = r[k] /\ r[k] \notin Closing(c) /\ c.parent[j] \notin Closing(c) /\ c.parent[k] \notin Closing(c)
             => j = k

(* The task that ran when its context was aborted will resume the start of *)
(* the implosion, which nobody else does.                                  *)
StartOK(c, r) ==
    /\ \A t \in Live(c) : c.pmode[t] # "ASYNC" => c.start[t] = NULL
    /\ \A t \in Live(c) : c.pmode[t] = "ASYNC" =>
          /\ t \in c.run
          /\ c.start[t] \in Closing(c) /\ r[c.start[t]] = r[t]
          /\ \A u \in Live(c) : c.caller[u] # c.start[t]
          /\ c.start[t] # t => \E u \in Live(c) : c.caller[u] = t

Inv(c, d, r, b, p, N) ==
    /\ c \in Trees /\ N \in Nat
    /\ Tree(c, d) /\ RootOK(c, d, r, N) /\ GoneOK(c) /\ RunOK(c, r) /\ CallOK(c, r) /\ WakeOK(c)
    /\ BlockOK(c, r, b) /\ ExcOK(c, r) /\ CloseOK(c, r, p, N) /\ StartOK(c, r)

Good(c) == \E d, r, b, p, N : Inv(c, d, r, b, p, N)

ContextInv == Good(tree) /\ uncaught \in BOOLEAN /\ uses \in Programs

(* No program of the model lets a subtask resume one that is not its child. *)
(* With those that do, LeavesToRoot and BlocksWhole do not hold.            *)
NoSiblings == \A q \in Programs : "sibling" \notin q
=============================================================================
