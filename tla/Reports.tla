------------------------------ MODULE Reports ------------------------------
(***************************************************************************)
(* Machines with the report of fatal errors: of what a user may not do,    *)
(* and of internal checks that fail (these print a dump of the VM).  The   *)
(* report uses one variable of the process, zmg_err: zm_fatalInit takes    *)
(* the lock of the host and nobody releases it, the process exits.         *)
(*                                                                         *)
(* The dump may find another error and report it; the lock of the host has *)
(* to be one that its owner can take again (zm_tlock_cb is the host's).    *)
(***************************************************************************)
EXTENDS Machines

VARIABLES
    err,     \* zmg_err: the VM, whether nothing was reported yet (first), and
             \* how often zm_fatalInit and the callback of the host were called
    kind,    \* the kind of error that a thread reports
    exited   \* whether the process has ended

vars == <<mvars, err, kind, exited>>

MaxInits == 3   \* bound on the calls of zm_fatalInit

RInit ==
    /\ Init
    /\ err = [vm |-> NULL, first |-> TRUE, inits |-> 0, triggered |-> 0]
    /\ kind = [v \in Thread |-> "none"]
    /\ exited = FALSE

Reports(v, k) ==
    /\ kind' = [kind EXCEPT ![v] = k]
    /\ Goto(v, "fatalInit")

(* A call or a yield that is not allowed, or a failed internal check. *)
Fatal(v) ==
    /\ User(v)
    /\ Reports(v, "user") \/ Reports(v, "internal")
    /\ UNCHANGED <<id, mcounter, lock, vm, call, counted, err, exited>>

(* zm_freeVM of a VM that has tasks. *)
FreeVMRefused(v) ==
    /\ Idle(v) /\ DOMAIN vm[v].tasks # {}
    /\ Reports(v, "user")
    /\ UNCHANGED <<id, mcounter, lock, vm, call, counted, err, exited>>

(* A constructor that does not yield zmDONE, found after the session of    *)
(* who created the task is back.                                           *)
InitRefused(v) ==
    /\ User(v) /\ ~Idle(v) /\ Running(v).kind = "init"
    /\ vm' = [vm EXCEPT ![v] = Restored(v)]
    /\ Reports(v, "user")
    /\ UNCHANGED <<id, mcounter, lock, call, counted, err, exited>>

FatalInit_NoLock(v) ==
    /\ pc[v] = "fatalInit"
    /\ err.inits < MaxInits
    /\ err' = [err EXCEPT !.vm = v, !.inits = @ + 1]
    /\ Goto(v, "fatalDo")
    /\ UNCHANGED <<id, mcounter, lock, vm, call, counted, kind, exited>>

FatalInit(v) ==
    /\ pc[v] = "fatalInit" /\ lock \in {NULL, v}
    /\ err.inits < MaxInits
    /\ lock' = v
    /\ err' = [err EXCEPT !.vm = v, !.inits = @ + 1]
    /\ Goto(v, "fatalDo")
    /\ UNCHANGED <<id, mcounter, vm, call, counted, kind, exited>>

FatalDo_StaysFirst(v) ==
    /\ pc[v] = "fatalDo"
    /\ err' = [err EXCEPT !.triggered = @ + 1]
    /\ IF kind[v] # "user" THEN Goto(v, "dump") /\ UNCHANGED exited
       ELSE exited' = TRUE /\ UNCHANGED pc
    /\ UNCHANGED <<id, mcounter, lock, vm, call, counted, kind>>

(* zm_fatalDo: the error is printed and, if it is the first one, the       *)
(* callback of zm_atFatal called.                                          *)
FatalDo(v) ==
    /\ pc[v] = "fatalDo"
    /\ err' = [err EXCEPT !.first = FALSE,
                          !.triggered = IF err.first THEN @ + 1 ELSE @]
    /\ IF err.first /\ kind[v] = "internal"
       THEN Goto(v, "dump") /\ UNCHANGED exited
       ELSE exited' = TRUE /\ UNCHANGED pc
    /\ UNCHANGED <<id, mcounter, lock, vm, call, counted, kind>>

(* zm_printVM, after which the error is printed again; or it finds another *)
(* error (ZM_FATAL_U2) and does not return.                                *)
FatalPrintDump(v) ==
    /\ pc[v] = "dump"
    /\ \/ exited' = TRUE /\ UNCHANGED <<pc, kind>>
       \/ Reports(v, "dump") /\ UNCHANGED exited
    /\ UNCHANGED <<id, mcounter, lock, vm, call, counted, err>>
----------------------------------------------------------------------------
Report(v) == FatalInit(v) \/ FatalDo(v) \/ FatalPrintDump(v)

Next ==
    /\ ~exited
    /\ \E v \in Thread :
          \/ (Calls(v) \/ Library(v)) /\ UNCHANGED <<err, kind, exited>>
          \/ Fatal(v) \/ FreeVMRefused(v) \/ InitRefused(v) \/ Report(v)

Spec == RInit /\ [][Next]_vars
----------------------------------------------------------------------------
(* Properties. *)

Printing == {"fatalDo", "dump"}

(* Type invariant. *)
TypeOK ==
    /\ MachinesTypeOK
    /\ pc \in [Thread -> Places \cup Printing \cup {"fatalInit"}]
    /\ err.vm \in Thread \cup {NULL} /\ err.inits \in 0..MaxInits
    /\ kind \in [Thread -> {"none", "user", "internal", "dump"}]
    /\ exited \in BOOLEAN

(* While a thread prints an error, zmg_err is about its VM and no other    *)
(* thread prints.                                                          *)
ReportsAreWhole ==
    \A v \in Thread : pc[v] \in Printing =>
        err.vm = v /\ \A u \in Thread \ {v} : pc[u] \notin Printing

(* "The second fatal must print error and exit suddenly" (zm.c:638): the   *)
(* dump of a broken VM does not begin another dump, and the callback of    *)
(* the host is called once.                                                *)
SecondErrorIsLast == err.inits <= 2 /\ err.triggered <= 1

(* Nobody waits for ever for the lock: the thread that has it is giving an *)
(* id, and will release it, or reports an error, and the process will end. *)
(* It never waits itself, and is never back in the code of the user.       *)
HolderGoesOn ==
    lock # NULL => pc[lock] \in {"init", "count", "unlock", "fatalInit"} \cup Printing
=============================================================================
