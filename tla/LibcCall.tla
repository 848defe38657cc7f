------------------------------ MODULE LibcCall ------------------------------
(***************************************************************************)
(* runtime.libcCall (runtime/sys_libc.go) on one M, re-entered by signal  *)
(* handlers.  The goroutine's call runs statement by statement and a     *)
(* signal may arrive between any two of them.  A handler runs to the end *)
(* before the goroutine resumes, and all signals are blocked while it    *)
(* runs, so a handler's own libcCall and a profiling signal's read of    *)
(* m.libcallg/pc/sp are single steps.  Goroutines of G take turns on the *)
(* M; a handler runs on the M's gsignal.  A value of libcall* is the g    *)
(* whose call stored it (its g, its caller pc, its sp), or None for 0.    *)
(***************************************************************************)
EXTENDS Naturals

CONSTANTS G, GSignal, None

Frames == G \cup {GSignal}

VARIABLES
  libcallg, libcallpc, libcallsp,  \* mp.libcallg, mp.libcallpc, mp.libcallsp
  step,     \* where the running goroutine is in libcCall ("idle" outside it)
  cur,      \* the goroutine that made that call
  owner,    \* the goroutine call's local mp != nil: it recorded itself
  sample    \* the last <<g, pc, sp>> a profiling signal used, or None

vars == <<libcallg, libcallpc, libcallsp, step, cur, owner, sample>>

Steps == {"idle", "setg", "setpc", "setsp", "call", "ret"}

Init ==
  /\ libcallg = None /\ libcallpc = None /\ libcallsp = None
  /\ step = "idle"
  /\ cur \in G
  /\ owner = FALSE
  /\ sample = None

\* "if mp != nil && mp.libcallsp == 0": the call records itself, else mp = nil.
Enter(g) ==
  /\ step = "idle"
  /\ cur' = g
  /\ owner' = (libcallsp = None)
  /\ step' = IF libcallsp = None THEN "setg" ELSE "call"
  /\ UNCHANGED <<libcallg, libcallpc, libcallsp, sample>>

SetG ==
  /\ step = "setg"
  /\ libcallg' = cur
  /\ step' = "setpc"
  /\ UNCHANGED <<libcallpc, libcallsp, cur, owner, sample>>

SetPC ==
  /\ step = "setpc"
  /\ libcallpc' = cur
  /\ step' = "setsp"
  /\ UNCHANGED <<libcallg, libcallsp, cur, owner, sample>>

\* "sp must be the last": once it is non-zero the profiler uses all three.
SetSP ==
  /\ step = "setsp"
  /\ libcallsp' = cur
  /\ step' = "call"
  /\ UNCHANGED <<libcallg, libcallpc, cur, owner, sample>>

\* res := asmcgocall(fn, arg)
Call ==
  /\ step = "call"
  /\ step' = "ret"
  /\ UNCHANGED <<libcallg, libcallpc, libcallsp, cur, owner, sample>>

\* Mutant of Return: libcallsp is left set when the call returns.
ReturnKeepsSP ==
  /\ step = "ret"
  /\ step' = "idle"
  /\ owner' = FALSE
  /\ UNCHANGED <<libcallg, libcallpc, libcallsp, cur, sample>>

\* "if mp != nil { mp.libcallsp = 0 }"
Return ==
  /\ step = "ret"
  /\ libcallsp' = IF owner THEN None ELSE libcallsp
  /\ step' = "idle"
  /\ owner' = FALSE
  /\ UNCHANGED <<libcallg, libcallpc, cur, sample>>

(***************************************************************************)
(* A signal handler on the same M calls libcCall: the whole call, with    *)
(* its own check of libcallsp and its own clear on return.                *)
(***************************************************************************)
HandlerLibcCall ==
  /\ IF libcallsp = None
     THEN /\ libcallg' = GSignal
          /\ libcallpc' = GSignal
          /\ UNCHANGED libcallsp     \* set to the handler's sp, then cleared
     ELSE UNCHANGED <<libcallg, libcallpc, libcallsp>>
  /\ UNCHANGED <<step, cur, owner, sample>>

\* Mutant of Profile: the profiler uses libcall* without waiting for sp.
ProfileUnguarded ==
  /\ sample' = <<libcallg, libcallpc, libcallsp>>
  /\ UNCHANGED <<libcallg, libcallpc, libcallsp, step, cur, owner>>

\* Environment: a profiling signal (sigprof) uses libcall* once sp is set.
Profile ==
  /\ libcallsp # None
  /\ sample' = <<libcallg, libcallpc, libcallsp>>
  /\ UNCHANGED <<libcallg, libcallpc, libcallsp, step, cur, owner>>

Next ==
  \/ \E g \in G : Enter(g)
  \/ SetG \/ SetPC \/ SetSP \/ Call \/ Return
  \/ HandlerLibcCall \/ Profile

Spec == Init /\ [][Next]_vars

-----------------------------------------------------------------------------
TypeOK ==
  /\ {libcallg, libcallpc, libcallsp} \subseteq Frames \cup {None}
  /\ step \in Steps
  /\ cur \in G
  /\ owner \in BOOLEAN
  /\ sample \in ((Frames \cup {None}) \X (Frames \cup {None}) \X Frames) \cup {None}

(***************************************************************************)
(* libcallsp is non-zero exactly while the goroutine's libcCall that      *)
(* recorded itself is in libc or returning: a nested call from a handler  *)
(* neither records itself over it nor clears it, and the recording call  *)
(* clears it when it returns.                                             *)
(***************************************************************************)
SpTracksOwner ==
  (libcallsp # None) <=> (owner /\ step \in {"call", "ret"} /\ libcallsp = cur)

(***************************************************************************)
(* The comment on libcCall: the g/pc/sp of the first call on an M are     *)
(* remembered until it returns and a handler's call is not recorded, so  *)
(* a profiling signal always sees the three values of one call.          *)
(***************************************************************************)
SampleConsistent ==
  sample # None => sample[1] = sample[3] /\ sample[2] = sample[3]

====
