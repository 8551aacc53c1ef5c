------------------------------ MODULE Terminal ------------------------------
(***************************************************************************)
(* oxish/src/unix/terminal.rs: a Terminal is the controlling end of a PTY  *)
(* and the child process (a login shell or a forced command) on its user   *)
(* end.  The server calls spawn, write, poll_read, poll_wait, start_kill   *)
(* and resize; the kernel and the shell move in between, on their own.     *)
(*                                                                         *)
(* A shell is a record                                                     *)
(*   run     where its process is; "zombie" is exited and not yet waited   *)
(*           on, "dying" has SIGKILL pending                               *)
(*   status  what wait() will report: an exit code, "signal" (no code),    *)
(*           or "error" (the wait itself fails)                            *)
(*   hup     every user end of the PTY is closed                           *)
(*   in, out bytes buffered in the PTY towards and from the shell          *)
(*   owes    the shell has read a byte that it answers before reading on   *)
(*   quota   output the shell will still produce of its own accord (bound) *)
(***************************************************************************)
EXTENDS Integers

CONSTANTS
  MaxShells,  \* bound: processes spawned in one behaviour
  ExitCodes,  \* the exit codes shells use
  PtyIn,      \* capacity of the PTY buffer towards the shell
  PtyOut,     \* capacity of the PTY buffer from the shell
  MaxOutput,  \* bound: bytes a shell writes without being asked
  IoErrors    \* whether system calls on a PTY or a child may fail

ASSUME TerminalAssumption ==
  /\ MaxShells \in Nat
  /\ PtyIn \in Nat
  /\ PtyOut \in Nat
  /\ MaxOutput \in Nat
  /\ IoErrors \in BOOLEAN
  /\ {"none", "signal", "error"} \cap ExitCodes = {}

VARIABLE shells

Shells == 1..MaxShells

Shell == [run    : {"unspawned", "alive", "dying", "zombie", "reaped"},
          status : ExitCodes \cup {"none", "signal", "error"},
          hup    : BOOLEAN,
          in     : 0..PtyIn,
          owes   : BOOLEAN,
          out    : 0..PtyOut,
          quota  : 0..MaxOutput]

Unspawned == [run |-> "unspawned", status |-> "none", hup |-> FALSE, in |-> 0,
              owes |-> FALSE, out |-> 0, quota |-> MaxOutput]

InitShells == shells = [p \in Shells |-> Unspawned]

-----------------------------------------------------------------------------
(* The calls the server makes. *)

\* The next process to spawn.
IsFresh(p) ==
  /\ shells[p].run = "unspawned"
  /\ \A q \in Shells : shells[q].run = "unspawned" => p <= q

\* spawn: a PTY pair and a process with its three standard fds on the user end.
spawn(p) == [shells EXCEPT ![p] = [Unspawned EXCEPT !.run = "alive"]]

\* poll_read: output first; EIO after a hang-up is Ok(0).
ReadyRead(s) == s.out > 0 \/ s.hup
AtEof(s) == s.out = 0 /\ s.hup
Drained(s, n) == [s EXCEPT !.out = s.out - n]

\* write: one write(2) on the non-blocking PTY; room 0 is EWOULDBLOCK.
Room(s) == PtyIn - s.in
Filled(s, n) == [s EXCEPT !.in = s.in + n]

\* poll_wait: ready once the process has exited; the wait reaps it.
ReadyWait(s) == s.run = "zombie"
Reaped(s) == [s EXCEPT !.run = "reaped"]

start_kill_Ignored(s) == s
\* start_kill: SIGKILL is a no-op on a process that has already exited.
start_kill(s) == IF s.run = "alive" THEN [s EXCEPT !.run = "dying"] ELSE s

-----------------------------------------------------------------------------
(* What shells and the kernel do (external). *)

Consumed(s, answer) == [s EXCEPT !.in = s.in - 1, !.owes = answer]
Answered(s) == [s EXCEPT !.out = s.out + 1, !.owes = FALSE]
Wrote(s) == [s EXCEPT !.out = s.out + 1, !.quota = s.quota - 1]
HungUp(s) == [s EXCEPT !.hup = TRUE]
Exited(s, status) == [s EXCEPT !.run = "zombie", !.status = status, !.owes = FALSE]

Attached(s) == s.run = "alive" /\ ~s.hup

Becomes(p, s) == shells' = [shells EXCEPT ![p] = s]

\* The shell reads a byte of input; an interactive program owes an answer.
ShellReads(p) ==
  /\ Attached(shells[p]) /\ shells[p].in > 0 /\ ~shells[p].owes
  /\ \E answer \in BOOLEAN : Becomes(p, Consumed(shells[p], answer))

\* It writes the answer, and cannot read on before the PTY takes it.
ShellAnswers(p) ==
  /\ Attached(shells[p]) /\ shells[p].owes /\ shells[p].out < PtyOut
  /\ Becomes(p, Answered(shells[p]))

ShellWrites(p) ==
  /\ Attached(shells[p]) /\ ~shells[p].owes
  /\ shells[p].out < PtyOut /\ shells[p].quota > 0
  /\ Becomes(p, Wrote(shells[p]))

\* The process goes; a background job of its may still hold the user end.
Leaves(p, status) ==
  \/ Becomes(p, Exited(shells[p], status))
  \/ Becomes(p, HungUp(Exited(shells[p], status)))

ExitStatuses == ExitCodes \cup {"signal"} \cup (IF IoErrors THEN {"error"} ELSE {})

ShellExits(p) ==
  /\ shells[p].run = "alive"
  /\ \E status \in ExitStatuses : Leaves(p, status)

\* A pending SIGKILL takes effect.
ShellDies(p) == shells[p].run = "dying" /\ Leaves(p, "signal")

\* The last user end is closed: by the shell itself, or by whoever held it.
ShellHangsUp(p) ==
  /\ shells[p].run \in {"alive", "dying", "zombie"}
  /\ ~shells[p].hup
  /\ Becomes(p, HungUp(shells[p]))

ShellStep(p) ==
  \/ ShellReads(p) \/ ShellAnswers(p) \/ ShellWrites(p)
  \/ ShellExits(p) \/ ShellDies(p) \/ ShellHangsUp(p)
=============================================================================
