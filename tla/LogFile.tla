------------------------------- MODULE LogFile -------------------------------
(***************************************************************************)
(* LogUtil: the caller's threads write lines to one FILE and rotate it,    *)
(* with no lock between vfprintf, ftell, rename and freopen.               *)
(*                                                                         *)
(* A file is its number, counted as they are made; a directory entry names *)
(* a file.  Sizes are counted in lines.  stdio locks a FILE during each    *)
(* call, so a line is written whole, to the file the FILE is open on.      *)
(***************************************************************************)
EXTENDS Integers, Sequences, FiniteSets

CONSTANTS
    Thread,   \* the threads that log
    Limit,    \* _s_log_rotate_size
    Found,    \* sizes a log file that already exists may have
    Lines,    \* lines each thread writes (bound)
    MaxTime,  \* last second of the clock (bound)
    Faults,   \* calls of freopen that may fail (bound)
    Refusals, \* calls of rename that may fail with the file in place (bound)
    NoFile    \* no file of that name; a FILE open on nothing

ASSUME LogAssumption ==
    /\ IsFiniteSet(Thread)
    /\ Limit \in Int
    /\ Found \subseteq Nat
    /\ Lines \in Nat
    /\ MaxTime \in Nat
    /\ Faults \in Nat
    /\ Refusals \in Nat
    /\ NoFile \notin Nat

VARIABLES
    pc,       \* the call each thread is about to make in logging()
    stamp,    \* the second in the name each thread renames to
    left,     \* lines each thread has still to write
    now,      \* time(NULL)
    size,     \* lines in each file
    stream,   \* the file _s_log_stream is open on
    log,      \* the file named _s_log_filename
    rotated,  \* the file named _s_log_filename.<second>
    faults,   \* failures of freopen left
    refused,  \* history: renames that failed with the file in place
    found     \* size of the log file when it was set

vars == <<pc, stamp, left, now, size, stream, log, rotated, faults, refused, found>>

Second == 0 .. MaxTime

\* sdk_set_log_filename has opened the file for appending; so has
\* sdk_set_log_stream's caller, and readlink gave the name.
Init ==
    /\ pc = [t \in Thread |-> "idle"]
    /\ stamp = [t \in Thread |-> 0]
    /\ left = [t \in Thread |-> Lines]
    /\ now = 0
    /\ found \in Found
    /\ size = <<found>>
    /\ stream = 1
    /\ log = 1
    /\ rotated = [s \in Second |-> NoFile]
    /\ faults = Faults
    /\ refused = 0

\* logging: vfprintf and fflush.
logging(t) ==
    /\ pc[t] = "idle"
    /\ left[t] > 0
    /\ left' = [left EXCEPT ![t] = @ - 1]
    /\ size' = IF stream = NoFile THEN size
               ELSE [size EXCEPT ![stream] = @ + 1]
    /\ pc' = [pc EXCEPT ![t] = "ftell"]
    /\ UNCHANGED <<stamp, now, stream, log, rotated, faults, refused, found>>

\* ftell gives -1 for a FILE that is open on nothing.
Position == IF stream = NoFile THEN -1 ELSE size[stream]

\* Mutant of check_and_rotate: > for >=.
check_and_rotateLate(t) ==
    /\ pc[t] = "ftell"
    /\ pc' = [pc EXCEPT ![t] = IF Position > Limit THEN "time" ELSE "idle"]
    /\ UNCHANGED <<stamp, left, now, size, stream, log, rotated, faults, refused, found>>

check_and_rotate(t) ==
    /\ pc[t] = "ftell"
    /\ pc' = [pc EXCEPT ![t] = IF Position >= Limit THEN "time" ELSE "idle"]
    /\ UNCHANGED <<stamp, left, now, size, stream, log, rotated, faults, refused, found>>

\* The name is made from the current second.
NameIt(t) ==
    /\ pc[t] = "time"
    /\ stamp' = [stamp EXCEPT ![t] = now]
    /\ pc' = [pc EXCEPT ![t] = "rename"]
    /\ UNCHANGED <<left, now, size, stream, log, rotated, faults, refused, found>>

\* rename succeeds, over an older file of that second if there is one, and the
\* test that should lead to freopen leads past it.
Rename(t) ==
    /\ pc[t] = "rename"
    /\ log # NoFile
    /\ rotated' = [rotated EXCEPT ![stamp[t]] = log]
    /\ log' = NoFile
    /\ pc' = [pc EXCEPT ![t] = "idle"]
    /\ UNCHANGED <<stamp, left, now, size, stream, faults, refused, found>>

\* There is no file of that name any more: rename fails and freopen follows.
RenameFails(t) ==
    /\ pc[t] = "rename"
    /\ log = NoFile
    /\ pc' = [pc EXCEPT ![t] = "freopen"]
    /\ UNCHANGED <<stamp, left, now, size, stream, log, rotated, faults, refused, found>>

\* rename fails and the file keeps its name (a directory or a file system that
\* cannot be written, a name too long): freopen will open the same file again.
RenameRefused(t) ==
    /\ pc[t] = "rename"
    /\ log # NoFile
    /\ refused < Refusals
    /\ refused' = refused + 1
    /\ pc' = [pc EXCEPT ![t] = "freopen"]
    /\ UNCHANGED <<stamp, left, now, size, stream, log, rotated, faults, found>>

\* Mutant of Reopen: the new FILE is not kept.
ReopenElsewhere(t) ==
    /\ pc[t] = "freopen"
    /\ IF log = NoFile
         THEN /\ size' = Append(size, 0)
              /\ log' = Len(size')
         ELSE UNCHANGED <<size, log>>
    /\ pc' = [pc EXCEPT ![t] = "idle"]
    /\ UNCHANGED <<stamp, left, now, stream, rotated, faults, refused, found>>

\* freopen opens the file of that name, a new one unless another thread has
\* made it in the meantime.
Reopen(t) ==
    /\ pc[t] = "freopen"
    /\ IF log = NoFile
         THEN /\ size' = Append(size, 0)
              /\ log' = Len(size')
         ELSE UNCHANGED <<size, log>>
    /\ stream' = log'
    /\ pc' = [pc EXCEPT ![t] = "idle"]
    /\ UNCHANGED <<stamp, left, now, rotated, faults, refused, found>>

\* freopen closes the FILE and cannot open the file (no descriptor left).
ReopenFails(t) ==
    /\ pc[t] = "freopen"
    /\ faults > 0
    /\ faults' = faults - 1
    /\ stream' = NoFile
    /\ pc' = [pc EXCEPT ![t] = "idle"]
    /\ UNCHANGED <<stamp, left, now, size, log, rotated, refused, found>>

Tick ==
    /\ now < MaxTime
    /\ now' = now + 1
    /\ UNCHANGED <<pc, stamp, left, size, stream, log, rotated, faults, refused, found>>

Step(t) ==
    \/ logging(t)
    \/ check_and_rotate(t)
    \/ NameIt(t)
    \/ Rename(t)
    \/ RenameFails(t)
    \/ RenameRefused(t)
    \/ Reopen(t)
    \/ ReopenFails(t)

Terminated ==
    /\ \A t \in Thread : pc[t] = "idle" /\ left[t] = 0
    /\ UNCHANGED vars

Next == (\E t \in Thread : Step(t)) \/ Tick \/ Terminated

Spec == Init /\ [][Next]_vars

-------------------------------------------------------------------------------
File == 1 .. Len(size)

(***************************************************************************)
(* The variables of LogFile hold values of their types.                    *)
(***************************************************************************)
TypeOK ==
    /\ pc \in [Thread -> {"idle", "ftell", "time", "rename", "freopen"}]
    /\ stamp \in [Thread -> Second]
    /\ left \in [Thread -> 0 .. Lines]
    /\ now \in Second
    /\ size \in Seq(Nat)
    /\ stream \in File \cup {NoFile}
    /\ log \in File \cup {NoFile}
    /\ rotated \in [Second -> File \cup {NoFile}]
    /\ faults \in 0 .. Faults
    /\ refused \in 0 .. Refusals
    /\ found \in Found

(***************************************************************************)
(* A line goes to a file that can be found: the one named by               *)
(* _s_log_filename or, since a successful rename is not followed by        *)
(* freopen (util.cpp:124), one that was rotated.  No rename replaces the   *)
(* file that is being written, in whatever order threads test, name and    *)
(* rename.  Of a file that is written no longer nothing is said: a second  *)
(* rotation in the same second replaces it.                                *)
(***************************************************************************)
WritesToNamedFile == stream # NoFile =>
    \/ stream = log
    \/ \E s \in Second : rotated[s] = stream

Threads == Cardinality(Thread)

\* Lines a file can have before a thread sees it is full.
Full(f) == IF f = 1 /\ found >= Limit THEN found + 1
           ELSE IF Limit > 0 THEN Limit ELSE 1

\* Lines a file can have beyond that.
Excess == Threads * (1 + Faults - faults) + refused

(***************************************************************************)
(* Rotation keeps files small although its test is inverted (util.cpp:124) *)
(* and although every thread may write between another's ftell and rename: *)
(* a file outgrows the limit by at most one line for each thread, by as    *)
(* many again each time freopen fails and the file is opened later, and by *)
(* one line for each rename that failed with the file in place.  So it is  *)
(* rename alone that keeps a file small: where it keeps failing, each line *)
(* tries again and the file grows with each.                               *)
(***************************************************************************)
SizesBounded == \A f \in File : size[f] <= Full(f) + Excess

(***************************************************************************)
(* A file under _s_log_filename is the one being written, whichever thread *)
(* made it: no log file is left under that name while the lines go to      *)
(* another, unless freopen failed.                                         *)
(***************************************************************************)
OneLogFile == log # NoFile /\ stream # NoFile => log = stream

-------------------------------------------------------------------------------
(***************************************************************************)
(* The inductive invariant behind the properties above.                    *)
(***************************************************************************)

\* Threads that have written and not yet seen what rename returns.
Writers == {t \in Thread : pc[t] \in {"ftell", "time", "rename"}}

Busy == {t \in Thread : pc[t] # "idle"}

\* What failures of freopen and of rename have let through.
Slack == Threads * (Faults - faults) + refused

\* While the file being written has its name, a thread that wrote to it when
\* it was full stays a writer until one of them renames it, unless its own
\* rename fails; from then on every thread that writes stays busy until one of
\* them makes the next file.
Growth ==
    /\ log # NoFile =>
          /\ stream = log =>
                size[log] <= Full(log) - 1 + Slack + Cardinality(Writers)
          /\ stream # log => size[log] <= Full(log) - 1 + Slack
    /\ log = NoFile /\ stream # NoFile =>
          size[stream] <= Full(stream) + Slack + Cardinality(Busy)

LogInv ==
    /\ TypeOK
    /\ WritesToNamedFile
    /\ OneLogFile
    /\ SizesBounded
    /\ Growth

===============================================================================
