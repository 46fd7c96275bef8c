------------------------------ MODULE UtilProofs ------------------------------
(***************************************************************************)
(* LogUtil and StringUtil.  The log's rotation, for any number of threads, *)
(* any limit and any number of failures of freopen: lines go to a file     *)
(* that has a name, there is one log file, and no file outgrows the limit  *)
(* by more than a line for each thread and each rename that fails.  And    *)
(* digests, headers and URLs, for every text.                              *)
(*                                                                         *)
(* Facts about texts of every length are proved on their places: of a set  *)
(* of numbers that has 0 and, with each number, the next (Induction).      *)
(***************************************************************************)
EXTENDS LogFile, Wire, FiniteSetTheorems, SequenceTheorems, WellFoundedInduction, TLAPS

-------------------------------------------------------------------------------
(***************************************************************************)
(* The log                                                                 *)
(***************************************************************************)

\* Sets of threads have a size between 0 and the number of threads.
LEMMA CountThreads ==
    ASSUME NEW S \in SUBSET Thread
    PROVE  IsFiniteSet(S) /\ Cardinality(S) \in 0 .. Threads
BY LogAssumption, FS_Subset, FS_CardinalityType DEF Threads

\* One thread more.
LEMMA OneMore ==
    ASSUME NEW S \in SUBSET Thread, NEW t \in Thread, t \notin S
    PROVE  Cardinality(S \cup {t}) = Cardinality(S) + 1
BY CountThreads, FS_AddElement

\* One thread less.
LEMMA OneLess ==
    ASSUME NEW S \in SUBSET Thread, NEW t \in S
    PROVE  Cardinality(S \ {t}) = Cardinality(S) - 1
BY CountThreads, FS_RemoveElement

\* The sizes of the sets of threads, and what the bound is made of.
LEMMA Counts ==
    ASSUME TypeOK
    PROVE  /\ Threads \in Nat
           /\ Cardinality(Writers) \in 0 .. Threads
           /\ Cardinality(Busy) \in 0 .. Threads
           /\ Slack \in Nat
           /\ Excess = Threads + Slack
           /\ \A f \in File : Full(f) \in Nat \ {0} /\ Full(f) >= Limit
<1>1. Threads \in Nat
  BY CountThreads DEF Threads
<1>2. Cardinality(Writers) \in 0 .. Threads /\ Cardinality(Busy) \in 0 .. Threads
  BY CountThreads DEF Writers, Busy
<1>3. PICK d \in Nat : d = Faults - faults
  BY LogAssumption DEF TypeOK
<1>4. Threads * d \in Nat /\ Threads * (1 + d) = Threads + Threads * d
  BY <1>1, SMT
<1>5. 1 + Faults - faults = 1 + d
  BY <1>3, LogAssumption DEF TypeOK
<1>7. refused \in Nat
  BY LogAssumption DEF TypeOK
<1>6. \A f \in File : Full(f) \in Nat \ {0} /\ Full(f) >= Limit
  BY LogAssumption DEF Full, TypeOK
<1> QED
  BY <1>1, <1>2, <1>3, <1>4, <1>5, <1>6, <1>7 DEF Slack, Excess

LEMMA Initially == Init => LogInv
<1> SUFFICES ASSUME Init PROVE LogInv
  OBVIOUS
<1>1. TypeOK
  BY LogAssumption DEF Init, TypeOK, File, Second
<1>2. WritesToNamedFile /\ OneLogFile
  BY DEF Init, WritesToNamedFile, OneLogFile
<1>3. size[1] <= Full(1) - 1 /\ File = {1}
  BY <1>1, LogAssumption DEF Init, Full, TypeOK, File
<1>4. SizesBounded
  <2>1. Excess \in Nat /\ Full(1) \in Nat
    BY <1>1, <1>3, Counts
  <2>2. size[1] \in Nat /\ size[1] <= Full(1) + Excess
    BY <1>3, <2>1, LogAssumption DEF Init
  <2> QED
    BY <1>3, <2>2 DEF SizesBounded
<1>5. Growth
  BY <1>1, <1>3, Counts, LogAssumption DEF Growth, Init, TypeOK, File
<1> QED
  BY <1>1, <1>2, <1>4, <1>5 DEF LogInv

LEMMA TypeStep == LogInv /\ [Next]_vars => TypeOK'
<1> SUFFICES ASSUME LogInv, [Next]_vars PROVE TypeOK'
  OBVIOUS
<1> USE LogAssumption DEF LogInv, TypeOK, File
<1>1. ASSUME NEW t \in Thread, logging(t) PROVE TypeOK'
  BY SMTT(30), <1>1 DEF logging
<1>2. ASSUME NEW t \in Thread, check_and_rotate(t) PROVE TypeOK'
  BY <1>2 DEF check_and_rotate
<1>3. ASSUME NEW t \in Thread, NameIt(t) PROVE TypeOK'
  BY <1>3 DEF NameIt
<1>4. ASSUME NEW t \in Thread, Rename(t) PROVE TypeOK'
  BY <1>4 DEF Rename
<1>5. ASSUME NEW t \in Thread, RenameFails(t) PROVE TypeOK'
  BY <1>5 DEF RenameFails
<1>10. ASSUME NEW t \in Thread, RenameRefused(t) PROVE TypeOK'
  BY <1>10 DEF RenameRefused
<1>6. ASSUME NEW t \in Thread, Reopen(t) PROVE TypeOK'
  <2>1. CASE log = NoFile
    <3>1. size' = Append(size, 0) /\ log' = Len(size')
      BY <1>6, <2>1 DEF Reopen
    <3>2. size' \in Seq(Nat) /\ Len(size') = Len(size) + 1
      BY <3>1
    <3> QED
      BY <1>6, <3>1, <3>2 DEF Reopen
  <2>2. CASE log # NoFile
    BY <1>6, <2>2 DEF Reopen
  <2> QED
    BY <2>1, <2>2
<1>7. ASSUME NEW t \in Thread, ReopenFails(t) PROVE TypeOK'
  BY <1>7 DEF ReopenFails
<1>8. CASE Tick
  BY <1>8 DEF Tick, Second
<1>9. CASE UNCHANGED vars
  BY <1>9 DEF vars
<1> QED
  BY <1>1, <1>2, <1>3, <1>4, <1>5, <1>6, <1>7, <1>8, <1>9, <1>10
     DEF Next, Step, Terminated

\* The file that is written keeps a name: a rename either leaves it alone or
\* gives it the new name, for there is no other file to rename.
LEMMA NamesStep == LogInv /\ [Next]_vars => WritesToNamedFile' /\ OneLogFile'
<1> SUFFICES ASSUME LogInv, [Next]_vars
             PROVE  WritesToNamedFile' /\ OneLogFile'
  OBVIOUS
<1> USE DEF LogInv, WritesToNamedFile, OneLogFile
<1>1. ASSUME NEW t \in Thread, Rename(t)
      PROVE  WritesToNamedFile' /\ OneLogFile'
  <2>1. stamp[t] \in Second /\ rotated'[stamp[t]] = log /\ log' = NoFile
        /\ UNCHANGED stream
    BY <1>1 DEF Rename, TypeOK
  <2> QED
    BY <1>1, <2>1 DEF Rename
<1>2. ASSUME NEW t \in Thread, Reopen(t)
      PROVE  WritesToNamedFile' /\ OneLogFile'
  BY <1>2 DEF Reopen
<1>3. ASSUME NEW t \in Thread, ReopenFails(t)
      PROVE  WritesToNamedFile' /\ OneLogFile'
  BY <1>3 DEF ReopenFails
<1>4. ASSUME UNCHANGED <<stream, log, rotated>>
      PROVE  WritesToNamedFile' /\ OneLogFile'
  BY <1>4
<1> QED
  BY <1>1, <1>2, <1>3, <1>4
     DEF Next, Step, logging, check_and_rotate, NameIt, RenameFails,
         RenameRefused, Tick, Terminated, vars

\* A step that adds a line to the full file adds a thread to the set that
\* bounds it; a step that takes a thread out of the set finds the file not
\* full, renames it, or makes the next one.
LEMMA GrowthStep == LogInv /\ [Next]_vars => SizesBounded' /\ Growth'
<1> SUFFICES ASSUME LogInv, [Next]_vars PROVE SizesBounded' /\ Growth'
  OBVIOUS
<1> DEFINE W == Cardinality(Writers)
           B == Cardinality(Busy)
<1>a. TypeOK /\ TypeOK'
  BY TypeStep DEF LogInv
<1>b. /\ Threads \in Nat /\ W \in 0 .. Threads /\ B \in 0 .. Threads
      /\ Slack \in Nat /\ Excess = Threads + Slack
      /\ \A f \in File : Full(f) \in Nat \ {0} /\ Full(f) >= Limit
  BY <1>a, Counts
<1>c. Writers \subseteq Busy /\ Busy \subseteq Thread /\ Writers \subseteq Thread
  BY DEF Writers, Busy
<1>d. \A f \in File : size[f] \in Nat
  BY <1>a DEF TypeOK, File
<1>e. \A f \in File : size[f] <= Full(f) + Threads + Slack
  <2>1. \A f \in File : size[f] <= Full(f) + Excess
    BY DEF LogInv, SizesBounded, Excess
  <2> QED
    BY <2>1, <1>b, <1>d
<1>f. Limit \in Int
  BY LogAssumption
<1> HIDE DEF W, B
<1>1. ASSUME NEW t \in Thread, logging(t) PROVE SizesBounded' /\ Growth'
  <2>1. /\ pc[t] = "idle"
        /\ pc' = [pc EXCEPT ![t] = "ftell"]
        /\ UNCHANGED <<stream, log, faults, refused, found>>
    BY <1>1 DEF logging
  <2>2. Writers' = Writers \cup {t} /\ t \notin Writers
        /\ Busy' = Busy \cup {t} /\ t \notin Busy
    BY <2>1, <1>a DEF Writers, Busy, TypeOK
  <2>3. Cardinality(Writers') = W + 1 /\ Cardinality(Busy') = B + 1
    BY <2>2, <1>c, OneMore DEF W, B
  <2>4. Cardinality(Writers') \in 0 .. Threads /\ Cardinality(Busy') \in 0 .. Threads
    BY <2>2, <1>c, CountThreads
  <2>5. Slack' = Slack /\ \A f \in File : Full(f)' = Full(f)
    BY <2>1 DEF Slack, Full
  <2>6. CASE stream = NoFile
    <3>1. size' = size /\ File' = File
      BY <1>1, <2>6 DEF logging, File
    <3>2. SizesBounded'
      BY <2>1, <2>5, <3>1 DEF LogInv, SizesBounded, Excess
    <3>3. Growth'
      BY <2>1, <2>5, <2>6, <3>1 DEF LogInv, Growth, Full
    <3> QED
      BY <3>2, <3>3
  <2>7. CASE stream # NoFile
    <3>1. stream \in File /\ File' = File
          /\ \A f \in File : size'[f] = IF f = stream THEN size[f] + 1
                                        ELSE size[f]
      BY <1>1, <2>7, <1>a DEF logging, TypeOK, File
    <3>2. Growth'
      BY <2>1, <2>3, <2>5, <2>7, <3>1, <1>a, <1>b, <1>d
         DEF LogInv, Growth, OneLogFile, W, B, Full
    <3>3. size'[stream] <= Full(stream) + Threads + Slack
      BY <3>2, <2>1, <2>3, <2>4, <2>5, <2>7, <3>1, <1>a, <1>b, <1>d
         DEF LogInv, Growth, OneLogFile
    <3>4. \A f \in File' : size'[f] <= Full(f)' + Excess
      BY <3>1, <3>3, <2>5, <1>e, <1>b
    <3>5. SizesBounded'
      BY <3>4, <2>1 DEF SizesBounded, Excess
    <3> QED
      BY <3>2, <3>5
  <2> QED
    BY <2>6, <2>7
\* Only what these actions do to the two sets matters.
<1>2. ASSUME UNCHANGED <<size, stream, log, faults, refused, found>>
      PROVE  /\ SizesBounded'
             /\ Slack' = Slack
             /\ File' = File
             /\ \A f \in File : Full(f)' = Full(f)
  <2>1. Slack' = Slack /\ File' = File /\ \A f \in File : Full(f)' = Full(f)
    BY <1>2 DEF Slack, Full, File
  <2> QED
    BY <1>2, <2>1 DEF LogInv, SizesBounded, Excess
<1>3. ASSUME NEW t \in Thread, check_and_rotate(t)
      PROVE  SizesBounded' /\ Growth'
  <2>1. /\ pc[t] = "ftell"
        /\ pc' = [pc EXCEPT ![t] = IF Position >= Limit THEN "time" ELSE "idle"]
        /\ UNCHANGED <<size, stream, log, faults, refused, found>>
    BY <1>3 DEF check_and_rotate
  <2>2. CASE Position >= Limit
    <3>1. Writers' = Writers /\ Busy' = Busy
      BY <2>1, <2>2, <1>a DEF Writers, Busy, TypeOK
    <3> QED
      BY <2>1, <3>1, <1>2 DEF LogInv, Growth, Full
  <2>3. CASE ~(Position >= Limit) /\ stream = NoFile
    BY <2>1, <2>3, <1>2 DEF LogInv, Growth, Full
  <2>4. CASE ~(Position >= Limit) /\ stream # NoFile
    <3>1. stream \in File /\ size[stream] <= Full(stream) - 1
      BY <2>4, <1>a, <1>b, <1>d, <1>f DEF Position, TypeOK
    <3>2. Cardinality(Writers') \in 0 .. Threads /\ Cardinality(Busy') \in 0 .. Threads
      BY CountThreads DEF Writers, Busy
    <3> QED
      BY <2>1, <2>4, <3>1, <3>2, <1>2, <1>a, <1>b, <1>d
         DEF LogInv, Growth, OneLogFile
  <2> QED
    BY <2>2, <2>3, <2>4
<1>4. ASSUME NEW t \in Thread, NameIt(t) PROVE SizesBounded' /\ Growth'
  <2>1. Writers' = Writers /\ Busy' = Busy
    BY <1>4, <1>a DEF NameIt, Writers, Busy, TypeOK
  <2> QED
    BY <1>4, <2>1, <1>2 DEF NameIt, LogInv, Growth, Full
<1>5. ASSUME NEW t \in Thread, Rename(t) PROVE SizesBounded' /\ Growth'
  <2>1. /\ pc[t] = "rename" /\ log # NoFile /\ log' = NoFile
        /\ pc' = [pc EXCEPT ![t] = "idle"]
        /\ UNCHANGED <<size, stream, faults, refused, found>>
    BY <1>5 DEF Rename
  <2>2. Slack' = Slack /\ File' = File /\ \A f \in File : Full(f)' = Full(f)
    BY <2>1 DEF Slack, Full, File
  <2>3. SizesBounded'
    BY <2>1, <2>2 DEF LogInv, SizesBounded, Excess
  <2>4. t \in Writers /\ Writers \ {t} \subseteq Busy' /\ Busy' \subseteq Thread
    BY <2>1, <1>a DEF Writers, Busy, TypeOK
  <2>5. Cardinality(Writers \ {t}) = W - 1
    BY <2>4, <1>c, OneLess DEF W
  <2>6. Cardinality(Writers \ {t}) <= Cardinality(Busy')
        /\ Cardinality(Busy') \in 0 .. Threads
    BY <2>4, CountThreads, FS_Subset
  <2>7. ASSUME stream # NoFile
        PROVE  size[stream] <= Full(stream) + Slack + Cardinality(Busy')
    <3>1. stream = log /\ log \in File
      BY <2>1, <2>7, <1>a DEF LogInv, OneLogFile, TypeOK
    <3>2. size[log] <= Full(log) - 1 + Slack + W
      BY <2>1, <3>1 DEF LogInv, Growth, W
    <3> QED
      BY <3>1, <3>2, <2>5, <2>6, <1>b, <1>d
  <2>8. Growth'
    BY <2>1, <2>2, <2>7 DEF Growth, Full
  <2> QED
    BY <2>3, <2>8
<1>6. ASSUME NEW t \in Thread, RenameFails(t) PROVE SizesBounded' /\ Growth'
  <2>1. Busy' = Busy /\ log = NoFile
    BY <1>6, <1>a DEF RenameFails, Busy, TypeOK
  <2> QED
    BY <1>6, <2>1, <1>2 DEF RenameFails, LogInv, Growth, Full
<1>11. ASSUME NEW t \in Thread, RenameRefused(t) PROVE SizesBounded' /\ Growth'
  <2>1. /\ pc[t] = "rename" /\ log # NoFile /\ refused' = refused + 1
        /\ pc' = [pc EXCEPT ![t] = "freopen"]
        /\ UNCHANGED <<size, stream, log, faults, found>>
    BY <1>11 DEF RenameRefused
  <2>2. /\ refused \in Nat /\ File' = File /\ \A f \in File : Full(f)' = Full(f)
        /\ Threads * (Faults - faults) \in Int
    BY <2>1, <1>a, <1>b, LogAssumption DEF TypeOK, Full, File, Slack
  <2>3. Slack' = Slack + 1
    BY <2>1, <2>2 DEF Slack, Threads
  <2>5. Excess' = Excess + 1
    <3>1. PICK d \in Int : d = 1 + Faults - faults
      BY <1>a, LogAssumption DEF TypeOK
    <3>2. Threads * d \in Int
      BY <1>b, <3>1
    <3> QED
      BY <2>1, <2>2, <3>1, <3>2 DEF Excess, Threads
  <2>4. Excess' = Threads + Slack'
    BY <2>3, <2>5, <1>b
  <2>6. SizesBounded'
    BY <2>1, <2>2, <2>3, <2>4, <1>b, <1>d, <1>e DEF SizesBounded
  <2>7. Writers' = Writers \ {t} /\ t \in Writers
    BY <2>1, <1>a DEF Writers, TypeOK
  <2>8. Cardinality(Writers') = W - 1
    BY <2>7, <1>c, OneLess DEF W
  <2>9. log \in File
    BY <2>1, <1>a DEF TypeOK
  <2>10. Growth'
    BY <2>1, <2>2, <2>3, <2>8, <2>9, <1>b, <1>d DEF LogInv, Growth, W
  <2> QED
    BY <2>6, <2>10
<1>7. ASSUME NEW t \in Thread, Reopen(t) PROVE SizesBounded' /\ Growth'
  <2>1. /\ pc[t] = "freopen" /\ stream' = log'
        /\ pc' = [pc EXCEPT ![t] = "idle"]
        /\ UNCHANGED <<faults, refused, found>>
    BY <1>7 DEF Reopen
  <2>2. Slack' = Slack /\ \A f : Full(f)' = Full(f)
    BY <2>1 DEF Slack, Full
  <2>3. Writers' = Writers
    BY <2>1, <1>a DEF Writers, TypeOK
  <2>4. CASE log = NoFile
    <3>1. size' = Append(size, 0) /\ log' = Len(size')
      BY <1>7, <2>4 DEF Reopen
    <3>10. size \in Seq(Nat) /\ Len(size) \in Nat
      BY <1>a DEF TypeOK
    <3>2. Len(size') = Len(size) + 1 /\ size'[Len(size) + 1] = 0
          /\ \A f \in File : size'[f] = size[f]
      BY <3>1, <3>10 DEF File
    <3>3. File' = File \cup {log'} /\ size'[log'] = 0
      BY <3>1, <3>2, <3>10 DEF File
    <3>4. log' \in File' /\ Slack' \in Nat
      BY <3>3, <2>2, <1>b
    <3>9. \A f : Full(f) \in Nat /\ Full(f) >= 1
      BY <1>a, LogAssumption DEF Full, TypeOK
    <3>5. \A f \in File' : size'[f] <= Full(f) + Excess
      <4>1. size'[log'] <= Full(log') + Excess
        BY <3>3, <3>9, <1>b
      <4>2. \A f \in File : size'[f] <= Full(f) + Excess
        BY <3>2, <1>e, <1>b, <3>9, <1>d
      <4> QED
        BY <4>1, <4>2, <3>3
    <3>6. SizesBounded'
      BY <3>5, <2>1 DEF SizesBounded, Excess, Full
    <3>7. log' # NoFile
      BY <3>1, <3>2, <1>a, LogAssumption DEF TypeOK
    <3>8. Growth'
      <4>1. size'[log'] <= Full(log') - 1 + Slack + W
        BY <3>3, <3>9, <1>b
      <4> QED
        BY <2>1, <2>2, <2>3, <4>1, <3>7 DEF Growth, W, Full
    <3> QED
      BY <3>6, <3>8
  <2>5. CASE log # NoFile
    <3>1. size' = size /\ log' = log /\ File' = File
      BY <1>7, <2>5 DEF Reopen, File
    <3>2. SizesBounded'
      BY <3>1, <2>1, <2>2 DEF LogInv, SizesBounded, Excess
    <3>3. log \in File
      BY <2>5, <1>a DEF TypeOK
    <3>4. Growth'
      BY <2>1, <2>2, <2>3, <2>5, <3>1, <3>3, <1>b, <1>d DEF LogInv, Growth, W
    <3> QED
      BY <3>2, <3>4
  <2> QED
    BY <2>4, <2>5
<1>8. ASSUME NEW t \in Thread, ReopenFails(t) PROVE SizesBounded' /\ Growth'
  <2>1. /\ faults' = faults - 1 /\ stream' = NoFile
        /\ UNCHANGED <<size, log, refused, found>>
    BY <1>8 DEF ReopenFails
  <2>2. File' = File /\ \A f : Full(f)' = Full(f)
    BY <2>1 DEF Full, File
  <2>3. Slack' = Slack + Threads /\ Slack' \in Nat
        /\ Excess' = Threads + Slack'
    <3>1. PICK d \in Nat : d = Faults - faults
      BY <1>a, LogAssumption DEF TypeOK
    <3>2. Faults - faults' = d + 1
      BY <3>1, <2>1, <1>a, LogAssumption DEF TypeOK
    <3>3. /\ Threads * d \in Nat
          /\ Threads * (d + 1) = Threads * d + Threads
          /\ Threads * (d + 2) = Threads * d + Threads + Threads
      BY <1>b, SMT
    <3>5. 1 + Faults - faults' = d + 2
      BY <3>1, <2>1, <1>a, LogAssumption DEF TypeOK
    <3>6. refused \in Nat
      BY <1>a, LogAssumption DEF TypeOK
    <3>4. Slack' = Slack + Threads
      BY <2>1, <3>1, <3>2, <3>3, <3>6, <1>b DEF Slack, Threads
    <3> QED
      BY <2>1, <3>1, <3>3, <3>4, <3>5, <3>6, <1>b DEF Slack, Excess, Threads
  <2>4. \A f \in File' : size'[f] <= Full(f)' + Excess'
    BY <2>1, <2>2, <2>3, <1>e, <1>b, <1>d
  <2>5. SizesBounded'
    BY <2>4 DEF SizesBounded
  <2>6. Growth'
    <3>1. CASE log = NoFile
      BY <3>1, <2>1 DEF Growth
    <3>2. CASE log # NoFile
      <4>1. log \in File
        BY <3>2, <1>a DEF TypeOK
      <4> QED
        BY <3>2, <4>1, <2>1, <2>2, <2>3, <1>b, <1>d DEF LogInv, Growth, W
    <3> QED
      BY <3>1, <3>2
  <2> QED
    BY <2>5, <2>6
<1>9. CASE Tick
  BY <1>9, <1>2 DEF Tick, LogInv, Growth, Writers, Busy, Full
<1>10. CASE UNCHANGED vars
  BY <1>10, <1>2 DEF vars, LogInv, Growth, Writers, Busy, Full
<1> QED
  BY <1>1, <1>3, <1>4, <1>5, <1>6, <1>7, <1>8, <1>9, <1>10, <1>11
     DEF Next, Step, Terminated

\* LogInv holds in every reachable state: the file that is written has a name,
\* and what it holds beyond the limit is accounted for by threads.
THEOREM LogInvariant == Spec => []LogInv
<1>1. LogInv /\ [Next]_vars => LogInv'
  BY TypeStep, NamesStep, GrowthStep DEF LogInv
<1> QED
  BY Initially, <1>1, PTL DEF Spec

\* Every variable of the log keeps its type.
THEOREM LogTypes == Spec => []TypeOK
BY LogInvariant, PTL DEF LogInv

\* util.cpp:119-129: whatever threads do between each other's calls, lines go
\* to a file that has a name.
THEOREM LinesAreFound == Spec => []WritesToNamedFile
BY LogInvariant, PTL DEF LogInv

\* The file under _s_log_filename is the one being written.
THEOREM LogIsWritten == Spec => []OneLogFile
BY LogInvariant, PTL DEF LogInv

\* Files outgrow the limit by at most one line for each thread, as many for each
\* failure of freopen, and one for each rename that fails with the file in place.
THEOREM FilesStaySmall == Spec => []SizesBounded
BY LogInvariant, PTL DEF LogInv

-------------------------------------------------------------------------------
(***************************************************************************)
(* Numbers                                                                 *)
(***************************************************************************)

\* A nonempty set of numbers has a least member.
LEMMA LeastMember ==
    ASSUME NEW T \in SUBSET Nat, T # {}
    PROVE  \E x \in T : \A y \in T : x <= y
<1> DEFINE R == OpToRel(<, Nat)
<1>1. IsWellFoundedOn(R, Nat)
  BY NatLessThanWellFounded
<1>2. \E x \in T : \A y \in T : ~ (<<y, x>> \in R)
  <2> HIDE DEF R
  <2> QED BY <1>1, WFMin
<1>3. \A x, y \in Nat : <<y, x>> \in R <=> y < x
  BY DEF OpToRel
<1> HIDE DEF R
<1>4. PICK x \in T : \A y \in T : ~ (<<y, x>> \in R)
  BY <1>2
<1>5. \A y \in T : ~ (y < x)
  BY <1>3, <1>4
<1> QED
  BY <1>5

\* A set of numbers that has 0 and, with each number, the next has them all.
LEMMA Induction ==
    ASSUME NEW T \in SUBSET Nat, 0 \in T, \A n \in T : n + 1 \in T
    PROVE  T = Nat
<1> SUFFICES ASSUME Nat \ T # {} PROVE FALSE
  OBVIOUS
<1>1. PICK x \in Nat \ T : \A y \in Nat \ T : x <= y
  BY LeastMember
<1>2. x - 1 \in Nat /\ x - 1 \notin Nat \ T
  BY <1>1
<1> QED
  BY <1>1, <1>2

-------------------------------------------------------------------------------
(***************************************************************************)
(* Texts cut at a delimiter                                                *)
(***************************************************************************)

\* Texts of any numbers; the delimiters are looked for in these.
Text == Seq(Int)

\* The places of a delimiter, and that there are none of one the text lacks.
LEMMA HitsFinite ==
    ASSUME NEW s \in Text, NEW d
    PROVE  /\ Hits(s, d) \subseteq 1 .. Len(s)
           /\ IsFiniteSet(Hits(s, d))
           /\ Cardinality(Hits(s, d)) \in Nat
           /\ Cardinality(Hits(s, d)) = 0 <=> \A i \in 1 .. Len(s) : s[i] # d
<1>1. Hits(s, d) \subseteq 1 .. Len(s) /\ Len(s) \in Nat
  BY DEF Hits, Text
<1>2. IsFiniteSet(Hits(s, d))
  <2>1. IsFiniteSet(1 .. Len(s))
    BY <1>1, FS_Interval
  <2> QED BY <1>1, <2>1, FS_Subset
<1>3. Hits(s, d) = {} <=> \A i \in 1 .. Len(s) : s[i] # d
  BY DEF Hits, Text
<1> QED
  BY <1>1, <1>2, <1>3, FS_CardinalityType, FS_EmptySet

\* A text without the delimiter is one piece.
LEMMA SplitNone ==
    ASSUME NEW s \in Text, NEW d, NEW max \in Nat,
           \A i \in 1 .. Len(s) : s[i] # d
    PROVE  split(s, d, max) = <<s>>
<1>1. Cardinality(Hits(s, d)) = 0
  BY HitsFinite
<1>2. split(s, d, max) = Pieces(s, d, 0)
  BY <1>1 DEF split
<1>3. SubSeq(s, Cut(s, d, 0, 0) + 1, Cut(s, d, 0, 1) - 1) = s
  <2>1. Cut(s, d, 0, 0) + 1 = 1 /\ Cut(s, d, 0, 1) - 1 = Len(s)
    BY DEF Cut, Text
  <2> QED
    BY <2>1, SubSeqFull DEF Text
<1>4. Pieces(s, d, 0) = <<SubSeq(s, Cut(s, d, 0, 0) + 1, Cut(s, d, 0, 1) - 1)>>
  BY DEF Pieces
<1> QED
  BY <1>2, <1>3, <1>4

\* A delimiter with k - 1 before it is the k-th.
LEMMA RankedCut ==
    ASSUME NEW s \in Text, NEW d, NEW n \in Nat, NEW k \in 1 .. n, NEW p \in 1 .. Len(s),
           Preceded(s, d, k - 1) = {p}
    PROVE  Cut(s, d, n, k) = p
<1>1. (CHOOSE x \in 1 .. Len(s) : x \in Preceded(s, d, k - 1)) = p
  OBVIOUS
<1> QED
  BY <1>1 DEF Cut

\* The first delimiter.
LEMMA FirstCut ==
    ASSUME NEW s \in Text, NEW d, NEW n \in Nat \ {0}, NEW i \in 1 .. Len(s), s[i] = d,
           \A j \in 1 .. i - 1 : s[j] # d
    PROVE  Cut(s, d, n, 1) = i
<1> DEFINE at == Hits(s, d)
<1>1. i \in at /\ {j \in at : j < i} = {}
  BY DEF Hits, Text
<1>2. ASSUME NEW x \in at, Cardinality({j \in at : j < x}) = 0 PROVE x = i
  <2>1. IsFiniteSet({j \in at : j < x})
    BY HitsFinite, FS_Subset
  <2>2. {j \in at : j < x} = {}
    BY <1>2, <2>1, FS_EmptySet
  <2> QED
    BY <1>1, <2>2, HitsFinite
<1>3. Cardinality({j \in at : j < i}) = 0
  BY <1>1, FS_EmptySet
<1>4. Preceded(s, d, 0) = {i}
  <2>1. \A x \in at : Cardinality({j \in at : j < x}) = 0 <=> x = i
    BY <1>2, <1>3, Zenon
  <2>2. Preceded(s, d, 0) = {x \in at : Cardinality({j \in at : j < x}) = 0}
    BY Zenon DEF Preceded
  <2>3. i \in at
    BY <1>1
  <2> HIDE DEF at
  <2> DEFINE Before(x) == Cardinality({j \in at : j < x}) = 0
  <2>4. \A x \in at : Before(x) <=> x = i
    BY <2>1
  <2> HIDE DEF Before
  <2>5. {x \in at : Before(x)} = {i}
    BY <2>3, <2>4
  <2> QED
    BY <2>2, <2>5 DEF Before
<1>5. ASSUME NEW r \in 1 .. n, r = 1 PROVE Cut(s, d, n, r) = i
  <2>1. Preceded(s, d, r - 1) = {i}
    BY <1>4, <1>5
  <2>2. n \in Nat
    OBVIOUS
  <2> QED
    BY <2>1, <2>2, RankedCut, Zenon
<1> QED
  BY <1>5

\* The second.
LEMMA SecondCut ==
    ASSUME NEW s \in Text, NEW d, NEW n \in Nat \ {0, 1},
           NEW i \in 1 .. Len(s), s[i] = d, \A j \in 1 .. i - 1 : s[j] # d,
           NEW k \in i + 1 .. Len(s), s[k] = d, \A j \in i + 1 .. k - 1 : s[j] # d
    PROVE  Cut(s, d, n, 2) = k
<1> DEFINE at == Hits(s, d)
<1>1. i \in at /\ k \in at /\ i < k /\ {j \in at : j < k} = {i}
  <2>1. Len(s) \in Nat /\ at = {j \in 1 .. Len(s) : s[j] = d}
    BY DEF Hits, Text
  <2>2. ASSUME NEW j \in at, j < k PROVE j = i
    BY <2>1, <2>2
  <2> QED
    BY <2>1, <2>2
<1>2. ASSUME NEW x \in at, Cardinality({j \in at : j < x}) = 1 PROVE x = k
  <2>1. IsFiniteSet({j \in at : j < x})
    BY HitsFinite, FS_Subset
  <2>2. PICK y : {j \in at : j < x} = {y}
    BY <1>2, <2>1, FS_Singleton
  <2>3. i <= x /\ x \in Int /\ i \in Int /\ k \in Int
    BY HitsFinite DEF Hits, Text
  <2>4. i < x
    <3>1. CASE x = i
      <4>1. y \in at /\ y < i
        BY <2>2, <3>1
      <4> QED
        BY <4>1 DEF Hits, Text
    <3> QED BY <3>1, <2>3
  <2>5. y = i
    BY <1>1, <2>2, <2>4
  <2>6. ~ (k < x)
    BY <1>1, <2>2, <2>5
  <2>7. x = k \/ x \in {j \in at : j < k}
    BY <2>3, <2>6
  <2> QED
    BY <1>1, <2>4, <2>7
<1>3. Cardinality({j \in at : j < k}) = 1
  BY <1>1, FS_Singleton
<1>4. Preceded(s, d, 1) = {k}
  <2>1. \A x \in at : Cardinality({j \in at : j < x}) = 1 <=> x = k
    BY <1>2, <1>3, Zenon
  <2>2. Preceded(s, d, 1) = {x \in at : Cardinality({j \in at : j < x}) = 1}
    BY Zenon DEF Preceded
  <2>3. k \in at
    BY <1>1
  <2> HIDE DEF at
  <2> DEFINE Before(x) == Cardinality({j \in at : j < x}) = 1
  <2>4. \A x \in at : Before(x) <=> x = k
    BY <2>1
  <2> HIDE DEF Before
  <2>5. {x \in at : Before(x)} = {k}
    BY <2>3, <2>4
  <2> QED
    BY <2>2, <2>5 DEF Before
<1>5. ASSUME NEW r \in 1 .. n, r = 2 PROVE Cut(s, d, n, r) = k
  <2>1. Preceded(s, d, r - 1) = {k}
    BY <1>4, <1>5
  <2>2. n \in Nat /\ k \in 1 .. Len(s)
    BY DEF Text
  <2> QED
    BY <2>1, <2>2, RankedCut, Zenon
<1> QED
  BY <1>5

\* The ends of the text.
LEMMA LastCut ==
    ASSUME NEW s \in Text, NEW d, NEW n \in Nat
    PROVE  Cut(s, d, n, 0) = 0 /\ Cut(s, d, n, n + 1) = Len(s) + 1
BY DEF Cut

\* Two cuts where at most three pieces are asked for.
LEMMA SplitThree ==
    ASSUME NEW s \in Text, NEW d,
           NEW i \in 1 .. Len(s), s[i] = d, \A j \in 1 .. i - 1 : s[j] # d,
           NEW k \in i + 1 .. Len(s), s[k] = d, \A j \in i + 1 .. k - 1 : s[j] # d
    PROVE  split(s, d, 3) =
               <<SubSeq(s, 1, i - 1), SubSeq(s, i + 1, k - 1), SubSeq(s, k + 1, Len(s))>>
<1>1. Cardinality(Hits(s, d)) >= 2 /\ Cardinality(Hits(s, d)) \in Nat
  <2>1. {i, k} \subseteq Hits(s, d) /\ i # k
    BY DEF Hits, Text
  <2>2. Cardinality({i, k}) = 2
    <3>1. IsFiniteSet({i}) /\ Cardinality({i}) = 1 /\ {i} \cup {k} = {i, k} /\ k \notin {i}
      BY <2>1, FS_Singleton
    <3>2. Cardinality({i} \cup {k}) = 1 + 1
      BY <3>1, FS_AddElement
    <3>3. 1 + 1 = 2
      OBVIOUS
    <3> QED
      BY <3>1, <3>2, <3>3, Zenon
  <2> QED
    BY <2>1, <2>2, HitsFinite, FS_Subset
<1>2. split(s, d, 3) = Pieces(s, d, 2)
  BY <1>1 DEF split
<1>3. Cut(s, d, 2, 0) = 0 /\ Cut(s, d, 2, 1) = i /\ Cut(s, d, 2, 2) = k
      /\ Cut(s, d, 2, 3) = Len(s) + 1
  BY FirstCut, SecondCut, LastCut
<1>4. Pieces(s, d, 2) = <<SubSeq(s, Cut(s, d, 2, 0) + 1, Cut(s, d, 2, 1) - 1),
                          SubSeq(s, Cut(s, d, 2, 1) + 1, Cut(s, d, 2, 2) - 1),
                          SubSeq(s, Cut(s, d, 2, 2) + 1, Cut(s, d, 2, 3) - 1)>>
  BY DEF Pieces
<1>5. Cut(s, d, 2, 0) + 1 = 1 /\ Cut(s, d, 2, 3) - 1 = Len(s)
  BY <1>3 DEF Text
<1> QED
  BY <1>2, <1>3, <1>4, <1>5

\* One cut where at most two pieces are asked for.
LEMMA SplitTwo ==
    ASSUME NEW s \in Text, NEW d, NEW i \in 1 .. Len(s), s[i] = d,
           \A j \in 1 .. i - 1 : s[j] # d
    PROVE  split(s, d, 2) = <<SubSeq(s, 1, i - 1), SubSeq(s, i + 1, Len(s))>>
<1>1. Cardinality(Hits(s, d)) # 0 /\ Cardinality(Hits(s, d)) \in Nat
  BY HitsFinite DEF Text
<1>2. split(s, d, 2) = Pieces(s, d, 1)
  BY <1>1 DEF split
<1>3. Cut(s, d, 1, 0) = 0 /\ Cut(s, d, 1, 1) = i /\ Cut(s, d, 1, 2) = Len(s) + 1
  BY FirstCut, LastCut
<1>4. Pieces(s, d, 1) = <<SubSeq(s, Cut(s, d, 1, 0) + 1, Cut(s, d, 1, 1) - 1),
                          SubSeq(s, Cut(s, d, 1, 1) + 1, Cut(s, d, 1, 2) - 1)>>
  BY DEF Pieces
<1>5. Cut(s, d, 1, 0) + 1 = 1 /\ Cut(s, d, 1, 2) - 1 = Len(s)
  BY <1>3 DEF Text
<1> QED
  BY <1>2, <1>3, <1>4, <1>5

\* Two texts put together, and each found again.
LEMMA Parts ==
    ASSUME NEW u \in Text, NEW v \in Text
    PROVE  /\ u \o v \in Text
           /\ Len(u \o v) = Len(u) + Len(v)
           /\ \A i \in 1 .. Len(u) : (u \o v)[i] = u[i]
           /\ \A i \in 1 .. Len(v) : (u \o v)[Len(u) + i] = v[i]
           /\ SubSeq(u \o v, 1, Len(u)) = u
           /\ SubSeq(u \o v, Len(u) + 1, Len(u \o v)) = v
<1> DEFINE s == u \o v
<1>1. s \in Text /\ Len(s) = Len(u) + Len(v) /\ Len(u) \in Nat /\ Len(v) \in Nat
  BY ConcatProperties DEF Text
<1>2. \A i \in 1 .. Len(u) : s[i] = u[i]
  BY ConcatProperties DEF Text
<1>3. \A i \in 1 .. Len(v) : s[Len(u) + i] = v[i]
  BY ConcatProperties DEF Text
<1>4. \A i \in 1 .. Len(s) : s[i] \in Int
  BY <1>1 DEF Text
<1> HIDE DEF s
<1>5. SubSeq(s, 1, Len(u)) = u
  <2>1. SubSeq(s, 1, Len(u)) \in Text /\ Len(SubSeq(s, 1, Len(u))) = Len(u)
    BY <1>1, <1>4, SubSeqProperties DEF Text
  <2>2. \A i \in 1 .. Len(u) : SubSeq(s, 1, Len(u))[i] = u[i]
    BY <1>1, <1>2, <1>4, SubSeqProperties DEF Text
  <2> QED
    BY <2>1, <2>2, SeqEqual DEF Text
<1>6. SubSeq(s, Len(u) + 1, Len(s)) = v
  <2>1. SubSeq(s, Len(u) + 1, Len(s)) \in Text /\ Len(SubSeq(s, Len(u) + 1, Len(s))) = Len(v)
    BY <1>1, <1>4, SubSeqProperties DEF Text
  <2>2. \A i \in 1 .. Len(v) : SubSeq(s, Len(u) + 1, Len(s))[i] = v[i]
    BY <1>1, <1>3, <1>4, SubSeqProperties DEF Text
  <2> QED
    BY <2>1, <2>2, SeqEqual DEF Text
<1> QED
  BY <1>1, <1>2, <1>3, <1>5, <1>6 DEF s

\* A text is cut in two at its first delimiter.
LEMMA SplitAt ==
    ASSUME NEW u \in Text, NEW d \in Int, NEW v \in Text, \A i \in 1 .. Len(u) : u[i] # d
    PROVE  split(u \o <<d>> \o v, d, 2) = <<u, v>>
<1> DEFINE w == u \o <<d>>
<1> DEFINE s == w \o v
<1>1. <<d>> \in Text /\ Len(<<d>>) = 1 /\ Len(u) \in Nat /\ Len(v) \in Nat
  BY DEF Text
<1>2. w \in Text /\ Len(w) = Len(u) + 1 /\ w[Len(u) + 1] = d /\ \A i \in 1 .. Len(u) : w[i] = u[i]
  BY <1>1, ConcatProperties DEF Text
<1>3. SubSeq(w, 1, Len(u)) = u
  BY <1>1, Parts
<1> HIDE DEF w
<1>4. s \in Text /\ Len(s) = Len(w) + Len(v) /\ \A i \in 1 .. Len(w) : s[i] = w[i]
  BY <1>1, <1>2, Parts
<1>5. SubSeq(s, Len(u) + 2, Len(s)) = v
  <2>1. SubSeq(s, Len(w) + 1, Len(s)) = v
    BY <1>2, Parts
  <2>2. Len(w) + 1 = Len(u) + 2
    BY <1>1, <1>2
  <2> QED
    BY <2>1, <2>2
<1>6. SubSeq(s, 1, Len(u)) = u
  <2>1. CASE Len(u) = 0
    <3>1. u = <<>> /\ SubSeq(s, 1, Len(u)) = <<>>
      BY <2>1, SubSeqEmpty DEF Text
    <3> QED BY <3>1
  <2>2. CASE Len(u) # 0
    <3>1. SubSeq(s, 1, Len(u)) = SubSeq(w, 1, Len(u))
      <4>1. 1 \in 1 .. Len(w) /\ Len(u) \in 1 .. Len(w)
        BY <1>1, <1>2, <2>2
      <4> QED
        BY <1>2, <4>1, SubSeqOfConcat1 DEF Text
    <3> QED
      BY <1>3, <3>1
  <2> QED
    BY <2>1, <2>2
<1> DEFINE p == Len(u) + 1
<1>7. p \in 1 .. Len(s) /\ s[p] = d /\ \A j \in 1 .. p - 1 : s[j] # d
  BY <1>1, <1>2, <1>4
<1>8. p - 1 = Len(u) /\ p + 1 = Len(u) + 2
  BY <1>1
<1> HIDE DEF p, s
<1>9. split(s, d, 2) = <<SubSeq(s, 1, p - 1), SubSeq(s, p + 1, Len(s))>>
  BY <1>4, <1>7, SplitTwo
<1> QED
  BY <1>5, <1>6, <1>8, <1>9 DEF s, w

-------------------------------------------------------------------------------
(***************************************************************************)
(* Headers and the status line                                             *)
(***************************************************************************)

\* A text without blanks at its ends is not trimmed.
LEMMA TrimSolid ==
    ASSUME NEW s \in Text, s # <<>>, s[1] \notin EMPTY_CHARS, s[Len(s)] \notin EMPTY_CHARS
    PROVE  trim(s) = s
<1> DEFINE solid == {i \in DOMAIN s : s[i] \notin EMPTY_CHARS}
<1>1. Len(s) \in Nat \ {0} /\ DOMAIN s = 1 .. Len(s)
  BY EmptySeq DEF Text
<1>2. 1 \in solid /\ Len(s) \in solid /\ solid \subseteq 1 .. Len(s)
  BY <1>1
<1>3. trim(s) = SubSeq(s, Min(solid), Max(solid))
  BY <1>2 DEF trim
<1> HIDE DEF solid
<1>4. Min(solid) = 1
  <2>1. \A x \in solid : (\A y \in solid : x <= y) <=> x = 1
    BY <1>2
  <2> QED
    BY <1>2, <2>1 DEF Min
<1>5. Max(solid) = Len(s)
  <2>1. \A x \in solid : x \in Int /\ Len(s) >= x
    BY <1>1, <1>2
  <2>2. ASSUME NEW x \in solid, \A y \in solid : x >= y PROVE x = Len(s)
    <3>1. x >= Len(s)
      BY <1>2, <2>2, Zenon
    <3>2. x \in Int /\ Len(s) \in Int /\ Len(s) >= x
      BY <1>1, <2>1
    <3> QED
      BY <3>1, <3>2
  <2> QED
    BY <1>2, <2>1, <2>2 DEF Max
<1> QED
  BY <1>3, <1>4, <1>5, SubSeqFull DEF Text

\* curl takes a text without NUL as it is.
LEMMA CStringWhole ==
    ASSUME NEW s \in Text, \A i \in 1 .. Len(s) : s[i] # 0
    PROVE  CString(s) = s
<1>1. split(s, 0, 2) = <<s>>
  BY SplitNone
<1> QED
  BY <1>1 DEF CString

\* recv_header_line takes off what curl put on.
LEMMA CutCRLF ==
    ASSUME NEW s \in Text
    PROVE  recv_header_line(s \o CRLF) = s
<1>1. CRLF \in Text /\ Len(CRLF) = 2 /\ Len(s) \in Nat
  BY DEF CRLF, Text
<1>2. Len(s \o CRLF) = Len(s) + Len(CRLF)
  BY <1>1, Parts
<1>3. Len(s \o CRLF) - 2 = Len(s)
  BY <1>1, <1>2
<1> QED
  BY <1>1, <1>3, Parts DEF recv_header_line

\* A text without a line break is one line.
LEMMA AsLineWhole ==
    ASSUME NEW s \in Text, \A i \in 1 .. Len(s) : s[i] \notin {10, 13}
    PROVE  AsLine(s) = s \o CRLF /\ recv_header_line(AsLine(s)) = s
<1>1. split(s, 10, 2) = <<s>>
  BY SplitNone
<1>2. split(s, 13, 2) = <<s>>
  BY SplitNone
<1>3. AsLine(s) = s \o CRLF
  <2>1. split(s, 10, 2)[1] = s /\ split(s, 13, 2)[1] = s
    BY <1>1, <1>2
  <2> QED
    BY <2>1, Zenon DEF AsLine
<1> QED
  BY <1>3, CutCRLF

\* A line of the name and any value.
LEMMA ParsedLine ==
    ASSUME NEW v \in Text
    PROVE  /\ <<75>> \o <<Colon>> \o v \in Text
           /\ split(<<75>> \o <<Colon>> \o v, Colon, 2) = <<<<75>>, v>>
           /\ parse_header_line(<<75>> \o <<Colon>> \o v) = <<<<107>>, trim(v)>>
<1>1. <<75>> \in Text /\ <<Colon>> \in Text /\ Colon \in Int
  BY DEF Text, Colon
<1>2. \A i \in 1 .. Len(<<75>>) : <<75>>[i] # Colon
  BY DEF Colon
<1>3. <<75>> \o <<Colon>> \in Text
  BY <1>1, Parts
<1>4. <<75>> \o <<Colon>> \o v \in Text
  BY <1>3, Parts
<1>5. split(<<75>> \o <<Colon>> \o v, Colon, 2) = <<<<75>>, v>>
  BY <1>1, <1>2, SplitAt
<1>6. trim(<<75>>) = <<75>>
  <2>1. <<75>> # <<>> /\ Len(<<75>>) = 1 /\ <<75>>[1] \notin EMPTY_CHARS
    BY DEF EMPTY_CHARS, Blank
  <2> QED
    BY <1>1, <2>1, TrimSolid
<1>7. lower(<<75>>) = <<107>>
  BY DEF lower, Upper
<1>8. parse_header_line(<<75>> \o <<Colon>> \o v) =
        (LET items == <<<<75>>, v>>
         IN  IF Len(items) # 2 THEN <<>> ELSE <<lower(trim(items[1])), trim(items[2])>>)
  BY <1>5 DEF parse_header_line
<1>9. parse_header_line(<<75>> \o <<Colon>> \o v) = <<lower(trim(<<75>>)), trim(v)>>
  BY <1>8
<1> QED
  BY <1>4, <1>5, <1>6, <1>7, <1>9

\* Two characters put together.
LEMMA Pair ==
    ASSUME NEW a \in Int, NEW b \in Int
    PROVE  <<a>> \o <<b>> = <<a, b>>
<1>1. <<a>> \in Text /\ <<b>> \in Text /\ Len(<<a>>) = 1 /\ Len(<<b>>) = 1
  BY DEF Text
<1>2. <<a>> \o <<b>> \in Text /\ Len(<<a>> \o <<b>>) = Len(<<a>>) + Len(<<b>>)
      /\ (\A i \in 1 .. Len(<<a>>) : (<<a>> \o <<b>>)[i] = <<a>>[i])
      /\ (\A i \in 1 .. Len(<<b>>) : (<<a>> \o <<b>>)[Len(<<a>>) + i] = <<b>>[i])
  BY <1>1, Parts
<1>3. Len(<<a>> \o <<b>>) = 2 /\ (<<a>> \o <<b>>)[1] = a /\ (<<a>> \o <<b>>)[2] = b
  <2>1. 1 \in 1 .. Len(<<a>>) /\ 1 \in 1 .. Len(<<b>>) /\ Len(<<a>>) + 1 = 2
    BY <1>1
  <2> QED BY <1>1, <1>2, <2>1
<1>4. <<a, b>> \in Text /\ Len(<<a, b>>) = 2 /\ <<a, b>>[1] = a /\ <<a, b>>[2] = b
  BY DEF Text
<1> DEFINE p == <<a>> \o <<b>>
           q == <<a, b>>
<1>5. p \in Text /\ q \in Text /\ Len(p) = Len(q) /\ \A i \in 1 .. Len(p) : p[i] = q[i]
  <2>1. p \in Text /\ q \in Text /\ Len(p) = 2 /\ Len(q) = 2 /\ p[1] = q[1] /\ p[2] = q[2]
    BY <1>2, <1>3, <1>4
  <2> HIDE DEF p, q
  <2> QED
    BY <2>1
<1> HIDE DEF p, q
<1>6. p = q
  BY <1>5, SeqEqual DEF Text
<1> QED
  BY <1>6 DEF p, q

\* A header without a value comes back with an empty one.
LEMMA EmptyLine ==
    parse_header_line(recv_header_line(Transported(append_header(<<75>>, <<>>))))
        = <<<<107>>, trim(<<>>)>>
    /\ Transported(append_header(<<75>>, <<>>)) # <<>>
<1> DEFINE line == <<75, 59>>
<1>1. line \in Text /\ Len(line) = 2 /\ \A i \in 1 .. Len(line) : line[i] # 0 /\ line[i] # Colon
  BY DEF Text, Colon
<1>2. append_header(<<75>>, <<>>) = line
  <2>1. <<75>> \o <<Semicolon>> = line
    BY Pair DEF Semicolon
  <2> QED
    BY <1>1, <2>1, CStringWhole DEF append_header
<1>3. split(line, Colon, 2) = <<line>>
  BY <1>1, SplitNone
<1>4. Transported(line) = AsLine(SubSeq(line, 1, Len(line) - 1) \o <<Colon>>)
  BY <1>3 DEF Transported
<1>5. SubSeq(line, 1, Len(line) - 1) = <<75>>
  <2>1. line = <<75>> \o <<59>> /\ <<75>> \in Text /\ <<59>> \in Text
    BY Pair DEF Text
  <2>2. SubSeq(<<75>> \o <<59>>, 1, Len(<<75>>)) = <<75>>
    BY <2>1, Parts, Zenon
  <2>3. Len(line) - 1 = Len(<<75>>)
    OBVIOUS
  <2> QED
    BY <2>1, <2>2, <2>3
<1>6. <<75>> \o <<Colon>> = <<75>> \o <<Colon>> \o <<>>
  BY ConcatEmptySeq DEF Text, Colon
<1>7. <<75>> \o <<Colon>> \in Text /\ <<>> \in Text
  BY DEF Text, Colon
<1>11. /\ AsLine(<<75>> \o <<Colon>>) = <<75>> \o <<Colon>> \o CRLF
       /\ recv_header_line(AsLine(<<75>> \o <<Colon>>)) = <<75>> \o <<Colon>>
  <2> DEFINE u == <<75>> \o <<Colon>>
  <2>1. u = <<75, Colon>> /\ u \in Text
    BY <1>7, Pair DEF Colon
  <2>2. \A i \in 1 .. Len(u) : u[i] \notin {10, 13}
    BY <2>1 DEF Colon
  <2> HIDE DEF u
  <2>3. AsLine(u) = u \o CRLF /\ recv_header_line(AsLine(u)) = u
    BY <2>1, <2>2, AsLineWhole
  <2> QED
    BY <2>3 DEF u
<1>8. recv_header_line(Transported(line)) = <<75>> \o <<Colon>>
  BY <1>4, <1>5, <1>11
<1>9. parse_header_line(<<75>> \o <<Colon>>) = <<<<107>>, trim(<<>>)>>
  BY <1>6, <1>7, ParsedLine
<1>10. Transported(line) # <<>>
  <2>1. CRLF \in Text /\ Len(CRLF) = 2
    BY DEF Text, CRLF
  <2>2. Len(<<75>> \o <<Colon>> \o CRLF) = Len(<<75>> \o <<Colon>>) + Len(CRLF)
    BY <1>7, <2>1, Parts, Zenon
  <2>3. Len(<<75>> \o <<Colon>>) \in Nat
    BY <1>7 DEF Text
  <2>4. Len(<<75>> \o <<Colon>> \o CRLF) # Len(<<>>)
    BY <2>1, <2>2, <2>3
  <2> QED
    BY <1>4, <1>5, <1>11, <2>4
<1> QED
  BY <1>2, <1>8, <1>9, <1>10

\* A header with a value comes back with it, or not at all if it is blank.
LEMMA ValueLine ==
    ASSUME NEW v \in Text, v # <<>>, \A i \in 1 .. Len(v) : v[i] \notin {0, 10, 13}
    PROVE  LET line == Transported(append_header(<<75>>, v))
           IN  IF line = <<>> THEN trim(v) = <<>>
               ELSE parse_header_line(recv_header_line(line)) = <<<<107>>, trim(v)>>
<1> DEFINE line == <<75>> \o <<Colon>> \o v
<1>1. line \in Text /\ split(line, Colon, 2) = <<<<75>>, v>>
      /\ parse_header_line(line) = <<<<107>>, trim(v)>>
  BY ParsedLine
<1>2. \A i \in 1 .. Len(line) : line[i] \notin {0, 10, 13}
  <2> DEFINE u == <<75>> \o <<Colon>>
  <2>1. u \in Text /\ Len(u) = 2 /\ u[1] = 75 /\ u[2] = 58
    BY DEF Text, Colon
  <2>2. Len(v) \in Nat
    BY DEF Text
  <2> HIDE DEF u
  <2>3. \A i \in 1 .. Len(u) : (u \o v)[i] = u[i]
    <3>1. u \in Text
      BY <2>1
    <3> QED
      BY <3>1, Parts
  <2>4. Len(u \o v) = 2 + Len(v) /\ \A i \in 1 .. Len(v) : (u \o v)[2 + i] = v[i]
    <3>1. u \in Text
      BY <2>1
    <3>2. Len(u \o v) = Len(u) + Len(v)
      BY <3>1, Parts
    <3>3. \A i \in 1 .. Len(v) : (u \o v)[Len(u) + i] = v[i]
      BY <3>1, Parts
    <3> QED
      BY <2>1, <3>2, <3>3
  <2>5. \A i \in 1 .. Len(u \o v) : (u \o v)[i] \notin {0, 10, 13}
    <3> TAKE i \in 1 .. Len(u \o v)
    <3>1. CASE i = 1 \/ i = 2
      BY <2>1, <2>3, <3>1
    <3>2. CASE i > 2
      <4>1. i - 2 \in 1 .. Len(v) /\ 2 + (i - 2) = i
        BY <2>2, <2>4, <3>2
      <4> QED
        BY <2>4, <4>1
    <3> QED
      BY <2>2, <2>4, <3>1, <3>2
  <2> QED
    BY <2>5 DEF u
<1>3. append_header(<<75>>, v) = line
  BY <1>1, <1>2, CStringWhole DEF append_header
<1> HIDE DEF line
<1>4. Transported(line) = IF trim(v) = <<>> THEN <<>> ELSE AsLine(line)
  <2>1. Transported(line) =
          (LET kv == <<<<75>>, v>>
           IN  IF Len(kv) = 1 THEN AsLine(SubSeq(line, 1, Len(line) - 1) \o <<Colon>>)
               ELSE IF trim(kv[2]) = <<>> THEN <<>>
               ELSE AsLine(line))
    BY <1>1 DEF Transported
  <2> QED
    BY <2>1
<1>5. AsLine(line) = line \o CRLF /\ recv_header_line(AsLine(line)) = line
  BY <1>1, <1>2, AsLineWhole
<1>6. line \o CRLF # <<>>
  <2>1. CRLF \in Text /\ Len(CRLF) = 2 /\ Len(line) \in Nat
    BY <1>1 DEF Text, CRLF
  <2>2. Len(line \o CRLF) = Len(line) + Len(CRLF)
    BY <1>1, <2>1, Parts
  <2>3. Len(line \o CRLF) # Len(<<>>)
    BY <2>1, <2>2
  <2> QED
    BY <2>3
<1>7. CASE trim(v) = <<>>
  BY <1>3, <1>4, <1>7
<1>8. CASE trim(v) # <<>>
  BY <1>1, <1>3, <1>4, <1>5, <1>6, <1>8
<1> QED
  BY <1>7, <1>8

\* HTTP-version and code of a status line.
StatusPrefix == <<72, Blank, 50, 48, 54, Blank>>

\* The status line is read whatever the reason phrase.
LEMMA StatusLine ==
    ASSUME NEW v \in Text
    PROVE  parse_status_line(StatusPrefix \o v) = <<<<50, 48, 54>>, trim(v)>>
<1> DEFINE line == StatusPrefix \o v
           code == <<50, 48, 54>>
<1>1. StatusPrefix \in Text /\ Len(StatusPrefix) = 6
  BY DEF StatusPrefix, Text, Blank
<1>2. StatusPrefix[1] = 72 /\ StatusPrefix[2] = Blank
      /\ StatusPrefix[3] = 50 /\ StatusPrefix[4] = 48
      /\ StatusPrefix[5] = 54 /\ StatusPrefix[6] = Blank
  BY DEF StatusPrefix
<1>3. line \in Text /\ Len(line) = 6 + Len(v) /\ Len(v) \in Nat
  <2>1. line \in Text /\ Len(line) = Len(StatusPrefix) + Len(v)
    BY <1>1, Parts
  <2> QED
    BY <1>1, <2>1 DEF Text
<1>4. SubSeq(line, 7, Len(line)) = v
  <2>1. SubSeq(line, Len(StatusPrefix) + 1, Len(line)) = v
    BY <1>1, Parts
  <2> QED
    BY <1>1, <2>1
<1>5. line[1] = 72 /\ line[2] = Blank /\ line[3] = 50 /\ line[4] = 48
      /\ line[5] = 54 /\ line[6] = Blank
  <2>1. \A i \in 1 .. Len(StatusPrefix) : line[i] = StatusPrefix[i]
    BY <1>1, Parts
  <2>2. \A i \in {1, 2, 3, 4, 5, 6} : i \in 1 .. Len(StatusPrefix)
    BY <1>1
  <2>3. \A i \in {1, 2, 3, 4, 5, 6} : line[i] = StatusPrefix[i]
    BY <2>1, <2>2, Zenon
  <2> HIDE DEF line
  <2> QED
    BY <1>2, <2>3
<1> HIDE DEF line
<1>6. SubSeq(line, 3, 5) = code
  <2>1. \A i \in 3 .. 5 : line[i] \in Int
    BY <1>3 DEF Text
  <2>2. SubSeq(line, 3, 5) \in Text /\ Len(SubSeq(line, 3, 5)) = 3
    BY <2>1, SubSeqProperties DEF Text
  <2>3. SubSeq(line, 3, 5)[1] = 50 /\ SubSeq(line, 3, 5)[2] = 48 /\ SubSeq(line, 3, 5)[3] = 54
    <3>1. \A i \in 1 .. 5 - 3 + 1 : SubSeq(line, 3, 5)[i] = line[3 + i - 1]
      BY <2>1, SubSeqProperties
    <3> QED
      BY <1>5, <3>1
  <2>4. code \in Text /\ Len(code) = 3 /\ code[1] = 50 /\ code[2] = 48 /\ code[3] = 54
    BY DEF Text
  <2> DEFINE p == SubSeq(line, 3, 5)
  <2>5. p \in Text /\ Len(p) = 3 /\ p[1] = 50 /\ p[2] = 48 /\ p[3] = 54
    BY <2>2, <2>3
  <2> HIDE DEF p, code
  <2>6. \A i \in 1 .. Len(p) : p[i] = code[i]
    BY <2>4, <2>5
  <2>7. p = code
    <3>1. Len(p) = Len(code)
      BY <2>4, <2>5
    <3> QED
      BY <2>4, <2>5, <2>6, <3>1, SeqEqual, Zenon DEF Text
  <2> QED
    BY <2>7 DEF p
<1>7. split(line, Blank, 3) = <<SubSeq(line, 1, 1), code, v>>
  <2>1. 2 \in 1 .. Len(line) /\ line[2] = Blank /\ \A j \in 1 .. 2 - 1 : line[j] # Blank
    BY <1>3, <1>5 DEF Blank
  <2>2. 6 \in 2 + 1 .. Len(line) /\ line[6] = Blank /\ \A j \in 2 + 1 .. 6 - 1 : line[j] # Blank
    BY <1>3, <1>5 DEF Blank
  <2>3. split(line, Blank, 3) =
          <<SubSeq(line, 1, 2 - 1), SubSeq(line, 2 + 1, 6 - 1), SubSeq(line, 6 + 1, Len(line))>>
    <3> DEFINE a == 2
               b == 6
    <3>1. /\ a \in 1 .. Len(line) /\ line[a] = Blank /\ \A j \in 1 .. a - 1 : line[j] # Blank
          /\ b \in a + 1 .. Len(line) /\ line[b] = Blank
          /\ \A j \in a + 1 .. b - 1 : line[j] # Blank
      BY <2>1, <2>2
    <3> HIDE DEF a, b
    <3>2. split(line, Blank, 3) =
            <<SubSeq(line, 1, a - 1), SubSeq(line, a + 1, b - 1), SubSeq(line, b + 1, Len(line))>>
      BY <1>3, <3>1, SplitThree
    <3> QED
      BY <3>2 DEF a, b
  <2>4. SubSeq(line, 1, 2 - 1) = SubSeq(line, 1, 1)
        /\ SubSeq(line, 2 + 1, 6 - 1) = SubSeq(line, 3, 5)
        /\ SubSeq(line, 6 + 1, Len(line)) = SubSeq(line, 7, Len(line))
    OBVIOUS
  <2> QED
    BY <1>4, <1>6, <2>3, <2>4
<1>8. trim(code) = code /\ Range(code) \ Digit = {}
  <2>1. code \in Text /\ code # <<>> /\ code[1] \notin EMPTY_CHARS
        /\ code[Len(code)] \notin EMPTY_CHARS
    BY DEF Text, EMPTY_CHARS, Blank
  <2>2. trim(code) = code
    BY <2>1, TrimSolid
  <2>3. \A i \in DOMAIN code : code[i] \in Digit
    BY DEF Digit
  <2> QED
    BY <2>2, <2>3 DEF Range
<1> HIDE DEF code
<1>9. parse_status_line(line) =
        (LET items == <<SubSeq(line, 1, 1), code, v>>
             c     == trim(items[2])
         IN  IF Len(items) # 3 \/ Range(c) \ Digit # {} THEN <<>>
             ELSE <<c, trim(items[3])>>)
  BY <1>7 DEF parse_status_line
<1>10. parse_status_line(line) = <<code, trim(v)>>
  BY <1>8, <1>9
<1> QED
  BY <1>10 DEF line, code

\* The status line is one line if its reason is.
LEMMA StatusOneLine ==
    ASSUME NEW v \in Text, \A i \in 1 .. Len(v) : v[i] \notin {10, 13}
    PROVE  recv_header_line(AsLine(StatusPrefix \o v)) = StatusPrefix \o v
<1>1. StatusPrefix \in Text /\ Len(StatusPrefix) = 6
      /\ \A i \in 1 .. 6 : StatusPrefix[i] \notin {10, 13}
  BY DEF StatusPrefix, Text, Blank
<1> DEFINE line == StatusPrefix \o v
<1>2. line \in Text /\ Len(line) = 6 + Len(v) /\ Len(v) \in Nat
  <2>1. line \in Text /\ Len(line) = Len(StatusPrefix) + Len(v)
    BY <1>1, Parts
  <2> QED
    BY <1>1, <2>1 DEF Text
<1>3. \A i \in 1 .. 6 : line[i] = StatusPrefix[i]
  <2>1. \A i \in 1 .. Len(StatusPrefix) : line[i] = StatusPrefix[i]
    BY <1>1, Parts
  <2> QED
    BY <1>1, <2>1, Zenon
<1>4. \A i \in 1 .. Len(v) : line[6 + i] = v[i]
  <2>1. \A i \in 1 .. Len(v) : line[Len(StatusPrefix) + i] = v[i]
    BY <1>1, Parts
  <2> QED
    BY <1>1, <2>1, Zenon
<1> HIDE DEF line
<1>5. \A i \in 1 .. Len(line) : line[i] \notin {10, 13}
  <2> TAKE i \in 1 .. Len(line)
  <2>1. CASE i \in 1 .. 6
    BY <1>1, <1>3, <2>1
  <2>2. CASE i > 6
    <3>1. i - 6 \in 1 .. Len(v) /\ 6 + (i - 6) = i
      BY <1>2, <2>2
    <3> QED
      BY <1>4, <3>1
  <2> QED
    BY <1>2, <2>1, <2>2
<1> QED
  BY <1>2, <1>5, AsLineWhole DEF line

\* What is said of headers holds of every text.
LEMMA HeadersOfAnyText == src \in Text => HeadersComeBack
<1> SUFFICES ASSUME src \in Text, {10, 13} \cap Range(src) = {} PROVE HeadersComeBack
  BY DEF HeadersComeBack
<1> DEFINE line == Transported(append_header(<<75>>, src))
<1>3. \A i \in 1 .. Len(src) : src[i] \in Range(src)
  BY DEF Range, Text
<1>4. \A i \in 1 .. Len(src) : src[i] \notin {10, 13}
  BY <1>3
<1>1. ASSUME 0 \notin Range(src)
      PROVE  IF line = <<>> THEN trim(src) = <<>>
             ELSE parse_header_line(recv_header_line(line)) = <<<<107>>, trim(src)>>
  <2>1. CASE src = <<>>
    BY <2>1, EmptyLine
  <2>2. CASE src # <<>>
    <3>1. \A i \in 1 .. Len(src) : src[i] \notin {0, 10, 13}
      BY <1>1, <1>3, <1>4
    <3> QED
      BY <2>2, <3>1, ValueLine
  <2> QED
    BY <2>1, <2>2
<1>2. parse_status_line(recv_header_line(AsLine(StatusPrefix \o src)))
        = <<<<50, 48, 54>>, trim(src)>>
  BY <1>4, StatusOneLine, StatusLine
<1> QED
  BY <1>1, <1>2 DEF HeadersComeBack, StatusPrefix

\* The text is one of the bytes given.
LEMMA TextTypes == TextSpec => [](src \in Seq(Byte))
<1>1. TextInit => src \in Seq(Byte)
  BY DEF TextInit
<1>2. src \in Seq(Byte) /\ [Append1]_src => (src \in Seq(Byte))'
  BY DEF Append1
<1> QED
  BY <1>1, <1>2, PTL DEF TextSpec

(***************************************************************************)
(* For every text of any length, without NUL, CR and LF, as a value: a     *)
(* header comes back from append_header, curl, the service,                *)
(* recv_header_line and parse_header_line as it was set, but for blanks    *)
(* around it and the case of its name; and parse_status_line finds the     *)
(* code before any text without CR and LF as a reason                      *)
(* (http_request.cpp:31-40, http_response.cpp:21-52).                      *)
(***************************************************************************)
THEOREM HeadersAreRead == TextSpec => []HeadersComeBack
<1>1. src \in Seq(Byte) => src \in Text
  <2>1. Byte \subseteq Int
    BY CodecAssumption
  <2> QED
    BY <2>1, SeqMonotonic, Zenon DEF Text
<1>2. src \in Seq(Byte) => HeadersComeBack
  BY <1>1, HeadersOfAnyText
<1> QED
  BY <1>2, TextTypes, PTL

-------------------------------------------------------------------------------
(***************************************************************************)
(* Bits and base64                                                         *)
(***************************************************************************)

\* The e-th bit of a byte, from the top.
BitOf(x, e) == (x \div <<128, 64, 32, 16, 8, 4, 2, 1>>[e]) % 2

\* A byte is the sum of its bits.
LEMMA ByteBits ==
    ASSUME NEW x \in 0 .. 255
    PROVE  /\ BitOf(x, 1) \in {0, 1} /\ BitOf(x, 2) \in {0, 1} /\ BitOf(x, 3) \in {0, 1}
           /\ BitOf(x, 4) \in {0, 1} /\ BitOf(x, 5) \in {0, 1} /\ BitOf(x, 6) \in {0, 1}
           /\ BitOf(x, 7) \in {0, 1} /\ BitOf(x, 8) \in {0, 1}
           /\ x = 128 * BitOf(x, 1) + 64 * BitOf(x, 2) + 32 * BitOf(x, 3) + 16 * BitOf(x, 4)
                  + 8 * BitOf(x, 5) + 4 * BitOf(x, 6) + 2 * BitOf(x, 7) + BitOf(x, 8)
<1>1. /\ BitOf(x, 1) = (x \div 128) % 2 /\ BitOf(x, 2) = (x \div 64) % 2
      /\ BitOf(x, 3) = (x \div 32) % 2  /\ BitOf(x, 4) = (x \div 16) % 2
      /\ BitOf(x, 5) = (x \div 8) % 2   /\ BitOf(x, 6) = (x \div 4) % 2
      /\ BitOf(x, 7) = (x \div 2) % 2   /\ BitOf(x, 8) = (x \div 1) % 2
  BY DEF BitOf
<1>2. x = 128 * ((x \div 128) % 2) + 64 * ((x \div 64) % 2) + 32 * ((x \div 32) % 2)
          + 16 * ((x \div 16) % 2) + 8 * ((x \div 8) % 2) + 4 * ((x \div 4) % 2)
          + 2 * ((x \div 2) % 2) + ((x \div 1) % 2)
  OBVIOUS
<1>3. /\ (x \div 128) % 2 \in {0, 1} /\ (x \div 64) % 2 \in {0, 1}
      /\ (x \div 32) % 2 \in {0, 1}  /\ (x \div 16) % 2 \in {0, 1}
      /\ (x \div 8) % 2 \in {0, 1}   /\ (x \div 4) % 2 \in {0, 1}
      /\ (x \div 2) % 2 \in {0, 1}   /\ (x \div 1) % 2 \in {0, 1}
  OBVIOUS
<1>4. /\ BitOf(x, 1) \in {0, 1} /\ BitOf(x, 2) \in {0, 1} /\ BitOf(x, 3) \in {0, 1}
      /\ BitOf(x, 4) \in {0, 1} /\ BitOf(x, 5) \in {0, 1} /\ BitOf(x, 6) \in {0, 1}
      /\ BitOf(x, 7) \in {0, 1} /\ BitOf(x, 8) \in {0, 1}
  BY <1>1, <1>3, Zenon
<1>5. x = 128 * BitOf(x, 1) + 64 * BitOf(x, 2) + 32 * BitOf(x, 3) + 16 * BitOf(x, 4)
             + 8 * BitOf(x, 5) + 4 * BitOf(x, 6) + 2 * BitOf(x, 7) + BitOf(x, 8)
  BY <1>1, <1>2
<1> QED
  BY <1>4, <1>5

\* The number of groups of three, in bytes, characters and sextets.
LEMMA GroupCount ==
    ASSUME NEW n \in Nat
    PROVE  /\ Groups(n, 3) \in Nat
           /\ n <= 3 * Groups(n, 3) /\ 3 * Groups(n, 3) <= n + 2
           /\ Groups(4 * Groups(n, 3), 4) = Groups(n, 3)
           /\ Groups(8 * n, 6) \in Nat
           /\ Groups(Groups(8 * n, 6), 4) = Groups(n, 3)
BY DEF Groups

\* Every sextet has a character of its own, and so has the filler.
LEMMA Alphabet ==
    ASSUME NEW v \in 0 .. 64
    PROVE  BASE64_CHARS[v] \in Int /\ base64_decode_char(BASE64_CHARS[v]) = v
<1> USE DEF base64_decode_char, Upper, Lower, Digit, Plus, Slash, Equals
<1>1. CASE v < 26
  <2>1. BASE64_CHARS[v] = 65 + v
    BY <1>1 DEF BASE64_CHARS
  <2> QED
    BY <1>1, <2>1
<1>2. CASE v >= 26 /\ v < 52
  <2>1. BASE64_CHARS[v] = 97 + (v - 26)
    BY <1>2 DEF BASE64_CHARS
  <2> QED
    BY <1>2, <2>1
<1>3. CASE v >= 52 /\ v < 62
  <2>1. BASE64_CHARS[v] = 48 + (v - 52)
    BY <1>3 DEF BASE64_CHARS
  <2> QED
    BY <1>3, <2>1
<1>4. CASE v = 62
  <2>1. BASE64_CHARS[62] = 43
    BY DEF BASE64_CHARS
  <2> QED
    BY <1>4, <2>1
<1>5. CASE v = 63
  <2>1. BASE64_CHARS[63] = 47
    BY DEF BASE64_CHARS
  <2> QED
    BY <1>5, <2>1
<1>6. CASE v = 64
  <2>1. BASE64_CHARS[64] = 61
    BY DEF BASE64_CHARS
  <2> QED
    BY <1>6, <2>1
<1> QED
  BY <1>1, <1>2, <1>3, <1>4, <1>5, <1>6

\* Texts of bytes.
Bytes == Seq(0 .. 255)

\* What is written for a byte that is not there.
ByteAt(s, i) == At(s, i, 0)

\* There are zeros after the end of the text.
LEMMA ByteAtType ==
    ASSUME NEW s \in Bytes, NEW i \in Nat \ {0}
    PROVE  ByteAt(s, i) \in 0 .. 255 /\ (i <= Len(s) => ByteAt(s, i) = s[i])
           /\ (i > Len(s) => ByteAt(s, i) = 0)
<1>1. Len(s) \in Nat
  BY DEF Bytes
<1>2. CASE i <= Len(s)
  <2>1. s[i] \in 0 .. 255
    BY <1>1, <1>2, ElementOfSeq DEF Bytes
  <2> QED
    BY <1>1, <1>2, <2>1 DEF ByteAt, At
<1>3. CASE i > Len(s)
  BY <1>1, <1>3 DEF ByteAt, At
<1> QED
  BY <1>1, <1>2, <1>3

\* The four characters of a group.
LEMMA GroupChars ==
    ASSUME NEW s \in Bytes, NEW i \in 1 .. Len(s)
    PROVE  /\ base64_group(s, i)[1] = ByteAt(s, i) \div 4
           /\ base64_group(s, i)[2] = (ByteAt(s, i) % 4) * 16 + (ByteAt(s, i + 1) \div 16)
           /\ base64_group(s, i)[3] =
                 IF i < Len(s) THEN (ByteAt(s, i + 1) % 16) * 4 + (ByteAt(s, i + 2) \div 64) ELSE 64
           /\ base64_group(s, i)[4] = IF i + 1 < Len(s) THEN ByteAt(s, i + 2) % 64 ELSE 64
           /\ \A j \in 1 .. 4 : base64_group(s, i)[j] \in 0 .. 64
<1>1. Len(s) \in Nat
  BY DEF Bytes
<1> DEFINE x == ByteAt(s, i)
           y == ByteAt(s, i + 1)
           z == ByteAt(s, i + 2)
<1>2. x \in 0 .. 255 /\ y \in 0 .. 255 /\ z \in 0 .. 255
  <2>1. ASSUME NEW j \in Nat \ {0} PROVE ByteAt(s, j) \in 0 .. 255
    BY ByteAtType
  <2>2. i \in Nat \ {0} /\ i + 1 \in Nat \ {0} /\ i + 2 \in Nat \ {0}
    BY <1>1
  <2> QED
    BY <2>1, <2>2
<1>3. s[i] = x /\ (i + 1 <= Len(s) => s[i + 1] = y) /\ (i + 2 <= Len(s) => s[i + 2] = z)
      /\ At(s, i + 1, 0) = y /\ At(s, i + 2, 0) = z
  BY <1>1, ByteAtType DEF ByteAt
<1> HIDE DEF x, y, z
<1>4. base64_group(s, i)[1] = x \div 4 /\ base64_group(s, i)[2] = (x % 4) * 16 + (y \div 16)
  BY <1>3 DEF base64_group
<1>5. base64_group(s, i)[3] = IF i < Len(s) THEN (y % 16) * 4 + (z \div 64) ELSE 64
  BY <1>1, <1>3 DEF base64_group
<1>6. base64_group(s, i)[4] = IF i + 1 < Len(s) THEN z % 64 ELSE 64
  BY <1>1, <1>3 DEF base64_group
<1>7. \A j \in 1 .. 4 : base64_group(s, i)[j] \in 0 .. 64
  <2>1. base64_group(s, i)[1] \in 0 .. 64 /\ base64_group(s, i)[2] \in 0 .. 64
    BY <1>2, <1>4
  <2>2. base64_group(s, i)[3] \in 0 .. 64 /\ base64_group(s, i)[4] \in 0 .. 64
    BY <1>2, <1>5, <1>6
  <2>3. \A j \in 1 .. 4 : j = 1 \/ j = 2 \/ j = 3 \/ j = 4
    OBVIOUS
  <2> DEFINE p == base64_group(s, i)
  <2> HIDE DEF p
  <2>4. p[1] \in 0 .. 64 /\ p[2] \in 0 .. 64 /\ p[3] \in 0 .. 64 /\ p[4] \in 0 .. 64
    BY <2>1, <2>2 DEF p
  <2>5. \A j \in 1 .. 4 : p[j] \in 0 .. 64
    BY <2>3, <2>4
  <2> QED
    BY <2>5 DEF p
<1> QED
  BY <1>4, <1>5, <1>6, <1>7 DEF x, y, z

\* The character at place j of group g.
LEMMA Encoded ==
    ASSUME NEW s \in Bytes, NEW g \in 0 .. Groups(Len(s), 3) - 1, NEW j \in 1 .. 4
    PROVE  /\ 3 * g + 1 \in 1 .. Len(s)
           /\ 4 * g + j \in 1 .. 4 * Groups(Len(s), 3)
           /\ base64_encode(s)[4 * g + j] = BASE64_CHARS[base64_group(s, 3 * g + 1)[j]]
           /\ Part(base64_encode(s), 4 * g + j) = base64_group(s, 3 * g + 1)[j]
<1> DEFINE k == 4 * g + j
           n == Groups(Len(s), 3)
<1>1. Len(s) \in Nat
  BY DEF Bytes
<1>2. n \in Nat /\ 3 * n <= Len(s) + 2 /\ g \in Nat
  BY <1>1, GroupCount
<1>3. 3 * g + 1 \in 1 .. Len(s) /\ k \in 1 .. 4 * n
  BY <1>1, <1>2
<1>4. (k - 1) \div 4 = g /\ ((k - 1) % 4) + 1 = j
  BY <1>2
<1>5. base64_encode(s)[k] =
        BASE64_CHARS[base64_group(s, 3 * ((k - 1) \div 4) + 1)[((k - 1) % 4) + 1]]
  BY <1>3 DEF base64_encode
<1>6. base64_encode(s)[k] = BASE64_CHARS[base64_group(s, 3 * g + 1)[j]]
  BY <1>4, <1>5
<1>7. Len(base64_encode(s)) = 4 * n
  BY <1>2 DEF base64_encode
<1>8. Part(base64_encode(s), k) = base64_decode_char(base64_encode(s)[k])
  BY <1>3, <1>7 DEF Part
<1>9. base64_group(s, 3 * g + 1)[j] \in 0 .. 64
  BY <1>3, GroupChars
<1> QED
  BY <1>3, <1>6, <1>8, <1>9, Alphabet

\* A byte whose upper bits are in one character and whose lower in the next.
LEMMA Halves ==
    ASSUME NEW x \in 0 .. 255
    PROVE  /\ x \div 4 \in 0 .. 63 /\ x % 4 \in 0 .. 3 /\ x = 4 * (x \div 4) + (x % 4)
           /\ x \div 16 \in 0 .. 15 /\ x % 16 \in 0 .. 15 /\ x = 16 * (x \div 16) + (x % 16)
           /\ x \div 64 \in 0 .. 3 /\ x % 64 \in 0 .. 63 /\ x = 64 * (x \div 64) + (x % 64)
<1>1. x \div 4 \in 0 .. 63 /\ x % 4 \in 0 .. 3 /\ x = 4 * (x \div 4) + (x % 4)
  OBVIOUS
<1>2. x \div 16 \in 0 .. 15 /\ x % 16 \in 0 .. 15 /\ x = 16 * (x \div 16) + (x % 16)
  OBVIOUS
<1>3. x \div 64 \in 0 .. 3 /\ x % 64 \in 0 .. 63 /\ x = 64 * (x \div 64) + (x % 64)
  OBVIOUS
<1> QED
  BY <1>1, <1>2, <1>3

\* A sextet is no filler.
LEMMA NoFiller ==
    ASSUME NEW y \in 0 .. 255, NEW z \in 0 .. 255
    PROVE  (y % 16) * 4 + (z \div 64) # 64 /\ z % 64 # 64
  BY Halves
\* base64_decode takes back the bytes of a group.
LEMMA GroupDecodes ==
    ASSUME NEW s \in Bytes, NEW g \in 0 .. Groups(Len(s), 3) - 1
    PROVE  LET out == base64_encode(s)
               i   == 3 * g + 1
           IN  /\ Written(out, 4 * g + 1) =
                     IF i = Len(s) THEN 1 ELSE IF i + 1 = Len(s) THEN 2 ELSE 3
               /\ base64_bytes(out, 4 * g + 1)[1] = s[i]
               /\ i + 1 <= Len(s) => base64_bytes(out, 4 * g + 1)[2] = s[i + 1]
               /\ i + 2 <= Len(s) => base64_bytes(out, 4 * g + 1)[3] = s[i + 2]
<1> DEFINE out == base64_encode(s)
           i == 3 * g + 1
           x == ByteAt(s, i)
           y == ByteAt(s, i + 1)
           z == ByteAt(s, i + 2)
<1>1. Len(s) \in Nat /\ i \in 1 .. Len(s) /\ Groups(Len(s), 3) \in Nat
  <2>1. Len(s) \in Nat
    BY DEF Bytes
  <2>2. Groups(Len(s), 3) \in Nat
    BY <2>1, GroupCount
  <2>3. 1 \in 1 .. 4
    OBVIOUS
  <2>4. 3 * g + 1 \in 1 .. Len(s)
    BY <2>3, Encoded
  <2> QED BY <2>1, <2>2, <2>4
<1>2. /\ Part(out, 4 * g + 1) = x \div 4
      /\ Part(out, 4 * g + 2) = (x % 4) * 16 + (y \div 16)
      /\ Part(out, 4 * g + 3) = IF i < Len(s) THEN (y % 16) * 4 + (z \div 64) ELSE 64
      /\ Part(out, 4 * g + 4) = IF i + 1 < Len(s) THEN z % 64 ELSE 64
  <2>1. \A j \in {1, 2, 3, 4} : j \in 1 .. 4
    OBVIOUS
  <2>2. \A j \in {1, 2, 3, 4} : Part(out, 4 * g + j) = base64_group(s, i)[j]
    BY <2>1, Encoded
  <2> QED
    BY <1>1, <2>2, GroupChars
<1>3. x \in 0 .. 255 /\ y \in 0 .. 255 /\ z \in 0 .. 255
      /\ x = s[i] /\ (i + 1 <= Len(s) => y = s[i + 1]) /\ (i + 2 <= Len(s) => z = s[i + 2])
  <2> DEFINE j == i + 1
             k == i + 2
  <2>1. i \in Nat \ {0} /\ j \in Nat \ {0} /\ k \in Nat \ {0} /\ i <= Len(s)
    BY <1>1
  <2> HIDE DEF i, j, k
  <2>2. x \in 0 .. 255 /\ x = s[i]
    BY <2>1, ByteAtType
  <2>3. ByteAt(s, j) \in 0 .. 255 /\ (j <= Len(s) => ByteAt(s, j) = s[j])
    BY <2>1, ByteAtType
  <2>4. ByteAt(s, k) \in 0 .. 255 /\ (k <= Len(s) => ByteAt(s, k) = s[k])
    BY <2>1, ByteAtType
  <2> QED
    BY <2>2, <2>3, <2>4 DEF j, k
<1>4. 4 * g + 1 + 1 = 4 * g + 2 /\ 4 * g + 1 + 2 = 4 * g + 3 /\ 4 * g + 1 + 3 = 4 * g + 4
  BY <1>1
<1> DEFINE p == Part(out, 4 * g + 1)
           q == Part(out, 4 * g + 2)
           r == Part(out, 4 * g + 3)
           t == Part(out, 4 * g + 4)
<1>5. Written(out, 4 * g + 1) = IF r = 64 THEN 1 ELSE IF t = 64 THEN 2 ELSE 3
  BY <1>4 DEF Written
<1>6. base64_bytes(out, 4 * g + 1) = << ((p * 4) % 256) + ((q \div 16) % 4),
                                        ((q * 16) % 256) + ((r \div 4) % 16),
                                        ((r * 64) % 256) + (t % 64) >>
  BY <1>4 DEF base64_bytes
<1> HIDE DEF i, x, y, z, p, q, r, t, out
<1>7. /\ p = x \div 4
      /\ q = (x % 4) * 16 + (y \div 16)
      /\ r = IF i < Len(s) THEN (y % 16) * 4 + (z \div 64) ELSE 64
      /\ t = IF i + 1 < Len(s) THEN z % 64 ELSE 64
  BY <1>2 DEF p, q, r, t
<1>8. r = 64 <=> i = Len(s)
  <2>1. CASE i < Len(s)
    BY <1>1, <1>3, <1>7, <2>1, NoFiller
  <2>2. CASE i = Len(s)
    BY <1>1, <1>7, <2>2
  <2> QED
    BY <1>1, <2>1, <2>2
<1>9. t = 64 <=> i + 1 >= Len(s)
  <2>1. CASE i + 1 < Len(s)
    BY <1>1, <1>3, <1>7, <2>1, NoFiller
  <2>2. CASE i + 1 >= Len(s)
    BY <1>1, <1>7, <2>2
  <2> QED
    BY <1>1, <2>1, <2>2
<1>10. Written(out, 4 * g + 1) = IF i = Len(s) THEN 1 ELSE IF i + 1 = Len(s) THEN 2 ELSE 3
  BY <1>1, <1>5, <1>8, <1>9
<1> DEFINE x4 == x % 4
           y1 == y \div 16
           y4 == y % 16
           z1 == z \div 64
           z4 == z % 64
<1>11. /\ x4 \in 0 .. 3 /\ y1 \in 0 .. 15 /\ y4 \in 0 .. 15 /\ z1 \in 0 .. 3 /\ z4 \in 0 .. 63
       /\ p \in 0 .. 63 /\ x = 4 * p + x4 /\ y = 16 * y1 + y4 /\ z = 64 * z1 + z4
       /\ q = x4 * 16 + y1
       /\ i + 1 <= Len(s) => r = y4 * 4 + z1
       /\ i + 2 <= Len(s) => t = z4
  <2>1. /\ x4 \in 0 .. 3 /\ y1 \in 0 .. 15 /\ y4 \in 0 .. 15 /\ z1 \in 0 .. 3 /\ z4 \in 0 .. 63
        /\ p \in 0 .. 63 /\ x = 4 * p + x4 /\ y = 16 * y1 + y4 /\ z = 64 * z1 + z4
    <3>1. x4 \in 0 .. 3 /\ p \in 0 .. 63 /\ x = 4 * p + x4
      <4>1. x % 4 \in 0 .. 3 /\ x \div 4 \in 0 .. 63 /\ x = 4 * (x \div 4) + (x % 4)
        BY <1>3, Halves
      <4>2. p = x \div 4
        BY <1>7
      <4> QED
        BY <4>1, <4>2
    <3>2. y1 \in 0 .. 15 /\ y4 \in 0 .. 15 /\ y = 16 * y1 + y4
      BY <1>3, Halves
    <3>3. z1 \in 0 .. 3 /\ z4 \in 0 .. 63 /\ z = 64 * z1 + z4
      BY <1>3, Halves
    <3> QED
      BY <3>1, <3>2, <3>3
  <2>2. /\ q = x4 * 16 + y1
        /\ i + 1 <= Len(s) => r = y4 * 4 + z1
        /\ i + 2 <= Len(s) => t = z4
    BY <1>1, <1>7
  <2> QED
    BY <2>1, <2>2
<1> HIDE DEF x4, y1, y4, z1, z4
<1>12. ((p * 4) % 256) + ((q \div 16) % 4) = x
  <2>1. (p * 4) % 256 = 4 * p /\ (q \div 16) % 4 = x4
    BY <1>11
  <2> QED
    BY <1>11, <2>1
<1>13. i + 1 <= Len(s) => ((q * 16) % 256) + ((r \div 4) % 16) = y
  <2> SUFFICES ASSUME i + 1 <= Len(s) PROVE ((q * 16) % 256) + ((r \div 4) % 16) = y
    OBVIOUS
  <2>1. (q * 16) % 256 = 16 * y1 /\ (r \div 4) % 16 = y4
    BY <1>11
  <2> QED
    BY <1>11, <2>1
<1>14. i + 2 <= Len(s) => ((r * 64) % 256) + (t % 64) = z
  <2> SUFFICES ASSUME i + 2 <= Len(s) PROVE ((r * 64) % 256) + (t % 64) = z
    OBVIOUS
  <2>1. (r * 64) % 256 = 64 * z1 /\ t % 64 = z4
    <3>1. r = y4 * 4 + z1 /\ t = z4
      BY <1>1, <1>11
    <3> QED
      BY <1>11, <3>1
  <2> QED
    BY <1>11, <2>1
<1> DEFINE b == base64_bytes(out, 4 * g + 1)
           e1 == ((p * 4) % 256) + ((q \div 16) % 4)
           e2 == ((q * 16) % 256) + ((r \div 4) % 16)
           e3 == ((r * 64) % 256) + (t % 64)
<1>15. b = <<e1, e2, e3>>
  BY <1>6
<1>16. e1 = x /\ (i + 1 <= Len(s) => e2 = y) /\ (i + 2 <= Len(s) => e3 = z)
  BY <1>12, <1>13, <1>14
<1> HIDE DEF b, e1, e2, e3
<1>17. b[1] = s[i] /\ (i + 1 <= Len(s) => b[2] = s[i + 1]) /\ (i + 2 <= Len(s) => b[3] = s[i + 2])
  <2>1. i + 2 <= Len(s) => i + 1 <= Len(s)
    BY <1>1
  <2> QED
    BY <1>3, <1>15, <1>16, <2>1
<1> QED
  BY <1>10, <1>17 DEF i, out, b

\* base64_decode takes back what base64_encode made of any text.
LEMMA DecodeEncode ==
    ASSUME NEW s \in Bytes
    PROVE  base64_decode(base64_encode(s)) = s
<1> DEFINE out == base64_encode(s)
           n == Len(s)
           groups == Groups(n, 3)
           short == {g \in 1 .. groups : Written(out, 4 * g - 3) < 3}
           length == IF short = {} THEN 3 * groups
                     ELSE 3 * (Min(short) - 1) + Written(out, 4 * Min(short) - 3)
<1>1. n \in Nat /\ groups \in Nat /\ n <= 3 * groups /\ 3 * groups <= n + 2
  <2>1. n \in Nat
    BY DEF Bytes
  <2> QED
    BY <2>1, GroupCount
<1>2. Groups(Len(out), 4) = groups
  <2>1. Len(out) = 4 * groups
    BY <1>1 DEF base64_encode
  <2> QED
    BY <1>1, <2>1, GroupCount
<1>3. base64_decode(out) = [k \in 1 .. length |->
         base64_bytes(out, 4 * ((k - 1) \div 3) + 1)[((k - 1) % 3) + 1]]
  BY <1>2 DEF base64_decode
<1>4. \A g \in 1 .. groups :
         Written(out, 4 * g - 3) = IF 3 * g - 2 = n THEN 1 ELSE IF 3 * g - 1 = n THEN 2 ELSE 3
  <2> TAKE g \in 1 .. groups
  <2>1. g - 1 \in 0 .. groups - 1 /\ 4 * (g - 1) + 1 = 4 * g - 3
        /\ 3 * (g - 1) + 1 = 3 * g - 2 /\ 3 * (g - 1) + 1 + 1 = 3 * g - 1
    BY <1>1
  <2>2. Written(out, 4 * (g - 1) + 1) =
          IF 3 * (g - 1) + 1 = n THEN 1 ELSE IF 3 * (g - 1) + 1 + 1 = n THEN 2 ELSE 3
    BY <2>1, GroupDecodes
  <2> QED
    BY <2>1, <2>2
<1> HIDE DEF out, groups
<1>5. length = n
  <2>1. CASE 3 * groups = n
    <3>1. short = {}
      BY <1>1, <1>4, <2>1
    <3> QED
      BY <2>1, <3>1
  <2>2. CASE 3 * groups # n
    <3>1. groups \in 1 .. groups
      BY <1>1, <2>2
    <3>2. \A g \in 1 .. groups : Written(out, 4 * g - 3) < 3 <=> g = groups
      BY <1>1, <1>4, <2>2
    <3>3. short = {groups}
      BY <3>1, <3>2
    <3>4. Min(short) = groups
      BY <1>1, <3>3 DEF Min
    <3>5. length = 3 * (groups - 1) + Written(out, 4 * groups - 3)
      BY <3>3, <3>4
    <3>6. Written(out, 4 * groups - 3) = IF 3 * groups - 2 = n THEN 1 ELSE 2
      BY <1>1, <1>4, <2>2, <3>1
    <3> QED
      BY <1>1, <2>2, <3>5, <3>6
  <2> QED
    BY <2>1, <2>2
<1>6. \A k \in 1 .. n : base64_bytes(out, 4 * ((k - 1) \div 3) + 1)[((k - 1) % 3) + 1] = s[k]
  <2> TAKE k \in 1 .. n
  <2> DEFINE g == (k - 1) \div 3
  <2>1. g \in 0 .. groups - 1
    BY <1>1
  <2>2. CASE (k - 1) % 3 = 0
    <3>1. 3 * g + 1 = k /\ ((k - 1) % 3) + 1 = 1
      BY <1>1, <2>2
    <3>2. base64_bytes(out, 4 * g + 1)[1] = s[3 * g + 1]
      BY <2>1, GroupDecodes DEF out, groups
    <3> QED
      BY <3>1, <3>2
  <2>3. CASE (k - 1) % 3 = 1
    <3>1. 3 * g + 1 + 1 = k /\ ((k - 1) % 3) + 1 = 2
      BY <1>1, <2>3
    <3>2. base64_bytes(out, 4 * g + 1)[2] = s[3 * g + 1 + 1]
      BY <1>1, <2>1, <3>1, GroupDecodes DEF out, groups
    <3> QED
      BY <3>1, <3>2
  <2>4. CASE (k - 1) % 3 = 2
    <3>1. 3 * g + 1 + 2 = k /\ ((k - 1) % 3) + 1 = 3
      BY <1>1, <2>4
    <3>2. base64_bytes(out, 4 * g + 1)[3] = s[3 * g + 1 + 2]
      BY <1>1, <2>1, <3>1, GroupDecodes DEF out, groups
    <3> QED
      BY <3>1, <3>2
  <2> QED
    BY <1>1, <2>2, <2>3, <2>4
<1> DEFINE d == base64_decode(out)
<1>7. d = [k \in 1 .. n |-> base64_bytes(out, 4 * ((k - 1) \div 3) + 1)[((k - 1) % 3) + 1]]
  BY <1>3, <1>5
<1>8. DOMAIN d = 1 .. n /\ \A k \in 1 .. n : d[k] = s[k]
  BY <1>6, <1>7
<1> HIDE DEF d
<1>9. d = [k \in 1 .. n |-> d[k]] /\ s = [k \in 1 .. n |-> s[k]]
  BY <1>7, LenProperties DEF Bytes
<1> QED
  BY <1>8, <1>9 DEF d, out

\* The bits of the text, with zeros after its end.
LEMMA BitOfText ==
    ASSUME NEW s \in Bytes, NEW i \in Nat \ {0}, NEW e \in 1 .. 8
    PROVE  At(Bits(s), 8 * (i - 1) + e, 0) = BitOf(ByteAt(s, i), e)
<1> DEFINE b == 8 * (i - 1) + e
<1>1. Len(s) \in Nat
  BY DEF Bytes
<1>2. Len(Bits(s)) = 8 * Len(s)
  BY <1>1 DEF Bits
<1>3. b \in Nat \ {0} /\ (b - 1) \div 8 = i - 1 /\ ((b - 1) % 8) + 1 = e
      /\ (b <= 8 * Len(s) <=> i <= Len(s))
  BY <1>1
<1>4. CASE i <= Len(s)
  <2>1. Bits(s)[b] =
          (s[((b - 1) \div 8) + 1] \div <<128, 64, 32, 16, 8, 4, 2, 1>>[((b - 1) % 8) + 1]) % 2
    BY <1>1, <1>3, <1>4 DEF Bits
  <2>2. (b - 1) \div 8 + 1 = i
    BY <1>3
  <2>3. Bits(s)[b] = (s[i] \div <<128, 64, 32, 16, 8, 4, 2, 1>>[e]) % 2
    BY <1>3, <2>1, <2>2
  <2>4. At(Bits(s), b, 0) = Bits(s)[b] /\ ByteAt(s, i) = s[i]
    BY <1>1, <1>2, <1>3, <1>4, ByteAtType DEF At
  <2> QED
    BY <2>3, <2>4 DEF BitOf
<1>5. CASE i > Len(s)
  <2>1. At(Bits(s), b, 0) = 0
    BY <1>1, <1>2, <1>3, <1>5 DEF At
  <2>2. ByteAt(s, i) = 0
    BY <1>5, ByteAtType
  <2>3. BitOf(0, e) = 0
    BY DEF BitOf
  <2> QED
    BY <2>1, <2>2, <2>3
<1> QED
  BY <1>1, <1>4, <1>5

\* A byte's parts from its bits.
LEMMA PartsOfByte ==
    ASSUME NEW v \in 0 .. 255
    PROVE  /\ v \div 4 = 32 * BitOf(v, 1) + 16 * BitOf(v, 2) + 8 * BitOf(v, 3) + 4 * BitOf(v, 4)
                           + 2 * BitOf(v, 5) + BitOf(v, 6)
           /\ v % 4 = 2 * BitOf(v, 7) + BitOf(v, 8)
           /\ v \div 16 = 8 * BitOf(v, 1) + 4 * BitOf(v, 2) + 2 * BitOf(v, 3) + BitOf(v, 4)
           /\ v % 16 = 8 * BitOf(v, 5) + 4 * BitOf(v, 6) + 2 * BitOf(v, 7) + BitOf(v, 8)
           /\ v \div 64 = 2 * BitOf(v, 1) + BitOf(v, 2)
           /\ v % 64 = 32 * BitOf(v, 3) + 16 * BitOf(v, 4) + 8 * BitOf(v, 5) + 4 * BitOf(v, 6)
                           + 2 * BitOf(v, 7) + BitOf(v, 8)
           /\ BitOf(v, 1) \in Int /\ BitOf(v, 2) \in Int
           /\ BitOf(v, 3) \in Int /\ BitOf(v, 4) \in Int
           /\ BitOf(v, 5) \in Int /\ BitOf(v, 6) \in Int
           /\ BitOf(v, 7) \in Int /\ BitOf(v, 8) \in Int
<1> DEFINE b1 == BitOf(v, 1) b2 == BitOf(v, 2) b3 == BitOf(v, 3) b4 == BitOf(v, 4)
           b5 == BitOf(v, 5) b6 == BitOf(v, 6) b7 == BitOf(v, 7) b8 == BitOf(v, 8)
<1>1. /\ b1 \in {0, 1} /\ b2 \in {0, 1} /\ b3 \in {0, 1} /\ b4 \in {0, 1}
      /\ b5 \in {0, 1} /\ b6 \in {0, 1} /\ b7 \in {0, 1} /\ b8 \in {0, 1}
      /\ v = 128 * b1 + 64 * b2 + 32 * b3 + 16 * b4 + 8 * b5 + 4 * b6 + 2 * b7 + b8
  BY ByteBits, Zenon
<1> HIDE DEF b1, b2, b3, b4, b5, b6, b7, b8
<1>2. /\ v \div 4 = 32 * b1 + 16 * b2 + 8 * b3 + 4 * b4 + 2 * b5 + b6
      /\ v % 4 = 2 * b7 + b8
  BY <1>1
<1>3. /\ v \div 16 = 8 * b1 + 4 * b2 + 2 * b3 + b4
      /\ v % 16 = 8 * b5 + 4 * b6 + 2 * b7 + b8
  BY <1>1
<1>4. /\ v \div 64 = 2 * b1 + b2
      /\ v % 64 = 32 * b3 + 16 * b4 + 8 * b5 + 4 * b6 + 2 * b7 + b8
  BY <1>1
<1>5. /\ b1 \in Int /\ b2 \in Int /\ b3 \in Int /\ b4 \in Int
      /\ b5 \in Int /\ b6 \in Int /\ b7 \in Int /\ b8 \in Int
  BY <1>1
<1> QED
  BY <1>2, <1>3, <1>4, <1>5 DEF b1, b2, b3, b4, b5, b6, b7, b8

\* Six bits of two bytes.
LEMMA SecondSextet ==
    ASSUME NEW x \in 0 .. 255, NEW y \in 0 .. 255
    PROVE  32 * BitOf(x, 7) + 16 * BitOf(x, 8)
             + 8 * BitOf(y, 1) + 4 * BitOf(y, 2) + 2 * BitOf(y, 3) + BitOf(y, 4)
             = (x % 4) * 16 + (y \div 16)
<1> DEFINE x7 == BitOf(x, 7) x8 == BitOf(x, 8)
           y1 == BitOf(y, 1) y2 == BitOf(y, 2) y3 == BitOf(y, 3) y4 == BitOf(y, 4)
           high == x % 4
           low == y \div 16
<1>1. high = 2 * x7 + x8 /\ x7 \in Int /\ x8 \in Int
  BY PartsOfByte
<1>2. low = 8 * y1 + 4 * y2 + 2 * y3 + y4 /\ y1 \in Int /\ y2 \in Int /\ y3 \in Int /\ y4 \in Int
  BY PartsOfByte, Zenon
<1> HIDE DEF high, low, x7, x8, y1, y2, y3, y4
<1>3. 32 * x7 + 16 * x8 + 8 * y1 + 4 * y2 + 2 * y3 + y4 = high * 16 + low
  BY <1>1, <1>2
<1> QED
  BY <1>3 DEF high, low, x7, x8, y1, y2, y3, y4

\* Six bits of the next two bytes.
LEMMA ThirdSextet ==
    ASSUME NEW y \in 0 .. 255, NEW z \in 0 .. 255
    PROVE  32 * BitOf(y, 5) + 16 * BitOf(y, 6) + 8 * BitOf(y, 7) + 4 * BitOf(y, 8)
             + 2 * BitOf(z, 1) + BitOf(z, 2)
             = (y % 16) * 4 + (z \div 64)
<1> DEFINE y5 == BitOf(y, 5) y6 == BitOf(y, 6) y7 == BitOf(y, 7) y8 == BitOf(y, 8)
           z1 == BitOf(z, 1) z2 == BitOf(z, 2)
           high == y % 16
           low == z \div 64
<1>1. high = 8 * y5 + 4 * y6 + 2 * y7 + y8 /\ y5 \in Int /\ y6 \in Int /\ y7 \in Int /\ y8 \in Int
  BY PartsOfByte
<1>2. low = 2 * z1 + z2 /\ z1 \in Int /\ z2 \in Int
  BY PartsOfByte
<1> HIDE DEF high, low, y5, y6, y7, y8, z1, z2
<1>3. 32 * y5 + 16 * y6 + 8 * y7 + 4 * y8 + 2 * z1 + z2 = high * 4 + low
  BY <1>1, <1>2
<1> QED
  BY <1>3 DEF high, low, y5, y6, y7, y8, z1, z2

\* The six bits of the place j of group g.
LEMMA SextetOf ==
    ASSUME NEW s \in Bytes, NEW g \in 0 .. Groups(Len(s), 3) - 1
    PROVE  LET i == 3 * g + 1
               x == ByteAt(s, i)
               y == ByteAt(s, i + 1)
               z == ByteAt(s, i + 2)
           IN  /\ Sextet(Bits(s), 4 * g + 1) = x \div 4
               /\ Sextet(Bits(s), 4 * g + 2) = (x % 4) * 16 + (y \div 16)
               /\ Sextet(Bits(s), 4 * g + 3) = (y % 16) * 4 + (z \div 64)
               /\ Sextet(Bits(s), 4 * g + 4) = z % 64
<1> DEFINE i == 3 * g + 1
           x == ByteAt(s, i)
           i2 == i + 1
           i3 == i + 2
           y == ByteAt(s, i2)
           z == ByteAt(s, i3)
           bit(n) == At(Bits(s), n, 0)
<1>1. g \in Nat /\ i \in Nat \ {0} /\ i2 \in Nat \ {0} /\ i3 \in Nat \ {0}
  <2>1. Len(s) \in Nat
    BY DEF Bytes
  <2>2. Groups(Len(s), 3) \in Nat
    BY <2>1, GroupCount
  <2> QED
    BY <2>2
<1> HIDE DEF i2, i3
<1>2. x \in 0 .. 255 /\ y \in 0 .. 255 /\ z \in 0 .. 255
  <2>1. ASSUME NEW j \in Nat \ {0} PROVE ByteAt(s, j) \in 0 .. 255
    BY ByteAtType
  <2>2. i \in Nat \ {0} /\ i2 \in Nat \ {0} /\ i3 \in Nat \ {0}
    BY <1>1
  <2> QED
    BY <2>1, <2>2
<1>3. \A e \in 1 .. 8 : bit(8 * (i - 1) + e) = BitOf(x, e)
  BY <1>1, BitOfText
<1>4. \A e \in 1 .. 8 : bit(8 * (i2 - 1) + e) = BitOf(y, e)
  BY <1>1, BitOfText
<1>5. \A e \in 1 .. 8 : bit(8 * (i3 - 1) + e) = BitOf(z, e)
  BY <1>1, BitOfText
<1>6. \A e \in 1 .. 8 : 8 * (i - 1) + e = 24 * g + e /\ 8 * (i2 - 1) + e = 24 * g + 8 + e
                        /\ 8 * (i3 - 1) + e = 24 * g + 16 + e
  BY <1>1 DEF i2, i3
<1> HIDE DEF x, y, z, bit
<1>7. \A e \in 1 .. 8 : bit(24 * g + e) = BitOf(x, e) /\ bit(24 * g + 8 + e) = BitOf(y, e)
                        /\ bit(24 * g + 16 + e) = BitOf(z, e)
  BY <1>3, <1>4, <1>5, <1>6
<1>8. Sextet(Bits(s), 4 * g + 1) = x \div 4
  <2>1. /\ 6 * (4 * g + 1 - 1) + 1 = 24 * g + 1
        /\ 6 * (4 * g + 1 - 1) + 2 = 24 * g + 2
        /\ 6 * (4 * g + 1 - 1) + 3 = 24 * g + 3
        /\ 6 * (4 * g + 1 - 1) + 4 = 24 * g + 4
        /\ 6 * (4 * g + 1 - 1) + 5 = 24 * g + 5
        /\ 6 * (4 * g + 1 - 1) + 6 = 24 * g + 6
    BY <1>1
  <2>2. /\ bit(24 * g + 1) = BitOf(x, 1)
        /\ bit(24 * g + 2) = BitOf(x, 2)
        /\ bit(24 * g + 3) = BitOf(x, 3)
        /\ bit(24 * g + 4) = BitOf(x, 4)
        /\ bit(24 * g + 5) = BitOf(x, 5)
        /\ bit(24 * g + 6) = BitOf(x, 6)
    BY <1>7
  <2>3. /\ bit(6 * (4 * g + 1 - 1) + 1) = BitOf(x, 1)
        /\ bit(6 * (4 * g + 1 - 1) + 2) = BitOf(x, 2)
        /\ bit(6 * (4 * g + 1 - 1) + 3) = BitOf(x, 3)
        /\ bit(6 * (4 * g + 1 - 1) + 4) = BitOf(x, 4)
        /\ bit(6 * (4 * g + 1 - 1) + 5) = BitOf(x, 5)
        /\ bit(6 * (4 * g + 1 - 1) + 6) = BitOf(x, 6)
    BY <2>1, <2>2
  <2>4. Sextet(Bits(s), 4 * g + 1) =
          32 * BitOf(x, 1) + 16 * BitOf(x, 2) + 8 * BitOf(x, 3) + 4 * BitOf(x, 4)
            + 2 * BitOf(x, 5) + BitOf(x, 6)
    BY <2>3 DEF Sextet, bit
  <2>5. 32 * BitOf(x, 1) + 16 * BitOf(x, 2) + 8 * BitOf(x, 3) + 4 * BitOf(x, 4)
            + 2 * BitOf(x, 5) + BitOf(x, 6) = x \div 4
    BY <1>2, PartsOfByte, Zenon
  <2> QED
    BY <2>4, <2>5
<1>9. Sextet(Bits(s), 4 * g + 2) = (x % 4) * 16 + (y \div 16)
  <2>1. /\ 6 * (4 * g + 2 - 1) + 1 = 24 * g + 7
        /\ 6 * (4 * g + 2 - 1) + 2 = 24 * g + 8
        /\ 6 * (4 * g + 2 - 1) + 3 = 24 * g + 8 + 1
        /\ 6 * (4 * g + 2 - 1) + 4 = 24 * g + 8 + 2
        /\ 6 * (4 * g + 2 - 1) + 5 = 24 * g + 8 + 3
        /\ 6 * (4 * g + 2 - 1) + 6 = 24 * g + 8 + 4
    BY <1>1
  <2>2. /\ bit(24 * g + 7) = BitOf(x, 7)
        /\ bit(24 * g + 8) = BitOf(x, 8)
        /\ bit(24 * g + 8 + 1) = BitOf(y, 1)
        /\ bit(24 * g + 8 + 2) = BitOf(y, 2)
        /\ bit(24 * g + 8 + 3) = BitOf(y, 3)
        /\ bit(24 * g + 8 + 4) = BitOf(y, 4)
    BY <1>7
  <2>3. /\ bit(6 * (4 * g + 2 - 1) + 1) = BitOf(x, 7)
        /\ bit(6 * (4 * g + 2 - 1) + 2) = BitOf(x, 8)
        /\ bit(6 * (4 * g + 2 - 1) + 3) = BitOf(y, 1)
        /\ bit(6 * (4 * g + 2 - 1) + 4) = BitOf(y, 2)
        /\ bit(6 * (4 * g + 2 - 1) + 5) = BitOf(y, 3)
        /\ bit(6 * (4 * g + 2 - 1) + 6) = BitOf(y, 4)
    BY <2>1, <2>2
  <2>4. Sextet(Bits(s), 4 * g + 2) =
          32 * BitOf(x, 7) + 16 * BitOf(x, 8) + 8 * BitOf(y, 1) + 4 * BitOf(y, 2)
            + 2 * BitOf(y, 3) + BitOf(y, 4)
    BY <2>3 DEF Sextet, bit
  <2>5. 32 * BitOf(x, 7) + 16 * BitOf(x, 8) + 8 * BitOf(y, 1) + 4 * BitOf(y, 2)
            + 2 * BitOf(y, 3) + BitOf(y, 4) = (x % 4) * 16 + (y \div 16)
    BY <1>2, SecondSextet, Zenon
  <2> QED
    BY <2>4, <2>5
<1>10. Sextet(Bits(s), 4 * g + 3) = (y % 16) * 4 + (z \div 64)
  <2>1. /\ 6 * (4 * g + 3 - 1) + 1 = 24 * g + 8 + 5
        /\ 6 * (4 * g + 3 - 1) + 2 = 24 * g + 8 + 6
        /\ 6 * (4 * g + 3 - 1) + 3 = 24 * g + 8 + 7
        /\ 6 * (4 * g + 3 - 1) + 4 = 24 * g + 8 + 8
        /\ 6 * (4 * g + 3 - 1) + 5 = 24 * g + 16 + 1
        /\ 6 * (4 * g + 3 - 1) + 6 = 24 * g + 16 + 2
    BY <1>1
  <2>2. /\ bit(24 * g + 8 + 5) = BitOf(y, 5)
        /\ bit(24 * g + 8 + 6) = BitOf(y, 6)
        /\ bit(24 * g + 8 + 7) = BitOf(y, 7)
        /\ bit(24 * g + 8 + 8) = BitOf(y, 8)
        /\ bit(24 * g + 16 + 1) = BitOf(z, 1)
        /\ bit(24 * g + 16 + 2) = BitOf(z, 2)
    BY <1>7
  <2>3. /\ bit(6 * (4 * g + 3 - 1) + 1) = BitOf(y, 5)
        /\ bit(6 * (4 * g + 3 - 1) + 2) = BitOf(y, 6)
        /\ bit(6 * (4 * g + 3 - 1) + 3) = BitOf(y, 7)
        /\ bit(6 * (4 * g + 3 - 1) + 4) = BitOf(y, 8)
        /\ bit(6 * (4 * g + 3 - 1) + 5) = BitOf(z, 1)
        /\ bit(6 * (4 * g + 3 - 1) + 6) = BitOf(z, 2)
    BY <2>1, <2>2
  <2>4. Sextet(Bits(s), 4 * g + 3) =
          32 * BitOf(y, 5) + 16 * BitOf(y, 6) + 8 * BitOf(y, 7) + 4 * BitOf(y, 8)
            + 2 * BitOf(z, 1) + BitOf(z, 2)
    BY <2>3 DEF Sextet, bit
  <2>5. 32 * BitOf(y, 5) + 16 * BitOf(y, 6) + 8 * BitOf(y, 7) + 4 * BitOf(y, 8)
            + 2 * BitOf(z, 1) + BitOf(z, 2) = (y % 16) * 4 + (z \div 64)
    BY <1>2, ThirdSextet, Zenon
  <2> QED
    BY <2>4, <2>5
<1>11. Sextet(Bits(s), 4 * g + 4) = z % 64
  <2>1. /\ 6 * (4 * g + 4 - 1) + 1 = 24 * g + 16 + 3
        /\ 6 * (4 * g + 4 - 1) + 2 = 24 * g + 16 + 4
        /\ 6 * (4 * g + 4 - 1) + 3 = 24 * g + 16 + 5
        /\ 6 * (4 * g + 4 - 1) + 4 = 24 * g + 16 + 6
        /\ 6 * (4 * g + 4 - 1) + 5 = 24 * g + 16 + 7
        /\ 6 * (4 * g + 4 - 1) + 6 = 24 * g + 16 + 8
    BY <1>1
  <2>2. /\ bit(24 * g + 16 + 3) = BitOf(z, 3)
        /\ bit(24 * g + 16 + 4) = BitOf(z, 4)
        /\ bit(24 * g + 16 + 5) = BitOf(z, 5)
        /\ bit(24 * g + 16 + 6) = BitOf(z, 6)
        /\ bit(24 * g + 16 + 7) = BitOf(z, 7)
        /\ bit(24 * g + 16 + 8) = BitOf(z, 8)
    BY <1>7
  <2>3. /\ bit(6 * (4 * g + 4 - 1) + 1) = BitOf(z, 3)
        /\ bit(6 * (4 * g + 4 - 1) + 2) = BitOf(z, 4)
        /\ bit(6 * (4 * g + 4 - 1) + 3) = BitOf(z, 5)
        /\ bit(6 * (4 * g + 4 - 1) + 4) = BitOf(z, 6)
        /\ bit(6 * (4 * g + 4 - 1) + 5) = BitOf(z, 7)
        /\ bit(6 * (4 * g + 4 - 1) + 6) = BitOf(z, 8)
    BY <2>1, <2>2
  <2>4. Sextet(Bits(s), 4 * g + 4) =
          32 * BitOf(z, 3) + 16 * BitOf(z, 4) + 8 * BitOf(z, 5) + 4 * BitOf(z, 6)
            + 2 * BitOf(z, 7) + BitOf(z, 8)
    BY <2>3 DEF Sextet, bit
  <2>5. 32 * BitOf(z, 3) + 16 * BitOf(z, 4) + 8 * BitOf(z, 5) + 4 * BitOf(z, 6)
            + 2 * BitOf(z, 7) + BitOf(z, 8) = z % 64
    BY <1>2, PartsOfByte, Zenon
  <2> QED
    BY <2>4, <2>5
<1> QED
  BY <1>8, <1>9, <1>10, <1>11 DEF i2, i3, x, y, z

\* Every character is the text's next six bits, or a filler after the last.
LEMMA EncodedBits ==
    ASSUME NEW s \in Bytes, NEW k \in 1 .. 4 * Groups(Len(s), 3)
    PROVE  base64_encode(s)[k] =
             IF k <= Groups(8 * Len(s), 6) THEN BASE64_CHARS[Sextet(Bits(s), k)] ELSE Equals
<1> DEFINE n == Len(s)
           groups == Groups(n, 3)
           g == (k - 1) \div 4
           i == 3 * g + 1
           x == ByteAt(s, i)
           y == ByteAt(s, i + 1)
           z == ByteAt(s, i + 2)
           p == base64_group(s, i)
           out == base64_encode(s)
<1>1. n \in Nat /\ groups \in Nat
  <2>1. n \in Nat
    BY DEF Bytes
  <2> QED
    BY <2>1, GroupCount
<1>2. g \in 0 .. groups - 1
  BY <1>1
<1>3. \A j \in 1 .. 4 : out[4 * g + j] = BASE64_CHARS[p[j]]
  BY <1>2, Encoded
<1>4. i \in 1 .. n
  <2>1. 1 \in 1 .. 4
    OBVIOUS
  <2> QED
    BY <1>2, <2>1, Encoded
<1>5. /\ p[1] = x \div 4
      /\ p[2] = (x % 4) * 16 + (y \div 16)
      /\ p[3] = IF i < n THEN (y % 16) * 4 + (z \div 64) ELSE 64
      /\ p[4] = IF i + 1 < n THEN z % 64 ELSE 64
  BY <1>4, GroupChars
<1>6. /\ Sextet(Bits(s), 4 * g + 1) = x \div 4
      /\ Sextet(Bits(s), 4 * g + 2) = (x % 4) * 16 + (y \div 16)
      /\ Sextet(Bits(s), 4 * g + 3) = (y % 16) * 4 + (z \div 64)
      /\ Sextet(Bits(s), 4 * g + 4) = z % 64
  BY <1>2, SextetOf
<1>7. BASE64_CHARS[64] = Equals
  BY DEF BASE64_CHARS, Equals, Plus, Slash
<1>8. \A m \in Nat : m <= Groups(8 * n, 6) <=> 6 * (m - 1) < 8 * n
  BY <1>1 DEF Groups
<1>9. /\ 4 * g + 1 <= Groups(8 * n, 6)
      /\ 4 * g + 2 <= Groups(8 * n, 6)
      /\ 4 * g + 3 <= Groups(8 * n, 6) <=> i < n
      /\ 4 * g + 4 <= Groups(8 * n, 6) <=> i + 1 < n
  <2>1. ASSUME NEW m \in Nat PROVE m <= Groups(8 * n, 6) <=> 6 * (m - 1) < 8 * n
    BY <1>8
  <2> DEFINE m1 == 4 * g + 1
             m2 == 4 * g + 2
             m3 == 4 * g + 3
             m4 == 4 * g + 4
  <2>2. /\ m1 \in Nat /\ m2 \in Nat /\ m3 \in Nat /\ m4 \in Nat
        /\ 6 * (m1 - 1) < 8 * n /\ 6 * (m2 - 1) < 8 * n
        /\ (6 * (m3 - 1) < 8 * n <=> i < n) /\ (6 * (m4 - 1) < 8 * n <=> i + 1 < n)
    BY <1>1, <1>2, <1>4
  <2> HIDE DEF g, i, n, m1, m2, m3, m4
  <2>3. /\ m1 <= Groups(8 * n, 6) /\ m2 <= Groups(8 * n, 6)
        /\ (m3 <= Groups(8 * n, 6) <=> i < n) /\ (m4 <= Groups(8 * n, 6) <=> i + 1 < n)
    BY <2>1, <2>2
  <2> QED
    BY <2>3 DEF g, i, n, m1, m2, m3, m4
<1> HIDE DEF x, y, z, p, out
<1>10. k = 4 * g + 1 \/ k = 4 * g + 2 \/ k = 4 * g + 3 \/ k = 4 * g + 4
  BY <1>1
<1> HIDE DEF g, i, n
<1>11. /\ out[4 * g + 1] = BASE64_CHARS[p[1]] /\ out[4 * g + 2] = BASE64_CHARS[p[2]]
       /\ out[4 * g + 3] = BASE64_CHARS[p[3]] /\ out[4 * g + 4] = BASE64_CHARS[p[4]]
  BY <1>3
<1> DEFINE Right(m) == out[m] = IF m <= Groups(8 * n, 6) THEN BASE64_CHARS[Sextet(Bits(s), m)]
                                ELSE Equals
<1>12. Right(4 * g + 1) /\ Right(4 * g + 2)
  BY <1>5, <1>6, <1>9, <1>11
<1>13. Right(4 * g + 3)
  BY <1>5, <1>6, <1>7, <1>9, <1>11
<1>14. Right(4 * g + 4)
  BY <1>5, <1>6, <1>7, <1>9, <1>11
<1>15. Right(k)
  <2> HIDE DEF Right
  <2> QED
    BY <1>10, <1>12, <1>13, <1>14
<1> QED
  BY <1>15 DEF out, n

\* What is said of digests holds of every text.
LEMMA Base64OfAnyText == src \in Bytes => Base64IsBits
<1> SUFFICES ASSUME src \in Bytes PROVE Base64IsBits
  OBVIOUS
<1> DEFINE out == base64_encode(src)
           n == Groups(8 * Len(src), 6)
<1>1. Len(src) \in Nat
  BY DEF Bytes
<1>2. Len(out) = 4 * Groups(Len(src), 3) /\ DOMAIN out = 1 .. 4 * Groups(Len(src), 3)
  <2>1. Groups(Len(src), 3) \in Nat
    BY <1>1, GroupCount
  <2> QED
    BY <2>1 DEF base64_encode
<1>3. Groups(n, 4) = Groups(Len(src), 3)
  BY <1>1, GroupCount
<1>4. \A k \in DOMAIN out : out[k] = IF k <= n THEN BASE64_CHARS[Sextet(Bits(src), k)] ELSE Equals
  BY <1>2, EncodedBits
<1>5. base64_decode(out) = src
  BY DecodeEncode
<1> QED
  BY <1>2, <1>3, <1>4, <1>5 DEF Base64IsBits

\* The bytes of the text are bytes.
LEMMA TextOfBytes == src \in Seq(Byte) => src \in Bytes
<1> DEFINE all == 0 .. 255
<1>1. Byte \subseteq all
  BY CodecAssumption
<1>2. Bytes = Seq(all)
  BY DEF Bytes
<1> HIDE DEF all
<1>3. Seq(Byte) \subseteq Seq(all)
  BY <1>1, SeqMonotonic, Zenon
<1> QED
  BY <1>2, <1>3, Zenon

(***************************************************************************)
(* base64_encode writes the bits of every text, six to a character and     *)
(* fillers after them, and base64_decode takes the text back               *)
(* (util.cpp:246-319).                                                     *)
(***************************************************************************)
THEOREM DigestsAreBase64 == TextSpec => []Base64IsBits
<1>1. src \in Seq(Byte) => Base64IsBits
  BY TextOfBytes, Base64OfAnyText
<1> QED
  BY <1>1, TextTypes, PTL

-------------------------------------------------------------------------------
(***************************************************************************)
(* Texts put together                                                      *)
(***************************************************************************)

\* The function FlattenSeq is defined by, once for each text before the last.
FlattenRec(seqs) ==
    CHOOSE f : f = [i \in 1 .. Len(seqs) |-> IF i = 1 THEN seqs[i] ELSE f[i - 1] \o seqs[i]]

\* FlattenSeq is the last of its values.
LEMMA Unfold ==
    ASSUME NEW seqs, Len(seqs) # 0
    PROVE  FlattenSeq(seqs) = FlattenRec(seqs)[Len(seqs)]
BY Zenon DEF FlattenSeq, FlattenRec

\* There is such a function for any number of texts.
LEMMA FlattenExists ==
    ASSUME NEW seqs, NEW n \in Nat
    PROVE  \E f : f = [i \in 1 .. n |-> IF i = 1 THEN seqs[i] ELSE f[i - 1] \o seqs[i]]
<1> DEFINE Rule(f, m) == f = [i \in 1 .. m |-> IF i = 1 THEN seqs[i] ELSE f[i - 1] \o seqs[i]]
           T == {m \in Nat : \E f : Rule(f, m)}
<1>1. 0 \in T
  <2>1. Rule(<<>>, 0)
    OBVIOUS
  <2> QED
    BY <2>1
<1>2. ASSUME NEW m \in T PROVE m + 1 \in T
  <2>1. PICK f : Rule(f, m)
    OBVIOUS
  <2> DEFINE g == [i \in 1 .. m + 1 |->
                     IF i <= m THEN f[i] ELSE IF i = 1 THEN seqs[i] ELSE f[i - 1] \o seqs[i]]
  <2>2. \A i \in 1 .. m : f[i] = IF i = 1 THEN seqs[i] ELSE f[i - 1] \o seqs[i]
    BY <2>1
  <2>3. \A i \in 1 .. m + 1 : g[i] = IF i = 1 THEN seqs[i] ELSE g[i - 1] \o seqs[i]
    <3> TAKE i \in 1 .. m + 1
    <3>1. CASE i <= m
      BY <2>2, <3>1
    <3>2. CASE i = m + 1
      BY <3>2
    <3> QED
      BY <3>1, <3>2
  <2>4. g = [i \in 1 .. m + 1 |-> IF i = 1 THEN seqs[i] ELSE g[i - 1] \o seqs[i]]
    BY <2>3, Zenon
  <2>5. Rule(g, m + 1)
    BY <2>4, Zenon
  <2>6. m + 1 \in Nat
    OBVIOUS
  <2> HIDE DEF g, Rule
  <2> QED
    BY <2>5, <2>6
<1>3. T = Nat
  <2>1. T \in SUBSET Nat
    OBVIOUS
  <2> HIDE DEF T
  <2> QED
    BY <1>1, <1>2, <2>1, Induction
<1> QED
  BY <1>3

\* So the one that is chosen obeys its rule.
LEMMA FlattenRecRule ==
    ASSUME NEW seqs, Len(seqs) \in Nat
    PROVE  \A i \in 1 .. Len(seqs) : FlattenRec(seqs)[i] =
              IF i = 1 THEN seqs[i] ELSE FlattenRec(seqs)[i - 1] \o seqs[i]
<1> DEFINE Rule(f) == f = [i \in 1 .. Len(seqs) |-> IF i = 1 THEN seqs[i] ELSE f[i - 1] \o seqs[i]]
           r == FlattenRec(seqs)
<1>1. \E f : Rule(f)
  BY FlattenExists
<1>2. r = CHOOSE f : Rule(f)
  BY DEF FlattenRec
<1>3. Rule(r)
  <2> HIDE DEF Rule, r
  <2> QED
    BY <1>1, <1>2, Zenon
<1> HIDE DEF r
<1>4. r = [i \in 1 .. Len(seqs) |-> IF i = 1 THEN seqs[i] ELSE r[i - 1] \o seqs[i]]
  BY <1>3
<1>5. \A i \in 1 .. Len(seqs) : r[i] = IF i = 1 THEN seqs[i] ELSE r[i - 1] \o seqs[i]
  BY <1>4, Zenon
<1> QED
  BY <1>5 DEF r

\* The first i pieces.
Upto(seqs, i) == IF i = 0 THEN <<>> ELSE FlattenRec(seqs)[i]

\* The texts before one are those before its predecessor and that.
LEMMA UptoSteps ==
    ASSUME NEW S, NEW seqs \in Seq(Seq(S))
    PROVE  /\ Len(seqs) \in Nat
           /\ Upto(seqs, 0) = <<>>
           /\ \A i \in 0 .. Len(seqs) : Upto(seqs, i) \in Seq(S)
           /\ \A i \in 1 .. Len(seqs) : Upto(seqs, i) = Upto(seqs, i - 1) \o seqs[i]
           /\ FlattenSeq(seqs) = Upto(seqs, Len(seqs))
<1>1. Len(seqs) \in Nat /\ \A i \in 1 .. Len(seqs) : seqs[i] \in Seq(S)
  OBVIOUS
<1>2. Upto(seqs, 0) = <<>>
  BY DEF Upto
<1>3. ASSUME NEW i \in 1 .. Len(seqs)
      PROVE  Upto(seqs, i) = Upto(seqs, i - 1) \o seqs[i]
  <2>1. CASE i = 1
    <3>1. Upto(seqs, i) = seqs[i] /\ Upto(seqs, i - 1) = <<>>
      BY <1>1, <2>1, FlattenRecRule DEF Upto
    <3> QED
      BY <1>1, <3>1, ConcatEmptySeq
  <2>2. CASE i # 1
    <3> DEFINE j == i - 1
    <3>1. i # 0 /\ j # 0
      BY <2>2
    <3>2. FlattenRec(seqs)[i] = FlattenRec(seqs)[j] \o seqs[i]
      BY <1>1, <2>2, FlattenRecRule
    <3> HIDE DEF j
    <3>3. Upto(seqs, i) = Upto(seqs, j) \o seqs[i]
      BY <3>1, <3>2, Zenon DEF Upto
    <3> QED
      BY <3>3 DEF j
  <2> QED
    BY <2>1, <2>2
<1>4. \A i \in 0 .. Len(seqs) : Upto(seqs, i) \in Seq(S)
  <2> DEFINE T == {i \in Nat : i <= Len(seqs) => Upto(seqs, i) \in Seq(S)}
  <2>1. 0 \in T
    BY <1>2, EmptySeq
  <2>2. ASSUME NEW i \in T PROVE i + 1 \in T
    <3> DEFINE j == i + 1
               p == j - 1
    <3> SUFFICES ASSUME j <= Len(seqs) PROVE Upto(seqs, j) \in Seq(S)
      OBVIOUS
    <3>1. j \in 1 .. Len(seqs) /\ p = i /\ Upto(seqs, i) \in Seq(S) /\ seqs[j] \in Seq(S)
      BY <1>1
    <3> HIDE DEF j
    <3>2. Upto(seqs, j) = Upto(seqs, p) \o seqs[j]
      BY <3>1, <1>3
    <3> HIDE DEF p
    <3>3. Upto(seqs, j) = Upto(seqs, i) \o seqs[j]
      BY <3>1, <3>2, Zenon
    <3> HIDE DEF T
    <3> QED
      BY <3>1, <3>3, ConcatProperties
  <2>3. T \in SUBSET Nat
    OBVIOUS
  <2>4. T = Nat
    <3> HIDE DEF T
    <3> QED
      BY <2>1, <2>2, <2>3, Induction
  <2> QED
    BY <1>1, <2>4
<1>5. FlattenSeq(seqs) = Upto(seqs, Len(seqs))
  <2>1. CASE Len(seqs) = 0
    BY <2>1 DEF FlattenSeq, Upto
  <2>2. CASE Len(seqs) # 0
    BY <2>2, Unfold DEF Upto
  <2> QED
    BY <2>1, <2>2
<1> QED
  BY <1>1, <1>2, <1>3, <1>4, <1>5

\* The beginning of two texts put together.
LEMMA FirstPart ==
    ASSUME NEW S, NEW u \in Seq(S), NEW v \in Seq(S), NEW x \in 1 .. Len(u)
    PROVE  /\ Len(u) \in Nat /\ Len(v) \in Nat
           /\ Len(u \o v) = Len(u) + Len(v) /\ (u \o v)[x] = u[x]
OBVIOUS

\* And their end.
LEMMA SecondPart ==
    ASSUME NEW S, NEW u \in Seq(S), NEW v \in Seq(S), NEW k \in 1 .. Len(v)
    PROVE  Len(u \o v) = Len(u) + Len(v) /\ (u \o v)[Len(u) + k] = v[k]
OBVIOUS

\* A piece is in the text where the pieces before it end.
LEMMA PieceAt ==
    ASSUME NEW S, NEW seqs \in Seq(Seq(S)), NEW i \in 1 .. Len(seqs), NEW k \in 1 .. Len(seqs[i])
    PROVE  LET all == FlattenSeq(seqs)
               at  == Len(Upto(seqs, i - 1))
           IN  at + k <= Len(all) /\ all[at + k] = seqs[i][k]
<1> DEFINE n == Len(seqs)
           at == Len(Upto(seqs, i - 1))
           T  == {m \in Nat : i + m <= n =>
                    /\ at + k <= Len(Upto(seqs, i + m))
                    /\ Upto(seqs, i + m)[at + k] = seqs[i][k]}
<1>1. n \in Nat /\ i \in Nat /\ i - 1 \in 0 .. n /\ \A j \in 1 .. n : seqs[j] \in Seq(S)
  OBVIOUS
<1>2. \A j \in 0 .. n : Upto(seqs, j) \in Seq(S) /\ Len(Upto(seqs, j)) \in Nat
  BY UptoSteps, LenProperties
<1>3. at \in Nat /\ k \in Nat \ {0} /\ seqs[i] \in Seq(S) /\ Len(seqs[i]) \in Nat
  BY <1>1, <1>2, LenProperties
<1>4. 0 \in T
  <2>1. Upto(seqs, i) = Upto(seqs, i - 1) \o seqs[i]
    BY UptoSteps
  <2>2. Upto(seqs, i - 1) \in Seq(S)
    BY <1>1, <1>2
  <2>3. Len(Upto(seqs, i)) = at + Len(seqs[i]) /\ Upto(seqs, i)[at + k] = seqs[i][k]
    <3> DEFINE u == Upto(seqs, i - 1)
               v == seqs[i]
    <3>1. u \in Seq(S) /\ v \in Seq(S) /\ k \in 1 .. Len(v) /\ Upto(seqs, i) = u \o v
      BY <1>3, <2>1, <2>2
    <3> HIDE DEF u, v
    <3>2. Len(u \o v) = Len(u) + Len(v) /\ (u \o v)[Len(u) + k] = v[k]
      BY <3>1, SecondPart
    <3> QED
      BY <3>1, <3>2 DEF u, v
  <2>5. i + 0 = i /\ at + k <= Len(Upto(seqs, i))
    BY <1>1, <1>3, <2>3
  <2> QED
    BY <2>3, <2>5
<1>5. ASSUME NEW m \in T PROVE m + 1 \in T
  <2> SUFFICES ASSUME i + (m + 1) <= n
               PROVE  /\ at + k <= Len(Upto(seqs, i + (m + 1)))
                      /\ Upto(seqs, i + (m + 1))[at + k] = seqs[i][k]
    OBVIOUS
  <2> DEFINE j == i + (m + 1)
  <2>1. j \in 1 .. n /\ j - 1 = i + m /\ j - 1 \in 0 .. n /\ i + m <= n
    BY <1>1
  <2>2. at + k <= Len(Upto(seqs, j - 1)) /\ Upto(seqs, j - 1)[at + k] = seqs[i][k]
    BY <2>1
  <2>3. Upto(seqs, j) = Upto(seqs, j - 1) \o seqs[j]
    BY <2>1, UptoSteps
  <2>4. Upto(seqs, j - 1) \in Seq(S) /\ seqs[j] \in Seq(S)
    BY <1>1, <1>2, <2>1
  <2>5. at + k <= Len(Upto(seqs, j)) /\ Upto(seqs, j)[at + k] = seqs[i][k]
    <3> DEFINE u == Upto(seqs, j - 1)
               v == seqs[j]
               x == at + k
    <3> HIDE DEF j, at
    <3>1. /\ u \in Seq(S) /\ v \in Seq(S) /\ x \in 1 .. Len(u) /\ Upto(seqs, j) = u \o v
          /\ u[x] = seqs[i][k]
      BY <1>3, <2>2, <2>3, <2>4
    <3> HIDE DEF u, v, x
    <3>2. Len(u \o v) = Len(u) + Len(v) /\ (u \o v)[x] = u[x] /\ Len(u) \in Nat /\ Len(v) \in Nat
      BY <3>1, FirstPart
    <3>3. x <= Len(u \o v)
      BY <3>1, <3>2
    <3> QED
      BY <3>1, <3>2, <3>3 DEF x
  <2> QED
    BY <2>5 DEF j
<1>6. T = Nat
  <2>1. T \in SUBSET Nat
    OBVIOUS
  <2> HIDE DEF T
  <2> QED
    BY <1>4, <1>5, <2>1, Induction
<1>7. n - i \in Nat /\ i + (n - i) = n
  BY <1>1
<1> DEFINE m == n - i
<1>8. m \in T
  <2> HIDE DEF T
  <2> QED
    BY <1>6, <1>7
<1> HIDE DEF m
<1>9. i + m <= n /\ i + m = n
  BY <1>1, <1>7 DEF m
<1>10. at + k <= Len(Upto(seqs, n)) /\ Upto(seqs, n)[at + k] = seqs[i][k]
  BY <1>8, <1>9
<1> QED
  BY <1>10, UptoSteps

-------------------------------------------------------------------------------
(***************************************************************************)
(* URLs and signatures                                                     *)
(***************************************************************************)

\* What url_decode writes for the text from i on, when f has it for later places.
DecodedAt(t, f, i) ==
    IF i > Len(t) THEN <<>>
    ELSE IF t[i] # Percent THEN <<t[i]>> \o f[i + 1]
    ELSE <<(hexchar2int(t[i + 1]) * 16 + hexchar2int(t[i + 2])) % 256>> \o f[i + 3]

\* The function url_decode is defined by.
DecodeFrom(t) == CHOOSE from : from = [i \in 1 .. Len(t) + 3 |-> DecodedAt(t, from, i)]

\* What url_decode writes is what it writes from the first place on.
LEMMA DecodeUnfold == ASSUME NEW t PROVE url_decode(t) = DecodeFrom(t)[1]
BY Zenon DEF url_decode, DecodeFrom, DecodedAt

\* DecodedAt reads f at later places only.
LEMMA LaterPlaces ==
    ASSUME NEW t, NEW f, NEW g, NEW i, ~(i > Len(t)) => f[i + 1] = g[i + 1] /\ f[i + 3] = g[i + 3]
    PROVE  DecodedAt(t, f, i) = DecodedAt(t, g, i)
<1>1. CASE i > Len(t)
  BY <1>1, Zenon DEF DecodedAt
<1>2. CASE ~(i > Len(t))
  BY <1>2, Zenon DEF DecodedAt
<1> QED
  BY <1>1, <1>2

\* There is such a function for texts of any length, built from the end.
LEMMA DecodeExists ==
    ASSUME NEW t, Len(t) \in Nat
    PROVE  \E f : f = [i \in 1 .. Len(t) + 3 |-> DecodedAt(t, f, i)]
<1> DEFINE L == Len(t)
           Rule(f, m) == f = [i \in L + 4 - m .. L + 3 |-> DecodedAt(t, f, i)]
           T == {m \in Nat : m <= L + 3 => \E f : Rule(f, m)}
<1>1. 0 \in T
  <2>1. Rule(<<>>, 0)
    <3>1. L + 4 - 0 .. L + 3 = {}
      OBVIOUS
    <3> QED
      BY <3>1
  <2> QED
    BY <2>1
<1>2. ASSUME NEW m \in T PROVE m + 1 \in T
  <2> SUFFICES ASSUME m + 1 <= L + 3 PROVE \E f : Rule(f, m + 1)
    OBVIOUS
  <2>1. PICK f : Rule(f, m)
    OBVIOUS
  <2> DEFINE low == L + 4 - (m + 1)
             g == [i \in low .. L + 3 |-> IF i >= low + 1 THEN f[i] ELSE DecodedAt(t, f, i)]
  <2>a. L \in Nat /\ low \in Nat /\ low + 1 = L + 4 - m /\ low >= 1
    OBVIOUS
  <2>2. \A i \in low + 1 .. L + 3 : f[i] = DecodedAt(t, f, i)
    <3> HIDE DEF low
    <3>1. f = [i \in low + 1 .. L + 3 |-> DecodedAt(t, f, i)]
      BY <2>1, <2>a
    <3> QED
      BY <3>1, Zenon
  <2> HIDE DEF low
  <2>b. \A i \in low .. L + 3 : i >= low + 1 => g[i] = f[i]
    OBVIOUS
  <2>c. g[low] = DecodedAt(t, f, low)
    BY <2>a
  <2>d. g = [i \in low .. L + 3 |-> g[i]]
    OBVIOUS
  <2> HIDE DEF g
  <2>3. \A i \in low .. L + 3 : g[i] = DecodedAt(t, g, i)
    <3> TAKE i \in low .. L + 3
    <3>1. g[i] = DecodedAt(t, f, i)
      <4>1. CASE i >= low + 1
        BY <2>2, <2>a, <2>b, <4>1
      <4>2. CASE i = low
        BY <2>c, <4>2
      <4> QED
        BY <4>1, <4>2, <2>a
    <3>2. ASSUME ~(i > L) PROVE f[i + 1] = g[i + 1] /\ f[i + 3] = g[i + 3]
      <4> HIDE DEF L
      <4> DEFINE j == i + 1
                 k == i + 3
      <4>1. j \in low .. L + 3 /\ j >= low + 1 /\ k \in low .. L + 3 /\ k >= low + 1
        BY <2>a, <3>2
      <4> HIDE DEF j, k
      <4>2. g[j] = f[j] /\ g[k] = f[k]
        BY <2>b, <4>1
      <4> QED
        BY <4>2 DEF j, k
    <3> QED
      BY <3>1, <3>2, LaterPlaces
  <2>4. g = [i \in low .. L + 3 |-> DecodedAt(t, g, i)]
    BY <2>d, <2>3
  <2>5. Rule(g, m + 1)
    BY <2>4, Zenon DEF low
  <2> HIDE DEF Rule
  <2> QED
    BY <2>5
<1>3. T = Nat
  <2>1. T \in SUBSET Nat
    OBVIOUS
  <2> HIDE DEF T
  <2> QED
    BY <1>1, <1>2, <2>1, Induction
<1>4. L + 3 \in T /\ L + 4 - (L + 3) = 1
  <2>1. L + 3 \in Nat
    OBVIOUS
  <2> HIDE DEF T
  <2> QED
    BY <1>3, <2>1
<1>5. \E f : f = [i \in L + 4 - (L + 3) .. L + 3 |-> DecodedAt(t, f, i)]
  BY <1>4
<1> QED
  BY <1>4, <1>5

\* So the one that is chosen obeys its rule.
LEMMA DecodeRule ==
    ASSUME NEW t, Len(t) \in Nat
    PROVE  \A i \in 1 .. Len(t) + 3 : DecodeFrom(t)[i] = DecodedAt(t, DecodeFrom(t), i)
<1> DEFINE Rule(f) == f = [i \in 1 .. Len(t) + 3 |-> DecodedAt(t, f, i)]
           r == DecodeFrom(t)
<1>1. \E f : Rule(f)
  BY DecodeExists
<1>2. r = CHOOSE f : Rule(f)
  BY DEF DecodeFrom
<1>3. Rule(r)
  <2> HIDE DEF Rule, r
  <2> QED
    BY <1>1, <1>2, Zenon
<1> HIDE DEF r
<1>4. r = [i \in 1 .. Len(t) + 3 |-> DecodedAt(t, r, i)]
  BY <1>3
<1>5. \A i \in 1 .. Len(t) + 3 : r[i] = DecodedAt(t, r, i)
  BY <1>4, Zenon
<1> QED
  BY <1>5 DEF r

\* The characters of an encoded text.
Coded == Plain \cup {Percent, Slash}

\* An encoded text has nothing in it that a URL is cut at.
LEMMA CodedChars ==
    /\ Coded \subseteq 0 .. 255
    /\ \A c \in Coded : c # Question /\ c # Ampersand /\ c # Equals
BY SMT DEF Coded, Plain, Upper, Lower, Digit, Underscore, Minus, Tilde, Dot, Percent, Slash,
           Question, Ampersand, Equals

\* A digit is read as the number it was written for.
LEMMA HexDigits ==
    ASSUME NEW n \in 0 .. 15
    PROVE  HexDigit(n) \in Plain /\ hexchar2int(HexDigit(n)) = n
<1>1. CASE n >= 10
  BY <1>1, SMT DEF HexDigit, hexchar2int, Plain, Upper, Lower, Digit
<1>2. CASE ~(n >= 10)
  BY <1>2, SMT DEF HexDigit, hexchar2int, Plain, Upper, Lower, Digit
<1> QED
  BY <1>1, <1>2

\* A byte is written as itself, which is no percent sign, or as three
\* characters.
StandsFor(p, c) ==
    \/ p = <<c>> /\ c # Percent
    \/ \E h, l \in Coded :
          p = <<Percent, h, l>> /\ (hexchar2int(h) * 16 + hexchar2int(l)) % 256 = c

\* Every byte is written so that it is read again.
LEMMA EscapedByte ==
    ASSUME NEW c \in 0 .. 255, NEW e \in BOOLEAN
    PROVE  Escaped(c, e) \in Seq(Coded) /\ StandsFor(Escaped(c, e), c)
<1>1. CASE c \in Plain \/ (c = Slash /\ ~e)
  <2>1. Escaped(c, e) = <<c>>
    BY <1>1 DEF Escaped
  <2>2. c # Percent
    BY <1>1, SMT DEF Plain, Upper, Lower, Digit, Underscore, Minus, Tilde, Dot, Percent, Slash
  <2>3. c \in Coded
    BY <1>1 DEF Coded
  <2>4. <<c>> \in Seq(Coded)
    BY <2>3
  <2> QED
    BY <2>1, <2>2, <2>4 DEF StandsFor
<1>2. CASE ~(c \in Plain \/ (c = Slash /\ ~e))
  <2> DEFINE h == HexDigit(c \div 16)
             l == HexDigit(c % 16)
  <2>1. c \div 16 \in 0 .. 15 /\ c % 16 \in 0 .. 15
    OBVIOUS
  <2>2. h \in Plain /\ l \in Plain /\ hexchar2int(h) = c \div 16 /\ hexchar2int(l) = c % 16
    BY <2>1, HexDigits
  <2>3. Escaped(c, e) = <<Percent, h, l>>
    BY <1>2 DEF Escaped
  <2> HIDE DEF h, l
  <2>4. (hexchar2int(h) * 16 + hexchar2int(l)) % 256 = c
    BY <2>2
  <2>5. h \in Coded /\ l \in Coded /\ Percent \in Coded
    BY <2>2 DEF Coded
  <2>6. <<Percent, h, l>> \in Seq(Coded)
    BY <2>5
  <2> QED
    BY <2>3, <2>4, <2>5, <2>6 DEF StandsFor
<1> QED
  BY <1>1, <1>2

\* What each byte of a text is written as.
Escapes(s, e) == [i \in DOMAIN s |-> Escaped(s[i], e)]

\* url_encode puts these one after another.
LEMMA EncodedText ==
    ASSUME NEW s \in Bytes, NEW e \in BOOLEAN
    PROVE  /\ Len(s) \in Nat /\ DOMAIN s = 1 .. Len(s)
           /\ Escapes(s, e) \in Seq(Seq(Coded)) /\ Len(Escapes(s, e)) = Len(s)
           /\ \A i \in 1 .. Len(s) : Escapes(s, e)[i] = Escaped(s[i], e)
           /\ url_encode(s, e) = FlattenSeq(Escapes(s, e))
           /\ url_encode(s, e) \in Seq(Coded)
<1>1. Len(s) \in Nat /\ DOMAIN s = 1 .. Len(s) /\ \A i \in 1 .. Len(s) : s[i] \in 0 .. 255
  BY LenProperties, ElementOfSeq DEF Bytes
<1>2. \A i \in 1 .. Len(s) : Escaped(s[i], e) \in Seq(Coded)
  BY <1>1, EscapedByte
<1>3. Escapes(s, e) = [i \in 1 .. Len(s) |-> Escaped(s[i], e)]
  BY <1>1 DEF Escapes
<1>4. \A i \in 1 .. Len(s) : Escapes(s, e)[i] = Escaped(s[i], e)
  BY <1>3, Zenon
<1>5. Escapes(s, e) \in Seq(Seq(Coded)) /\ Len(Escapes(s, e)) = Len(s)
  <2> DEFINE C == Seq(Coded)
             n == Len(s)
             f(i) == Escaped(s[i], e)
  <2>1. n \in Nat /\ \A i \in 1 .. n : f(i) \in C
    BY <1>1, <1>2
  <2> HIDE DEF C, n, f
  <2>2. [i \in 1 .. n |-> f(i)] \in Seq(C) /\ Len([i \in 1 .. n |-> f(i)]) = n
    BY <2>1
  <2> QED
    BY <1>3, <2>2 DEF C, n, f
<1>6. url_encode(s, e) = FlattenSeq(Escapes(s, e))
  BY DEF url_encode, Escapes
<1>7. FlattenSeq(Escapes(s, e)) \in Seq(Coded)
  <2>1. Len(Escapes(s, e)) \in 0 .. Len(Escapes(s, e))
    BY <1>1, <1>5
  <2> QED
    BY <1>5, <2>1, UptoSteps
<1> QED
  BY <1>1, <1>4, <1>5, <1>6, <1>7

\* url_decode takes one byte's characters at a time.
LEMMA DecodedByte ==
    ASSUME NEW s \in Bytes, NEW e \in BOOLEAN, NEW i \in 1 .. Len(s)
    PROVE  LET r       == DecodeFrom(url_encode(s, e))
               Past(k) == Len(Upto(Escapes(s, e), k))
           IN  r[Past(i - 1) + 1] = <<s[i]>> \o r[Past(i) + 1]
<1> DEFINE t == url_encode(s, e)
           r == DecodeFrom(t)
           seqs == Escapes(s, e)
           at == Len(Upto(seqs, i - 1))
           p == Escaped(s[i], e)
<1>1. /\ seqs \in Seq(Seq(Coded)) /\ Len(seqs) = Len(s) /\ seqs[i] = p /\ t = FlattenSeq(seqs)
      /\ t \in Seq(Coded) /\ Len(t) \in Nat /\ Len(s) \in Nat /\ s[i] \in 0 .. 255
  <2>1. s[i] \in 0 .. 255
    BY ElementOfSeq DEF Bytes
  <2> QED
    BY <2>1, EncodedText, LenProperties
<1>2. p \in Seq(Coded) /\ i \in 1 .. Len(seqs)
  BY <1>1, EscapedByte
<1>3. i - 1 \in 0 .. Len(seqs)
  BY <1>1
<1>4. Upto(seqs, i) = Upto(seqs, i - 1) \o p /\ Upto(seqs, i - 1) \in Seq(Coded)
  BY <1>1, <1>2, <1>3, UptoSteps
<1>5. at \in Nat
  BY <1>4, LenProperties
<1>6. Len(Upto(seqs, i)) = at + Len(p)
  BY <1>2, <1>4, ConcatProperties
<1>7. \A k \in 1 .. Len(p) : at + k <= Len(t) /\ t[at + k] = p[k]
  <2>1. ASSUME NEW k \in 1 .. Len(seqs[i]) PROVE at + k <= Len(t) /\ t[at + k] = p[k]
    <3> HIDE DEF seqs, t, p
    <3>1. at + k <= Len(FlattenSeq(seqs)) /\ FlattenSeq(seqs)[at + k] = seqs[i][k]
      BY <1>1, <1>2, PieceAt
    <3> QED
      BY <1>1, <3>1
  <2> QED
    BY <1>1, <2>1
<1> HIDE DEF t, r, at, p, seqs
<1>8. ASSUME NEW k \in 1 .. Len(t) PROVE r[k] = DecodedAt(t, r, k)
  <2>1. k \in 1 .. Len(t) + 3
    BY <1>1
  <2> QED
    BY <1>1, <2>1, DecodeRule DEF r
<1>9. r[at + 1] = <<s[i]>> \o r[at + Len(p) + 1]
  <2>1. CASE p = <<s[i]>> /\ s[i] # Percent
    <3>1. Len(p) = 1 /\ 1 \in 1 .. Len(p) /\ p[1] = s[i]
      BY <2>1
    <3>2. at + 1 \in 1 .. Len(t) /\ ~(at + 1 > Len(t)) /\ t[at + 1] = s[i]
      BY <1>1, <1>5, <1>7, <3>1
    <3> DEFINE x == at + 1
    <3>3. x \in 1 .. Len(t) /\ ~(x > Len(t)) /\ t[x] = s[i] /\ x + 1 = at + Len(p) + 1
      BY <1>5, <3>1, <3>2
    <3> HIDE DEF x
    <3>4. r[x] = DecodedAt(t, r, x)
      BY <1>8, <3>3
    <3>5. DecodedAt(t, r, x) = <<t[x]>> \o r[x + 1]
      BY <2>1, <3>3, Zenon DEF DecodedAt
    <3>6. r[x] = <<s[i]>> \o r[at + Len(p) + 1]
      BY <3>3, <3>4, <3>5
    <3> QED
      BY <3>6 DEF x
  <2>2. CASE \E h, l \in Coded : /\ p = <<Percent, h, l>>
                                 /\ (hexchar2int(h) * 16 + hexchar2int(l)) % 256 = s[i]
    <3>1. PICK h \in Coded, l \in Coded : /\ p = <<Percent, h, l>>
                               /\ (hexchar2int(h) * 16 + hexchar2int(l)) % 256 = s[i]
      BY <2>2
    <3>2. Len(p) = 3 /\ p[1] = Percent /\ p[2] = h /\ p[3] = l
      BY <3>1
    <3> DEFINE x == at + 1
    <3>3. /\ x \in 1 .. Len(t) /\ ~(x > Len(t)) /\ t[x] = Percent /\ t[x + 1] = h /\ t[x + 2] = l
          /\ x + 3 = at + Len(p) + 1
      <4>1. 1 \in 1 .. Len(p) /\ 2 \in 1 .. Len(p) /\ 3 \in 1 .. Len(p)
        BY <3>2
      <4>2. at + 1 <= Len(t) /\ t[at + 1] = p[1] /\ t[at + 2] = p[2] /\ t[at + 3] = p[3]
        BY <1>7, <4>1
      <4>3. x + 1 = at + 2 /\ x + 2 = at + 3
        BY <1>5
      <4> QED
        BY <1>1, <1>5, <3>2, <4>2, <4>3
    <3> HIDE DEF x
    <3>4. r[x] = DecodedAt(t, r, x)
      BY <1>8, <3>3
    <3>5. DecodedAt(t, r, x)
            = <<(hexchar2int(t[x + 1]) * 16 + hexchar2int(t[x + 2])) % 256>> \o r[x + 3]
      BY <3>3, Zenon DEF DecodedAt
    <3>6. DecodedAt(t, r, x) = <<s[i]>> \o r[at + Len(p) + 1]
      BY <3>1, <3>3, <3>5, Zenon
    <3> QED
      BY <3>4, <3>6 DEF x
  <2>3. StandsFor(p, s[i])
    BY <1>1, EscapedByte, Zenon DEF p
  <2> QED
    BY <2>1, <2>2, <2>3 DEF StandsFor
<1> QED
  BY <1>6, <1>9 DEF t, r, at, p, seqs

\* What is decoded is what was encoded.
LEMMA UrlDecodeEncode ==
    ASSUME NEW s \in Bytes, NEW e \in BOOLEAN
    PROVE  url_decode(url_encode(s, e)) = s
<1> DEFINE t == url_encode(s, e)
           r == DecodeFrom(t)
           n == Len(s)
           seqs == Escapes(s, e)
           Past(k) == Len(Upto(seqs, k))
           T == {m \in Nat : m <= n => r[Past(n - m) + 1] = SubSeq(s, n - m + 1, n)}
<1>1. /\ n \in Nat /\ t \in Seq(Coded) /\ Len(t) \in Nat /\ seqs \in Seq(Seq(Coded))
      /\ Len(seqs) = n /\ t = FlattenSeq(seqs)
  BY EncodedText, LenProperties
<1>2. Past(0) = 0 /\ Past(n) = Len(t)
  <2> HIDE DEF seqs, t, n
  <2>1. Upto(seqs, 0) = <<>> /\ FlattenSeq(seqs) = Upto(seqs, Len(seqs))
    BY <1>1, UptoSteps
  <2> QED
    BY <1>1, <2>1
<1>3. 0 \in T
  <2>1. n - 0 = n /\ Len(t) + 1 \in 1 .. Len(t) + 3 /\ Len(t) + 1 > Len(t)
    BY <1>1
  <2>2. r[Len(t) + 1] = <<>>
    <3> HIDE DEF t
    <3>1. r[Len(t) + 1] = DecodedAt(t, r, Len(t) + 1)
      BY <1>1, <2>1, DecodeRule
    <3>2. DecodedAt(t, r, Len(t) + 1) = <<>>
      BY <2>1, Zenon DEF DecodedAt
    <3> QED
      BY <3>1, <3>2
  <2>3. SubSeq(s, n + 1, n) = <<>>
    BY <1>1, SubSeqEmpty
  <2> HIDE DEF r, t, n, seqs, Past
  <2> QED
    BY <1>2, <2>1, <2>2, <2>3
<1>4. ASSUME NEW m \in T PROVE m + 1 \in T
  <2> DEFINE i == n - m
             j == n - (m + 1)
  <2> SUFFICES ASSUME m + 1 <= n PROVE r[Past(j) + 1] = SubSeq(s, j + 1, n)
    OBVIOUS
  <2>1. i \in 1 .. n /\ i - 1 = j /\ j + 1 = i /\ m <= n
    BY <1>1
  <2>2. r[Past(i) + 1] = SubSeq(s, i + 1, n)
    BY <2>1
  <2> HIDE DEF i, j
  <2>3. r[Past(i - 1) + 1] = <<s[i]>> \o r[Past(i) + 1]
    BY <2>1, DecodedByte
  <2>4. <<s[i]>> \o SubSeq(s, i + 1, n) = SubSeq(s, i, n)
    BY <2>1, SubSeqRecursiveFirst DEF Bytes
  <2> HIDE DEF r, n, Past
  <2> QED
    BY <2>1, <2>2, <2>3, <2>4
<1>5. T = Nat
  <2>1. T \in SUBSET Nat
    OBVIOUS
  <2> HIDE DEF T
  <2> QED
    BY <1>3, <1>4, <2>1, Induction
<1>6. n \in T
  <2> HIDE DEF T
  <2> QED
    BY <1>1, <1>5
<1>7. n <= n /\ n - n = 0 /\ 0 + 1 = 1
  BY <1>1
<1>8. r[1] = SubSeq(s, 1, n)
  <2>1. r[Past(n - n) + 1] = SubSeq(s, n - n + 1, n)
    BY <1>6, <1>7
  <2> HIDE DEF r, n, Past
  <2> QED
    BY <1>2, <1>7, <2>1
<1>9. SubSeq(s, 1, n) = s
  BY DEF Bytes
<1> QED
  BY <1>8, <1>9, DecodeUnfold

\* A delimiter between two texts that have none.
LEMMA SplitOnce ==
    ASSUME NEW u \in Text, NEW d \in Int, NEW v \in Text,
           \A i \in 1 .. Len(u) : u[i] # d, \A i \in 1 .. Len(v) : v[i] # d
    PROVE  split(u \o <<d>> \o v, d, 0) = <<u, v>>
<1> DEFINE w == u \o <<d>>
           s == w \o v
           p == Len(u) + 1
<1>1. <<d>> \in Text /\ Len(<<d>>) = 1 /\ Len(u) \in Nat /\ Len(v) \in Nat
  BY DEF Text
<1>2. w \in Text /\ Len(w) = p /\ w[p] = d /\ \A i \in 1 .. Len(u) : w[i] = u[i]
  BY <1>1, ConcatProperties DEF Text
<1> HIDE DEF w
<1>3. s \in Text /\ Len(s) = Len(w) + Len(v) /\ \A i \in 1 .. Len(w) : s[i] = w[i]
  <2>1. w \in Text
    BY <1>2
  <2>2. s \in Text /\ Len(s) = Len(w) + Len(v)
    BY <2>1, Parts
  <2>3. \A i \in 1 .. Len(w) : s[i] = w[i]
    BY <2>1, Parts
  <2> QED
    BY <2>2, <2>3
<1>4. \A i \in 1 .. Len(v) : s[Len(w) + i] = v[i]
  <2>1. w \in Text
    BY <1>2
  <2> QED
    BY <2>1, Parts
<1>5. DOMAIN s = 1 .. Len(s) /\ p \in 1 .. Len(s) /\ s[p] = d
  BY <1>1, <1>2, <1>3 DEF Text
<1>6. ASSUME NEW i \in 1 .. Len(s), i # p PROVE s[i] # d
  <2>1. CASE i < p
    BY <1>1, <1>2, <1>3, <2>1
  <2>2. CASE i > p
    <3> DEFINE k == i - p
    <3>1. k \in 1 .. Len(v) /\ p + k = i
      BY <1>1, <1>2, <1>3, <2>2
    <3> HIDE DEF k, p
    <3>2. s[p + k] = v[k]
      BY <1>2, <1>4, <3>1
    <3> QED
      BY <3>1, <3>2
  <2> QED
    BY <1>1, <1>6, <2>1, <2>2
<1> HIDE DEF p, s
<1>7. Hits(s, d) = {p}
  BY <1>5, <1>6 DEF Hits
<1>8. Cardinality(Hits(s, d)) = 1
  BY <1>7, FS_Singleton
<1>9. split(s, d, 0) = split(s, d, 2)
  <2>1. split(s, d, 0) = Pieces(s, d, 1)
    BY <1>8 DEF split
  <2>2. split(s, d, 2) = Pieces(s, d, 1)
    BY <1>8 DEF split
  <2> QED
    BY <2>1, <2>2
<1>10. split(s, d, 2) = <<u, v>>
  BY SplitAt DEF s, w
<1> QED
  BY <1>9, <1>10 DEF s, w

\* Three texts put together in either order.
LEMMA Regroup ==
    ASSUME NEW u \in Text, NEW d \in Text, NEW v \in Text
    PROVE  u \o (d \o v) = u \o d \o v
<1> DEFINE S == Int
<1>1. u \in Seq(S) /\ d \in Seq(S) /\ v \in Seq(S)
  BY DEF Text
<1> HIDE DEF S
<1> QED
  <2>1. \A a, b, c \in Seq(S) : (a \o b) \o c = a \o (b \o c)
    BY ConcatAssociative
  <2> QED
    BY <1>1, <2>1

\* One text, and two, put together.
LEMMA JoinedOne == ASSUME NEW u \in Text, NEW d \in Int PROVE Joined(<<u>>, d) = u
<1> DEFINE seqs == <<u>>
<1>1. [k \in DOMAIN <<u>> |-> IF k = 1 THEN <<u>>[k] ELSE <<d>> \o <<u>>[k]] = seqs
  OBVIOUS
<1>2. Joined(<<u>>, d) = FlattenSeq(seqs)
  BY <1>1 DEF Joined
<1>3. seqs \in Seq(Text) /\ Len(seqs) = 1 /\ seqs[1] = u
  OBVIOUS
<1> HIDE DEF seqs
<1>4. FlattenSeq(seqs) = Upto(seqs, 1) /\ Upto(seqs, 0) = <<>>
  BY <1>3, UptoSteps DEF Text
<1> DEFINE one == 1
           none == one - 1
<1>5. one \in 1 .. Len(seqs) /\ none = 0 /\ one = 1
  BY <1>3
<1> HIDE DEF one
<1>6. Upto(seqs, one) = Upto(seqs, none) \o seqs[one]
  BY <1>3, <1>5, UptoSteps DEF Text
<1> HIDE DEF none
<1>7. Upto(seqs, 1) = <<>> \o u
  BY <1>3, <1>4, <1>5, <1>6
<1> QED
  BY <1>2, <1>4, <1>7, ConcatEmptySeq DEF Text

\* With the delimiter between them if there are two.
LEMMA JoinedTwo ==
    ASSUME NEW u \in Text, NEW v \in Text, NEW d \in Int
    PROVE  Joined(<<u, v>>, d) = u \o <<d>> \o v
<1> DEFINE x == <<d>> \o v
           seqs == <<u, x>>
<1>0. <<d>> \in Text
  BY DEF Text
<1>1. x \in Text
  BY <1>0, Parts
<1>2. Joined(<<u, v>>, d) = FlattenSeq(seqs)
  <2>1. [k \in DOMAIN <<u, v>> |-> IF k = 1 THEN <<u, v>>[k] ELSE <<d>> \o <<u, v>>[k]]
           = <<u, <<d>> \o v>>
    OBVIOUS
  <2> QED
    BY <2>1 DEF Joined
<1> HIDE DEF x
<1>3. seqs \in Seq(Text) /\ Len(seqs) = 2 /\ seqs[1] = u /\ seqs[2] = x
  BY <1>1
<1> HIDE DEF seqs
<1>4. FlattenSeq(seqs) = Upto(seqs, 2) /\ Upto(seqs, 0) = <<>>
  BY <1>3, UptoSteps DEF Text
<1>5. ASSUME NEW i \in 1 .. 2, NEW j, j = i - 1 PROVE Upto(seqs, i) = Upto(seqs, j) \o seqs[i]
  BY <1>3, <1>5, UptoSteps DEF Text
<1>6. Upto(seqs, 1) = Upto(seqs, 0) \o seqs[1] /\ Upto(seqs, 2) = Upto(seqs, 1) \o seqs[2]
  BY <1>5
<1>7. Upto(seqs, 2) = u \o x
  BY <1>3, <1>4, <1>6, ConcatEmptySeq DEF Text
<1>8. u \o x = u \o <<d>> \o v
  BY <1>0, Regroup DEF x
<1> QED
  BY <1>2, <1>4, <1>7, <1>8

\* A URL is not cut inside an encoded text.
LEMMA CodedText ==
    ASSUME NEW s \in Bytes, NEW e \in BOOLEAN
    PROVE  /\ url_encode(s, e) \in Text /\ Len(url_encode(s, e)) \in Nat
           /\ \A i \in 1 .. Len(url_encode(s, e)) :
                 /\ url_encode(s, e)[i] # Question
                 /\ url_encode(s, e)[i] # Ampersand
                 /\ url_encode(s, e)[i] # Equals
<1> DEFINE t == url_encode(s, e)
<1>1. t \in Seq(Coded)
  BY EncodedText
<1> HIDE DEF t
<1>2. Len(t) \in Nat /\ \A i \in 1 .. Len(t) : t[i] \in Coded
  BY <1>1, LenProperties, ElementOfSeq
<1>3. Coded \subseteq Int
  BY CodedChars
<1>4. t \in Text
  BY <1>1, <1>3, SeqMonotonic, Zenon DEF Text
<1>5. \A i \in 1 .. Len(t) : t[i] # Question /\ t[i] # Ampersand /\ t[i] # Equals
  BY <1>2, CodedChars, Zenon
<1> QED
  BY <1>2, <1>4, <1>5 DEF t

\* A letter is written as it is.
LEMMA LetterPlain ==
    ASSUME NEW c \in Lower, NEW e \in BOOLEAN
    PROVE  /\ <<c>> \in Bytes /\ url_encode(<<c>>, e) = <<c>> /\ url_decode(<<c>>) = <<c>>
           /\ trim(<<c>>) = <<c>>
<1>1. c \in 0 .. 255 /\ c \in Plain /\ c \in Int /\ c \notin EMPTY_CHARS
  BY SMT DEF Lower, Plain, EMPTY_CHARS, Blank
<1>2. <<c>> \in Bytes /\ <<c>> \in Text
  BY <1>1 DEF Bytes, Text
<1>3. Escapes(<<c>>, e) = <<<<c>>>>
  BY <1>1 DEF Escapes, Escaped
<1> DEFINE seqs == <<<<c>>>>
<1>4. seqs \in Seq(Seq(Int)) /\ Len(seqs) = 1 /\ seqs[1] = <<c>>
  BY <1>1
<1> HIDE DEF seqs
<1>5. FlattenSeq(seqs) = Upto(seqs, 1) /\ Upto(seqs, 0) = <<>>
  BY <1>4, UptoSteps
<1>6. ASSUME NEW i \in 1 .. 1, NEW j, j = i - 1 PROVE Upto(seqs, i) = Upto(seqs, j) \o seqs[i]
  BY <1>4, <1>6, UptoSteps
<1>7. Upto(seqs, 1) = <<>> \o <<c>>
  <2>1. Upto(seqs, 1) = Upto(seqs, 0) \o seqs[1]
    BY <1>6
  <2> QED
    BY <1>4, <1>5, <2>1
<1>8. url_encode(<<c>>, e) = <<c>>
  <2>1. url_encode(<<c>>, e) = FlattenSeq(seqs)
    BY <1>2, <1>3, EncodedText DEF seqs
  <2>2. <<>> \o <<c>> = <<c>>
    BY <1>2, ConcatEmptySeq DEF Text
  <2> QED
    BY <1>5, <1>7, <2>1, <2>2
<1>9. url_decode(<<c>>) = <<c>>
  BY <1>2, <1>8, UrlDecodeEncode
<1>10. trim(<<c>>) = <<c>>
  BY <1>1, <1>2, TrimSolid
<1> QED
  BY <1>2, <1>8, <1>9, <1>10

\* A flag, or a parameter with a value, is read as it was written.
LEMMA ParameterIsRead ==
    ASSUME NEW c \in Lower, NEW v \in Bytes
    PROVE  LET p == [key |-> <<c>>, value |-> v]
           IN  /\ Parameter(p) \in Text
               /\ \A i \in 1 .. Len(Parameter(p)) : Parameter(p)[i] # Ampersand
               /\ ReceivedParameter(Parameter(p)) = p
<1> DEFINE p == [key |-> <<c>>, value |-> v]
           k == <<c>>
           t == url_encode(v, TRUE)
<1>1. k \in Text /\ Len(k) = 1 /\ k[1] = c /\ url_decode(k) = k /\ c # Equals /\ c # Ampersand
      /\ Equals \in Int /\ Equals # Ampersand
  <2>1. c \in Int /\ c # Equals /\ c # Ampersand
    BY SMT DEF Lower, Equals, Ampersand
  <2>2. TRUE \in BOOLEAN
    OBVIOUS
  <2>3. url_decode(<<c>>) = <<c>>
    BY <2>2, LetterPlain
  <2>4. k \in Text /\ Len(k) = 1 /\ k[1] = c
    BY <2>1 DEF Text
  <2> HIDE DEF k
  <2>5. Equals \in Int /\ Equals # Ampersand
    BY SMT DEF Equals, Ampersand
  <2> QED
    BY <2>1, <2>3, <2>4, <2>5 DEF k
<1>2. t \in Text /\ Len(t) \in Nat /\ url_decode(t) = v
      /\ \A i \in 1 .. Len(t) : t[i] # Ampersand
  BY CodedText, UrlDecodeEncode
<1> HIDE DEF k, t
<1>3. p.key = k /\ p.value = v
  BY DEF k
<1>4. CASE v = <<>>
  <2>1. Parameter(p) = k
    BY <1>3, <1>4 DEF Parameter
  <2>2. split(k, Equals, 2) = <<k>>
    BY <1>1, SplitNone
  <2>3. ReceivedParameter(k) = [key |-> k, value |-> <<>>]
    BY <1>1, <2>2 DEF ReceivedParameter
  <2>4. \A i \in 1 .. Len(k) : k[i] # Ampersand
    BY <1>1
  <2> QED
    BY <1>1, <1>4, <2>1, <2>3, <2>4 DEF k
<1>5. CASE v # <<>>
  <2> DEFINE w == k \o <<Equals>> \o t
  <2>1. Parameter(p) = w
    BY <1>3, <1>5 DEF Parameter, t
  <2>2. split(w, Equals, 2) = <<k, t>>
    BY <1>1, <1>2, SplitAt
  <2>3. ReceivedParameter(w) = [key |-> k, value |-> v]
    <3> HIDE DEF w
    <3> QED
      BY <1>1, <1>2, <2>2 DEF ReceivedParameter
  <2>4. w \in Text /\ \A i \in 1 .. Len(w) : w[i] # Ampersand
    <3> DEFINE x == k \o <<Equals>>
    <3>1. <<Equals>> \in Text
      BY <1>1 DEF Text
    <3>2. x \in Text /\ Len(x) = 2 /\ x[1] = c /\ x[2] = Equals
      <4> DEFINE q == <<Equals>>
      <4>1. k \in Text /\ q \in Text /\ Len(q) = 1 /\ q[1] = Equals
        BY <1>1, <3>1
      <4> HIDE DEF q
      <4>2. Len(k \o q) = Len(k) + Len(q)
        BY <1>1, <4>1, Parts
      <4>3. \A i \in 1 .. Len(k) : (k \o q)[i] = k[i]
        BY <1>1, <4>1, Parts
      <4>4. \A i \in 1 .. Len(q) : (k \o q)[Len(k) + i] = q[i]
        BY <1>1, <4>1, Parts
      <4>5. k \o q \in Text
        BY <1>1, <4>1, Parts
      <4> QED
        BY <1>1, <4>1, <4>2, <4>3, <4>4, <4>5 DEF q
    <3> HIDE DEF x
    <3>3. x \o t \in Text /\ Len(x \o t) = 2 + Len(t)
          /\ (x \o t)[1] = c /\ (x \o t)[2] = Equals
      <4>1. x \o t \in Text /\ Len(x \o t) = Len(x) + Len(t)
            /\ \A i \in 1 .. Len(x) : (x \o t)[i] = x[i]
        BY <1>2, <3>2, Parts
      <4>2. 1 \in 1 .. Len(x) /\ 2 \in 1 .. Len(x)
        BY <3>2
      <4> QED
        BY <3>2, <4>1, <4>2
    <3>4. \A i \in 1 .. Len(t) : (x \o t)[2 + i] = t[i]
      <4>1. \A i \in 1 .. Len(t) : (x \o t)[Len(x) + i] = t[i]
        BY <1>2, <3>2, Parts
      <4> QED
        BY <3>2, <4>1
    <3>5. ASSUME NEW i \in 1 .. 2 + Len(t) PROVE (x \o t)[i] # Ampersand
      <4>1. CASE i = 1 \/ i = 2
        BY <1>1, <3>3, <4>1
      <4>2. CASE i > 2
        <5> DEFINE j == i - 2
        <5>1. j \in 1 .. Len(t) /\ 2 + j = i
          BY <1>2, <4>2
        <5> HIDE DEF j
        <5> QED
          BY <1>2, <3>4, <5>1
      <4>3. i = 1 \/ i = 2 \/ i > 2
        BY <1>2
      <4> QED
        BY <4>1, <4>2, <4>3
    <3> QED
      BY <3>3, <3>5 DEF x
  <2> HIDE DEF w
  <2> QED
    BY <2>1, <2>3, <2>4 DEF k
<1> QED
  BY <1>4, <1>5

\* The URL of a request without parameters, with one and with two.
LEMMA UrlText ==
    ASSUME NEW u, NEW p
    PROVE  /\ generate_url([uri |-> u, parameters |-> <<>>]) = url_encode(u, FALSE) \o <<>>
           /\ generate_url([uri |-> u, parameters |-> <<p>>])
                = url_encode(u, FALSE) \o (<<Question>> \o Joined(<<Parameter(p)>>, Ampersand))
           /\ \A q : generate_url([uri |-> u, parameters |-> <<p, q>>])
                = url_encode(u, FALSE) \o
                    (<<Question>> \o Joined(<<Parameter(p), Parameter(q)>>, Ampersand))
<1>1. generate_url([uri |-> u, parameters |-> <<>>]) = url_encode(u, FALSE) \o <<>>
  BY DEF generate_url
<1>2. generate_url([uri |-> u, parameters |-> <<p>>])
                = url_encode(u, FALSE) \o (<<Question>> \o Joined(<<Parameter(p)>>, Ampersand))
  <2>1. [k \in DOMAIN <<p>> |-> Parameter(<<p>>[k])] = <<Parameter(p)>>
    OBVIOUS
  <2>2. <<p>> # <<>>
    OBVIOUS
  <2> QED
    BY <2>1, <2>2 DEF generate_url
<1>3. ASSUME NEW q
      PROVE  generate_url([uri |-> u, parameters |-> <<p, q>>])
                = url_encode(u, FALSE) \o
                    (<<Question>> \o Joined(<<Parameter(p), Parameter(q)>>, Ampersand))
  <2>1. [k \in DOMAIN <<p, q>> |-> Parameter(<<p, q>>[k])] = <<Parameter(p), Parameter(q)>>
    OBVIOUS
  <2>2. <<p, q>> # <<>>
    OBVIOUS
  <2> QED
    BY <2>1, <2>2 DEF generate_url
<1> QED
  BY <1>1, <1>2, <1>3

\* The service finds the path, and reads what follows it.
LEMMA ReceivedText ==
    ASSUME NEW u \in Bytes
    PROVE  LET path == url_encode(u, FALSE)
           IN  /\ Received(path) = [uri |-> u, parameters |-> <<>>]
               /\ \A query \in Text :
                     Received(path \o <<Question>> \o query)
                       = [uri |-> u,
                          parameters |-> LET lines == split(query, Ampersand, 0)
                                         IN  [k \in DOMAIN lines |-> ReceivedParameter(lines[k])]]
<1> DEFINE path == url_encode(u, FALSE)
<1>1. path \in Text /\ \A i \in 1 .. Len(path) : path[i] # Question
  BY CodedText
<1>2. url_decode(path) = u
  BY UrlDecodeEncode
<1>3. Question \in Int
  BY DEF Question
<1> HIDE DEF path
<1>4. Received(path) = [uri |-> u, parameters |-> <<>>]
  <2>1. split(path, Question, 2) = <<path>>
    BY <1>1, SplitNone
  <2> QED
    BY <1>2, <2>1 DEF Received
<1>5. ASSUME NEW query \in Text
      PROVE  Received(path \o <<Question>> \o query)
                       = [uri |-> u,
                          parameters |-> LET lines == split(query, Ampersand, 0)
                                         IN  [k \in DOMAIN lines |-> ReceivedParameter(lines[k])]]
  <2> DEFINE url == path \o <<Question>> \o query
  <2>1. split(url, Question, 2) = <<path, query>>
    BY <1>1, <1>3, SplitAt
  <2> HIDE DEF url
  <2>2. Received(url) = [uri |-> u,
                          parameters |-> LET lines == split(query, Ampersand, 0)
                                         IN  [k \in DOMAIN lines |-> ReceivedParameter(lines[k])]]
    BY <1>2, <2>1 DEF Received
  <2> QED
    BY <2>2 DEF url
<1> QED
  BY <1>4, <1>5 DEF path

\* The parameters that Requests are made of.
Flag == [key |-> <<97>>, value |-> <<>>]
Marked(s) == [key |-> <<109>>, value |-> s]

\* Each of the three is read as it was written.
LEMMA RequestRead ==
    ASSUME NEW u \in Bytes, NEW s \in Bytes
    PROVE  /\ Received(generate_url([uri |-> u, parameters |-> <<>>]))
                = [uri |-> u, parameters |-> <<>>]
           /\ Received(generate_url([uri |-> u, parameters |-> <<Flag>>]))
                = [uri |-> u, parameters |-> <<Flag>>]
           /\ Received(generate_url([uri |-> u, parameters |-> <<Flag, Marked(s)>>]))
                = [uri |-> u, parameters |-> <<Flag, Marked(s)>>]
<1> DEFINE path == url_encode(u, FALSE)
           a == Parameter(Flag)
           m == Parameter(Marked(s))
<1>1. path \in Text
  BY CodedText
<1>2. <<Question>> \in Text /\ Ampersand \in Int /\ <<>> \in Bytes /\ 97 \in Lower /\ 109 \in Lower
  BY DEF Question, Ampersand, Text, Bytes, Lower
<1>3. a \in Text /\ ReceivedParameter(a) = Flag /\ \A i \in 1 .. Len(a) : a[i] # Ampersand
  BY <1>2, ParameterIsRead DEF Flag
<1>4. m \in Text /\ ReceivedParameter(m) = Marked(s) /\ \A i \in 1 .. Len(m) : m[i] # Ampersand
  BY <1>2, ParameterIsRead DEF Marked
<1>5. path \o <<>> = path
  BY <1>1, ConcatEmptySeq DEF Text
<1>6. ASSUME NEW query \in Text
      PROVE  path \o (<<Question>> \o query) = path \o <<Question>> \o query
  BY <1>1, <1>2, <1>6, Regroup
<1>7. Received(generate_url([uri |-> u, parameters |-> <<>>])) = [uri |-> u, parameters |-> <<>>]
  BY <1>5, UrlText, ReceivedText
<1>8. Received(generate_url([uri |-> u, parameters |-> <<Flag>>]))
        = [uri |-> u, parameters |-> <<Flag>>]
  <2> HIDE DEF a, m
  <2>1. Joined(<<a>>, Ampersand) = a /\ split(a, Ampersand, 0) = <<a>>
    BY <1>2, <1>3, JoinedOne, SplitNone
  <2>2. generate_url([uri |-> u, parameters |-> <<Flag>>]) = path \o <<Question>> \o a
    <3>1. generate_url([uri |-> u, parameters |-> <<Flag>>])
            = path \o (<<Question>> \o Joined(<<a>>, Ampersand))
      BY UrlText DEF a
    <3> QED
      BY <1>3, <1>6, <2>1, <3>1
  <2>3. LET lines == <<a>> IN [k \in DOMAIN lines |-> ReceivedParameter(lines[k])] = <<Flag>>
    BY <1>3
  <2>4. Received(path \o <<Question>> \o a)
          = [uri |-> u, parameters |-> LET lines == split(a, Ampersand, 0)
                                       IN  [k \in DOMAIN lines |-> ReceivedParameter(lines[k])]]
    BY <1>3, ReceivedText
  <2> QED
    BY <2>1, <2>2, <2>3, <2>4
<1>9. Received(generate_url([uri |-> u, parameters |-> <<Flag, Marked(s)>>]))
        = [uri |-> u, parameters |-> <<Flag, Marked(s)>>]
  <2> DEFINE both == a \o <<Ampersand>> \o m
  <2> HIDE DEF a, m
  <2>1. Joined(<<a, m>>, Ampersand) = both /\ split(both, Ampersand, 0) = <<a, m>>
    BY <1>2, <1>3, <1>4, JoinedTwo, SplitOnce
  <2>a. both \in Text
    <3>1. <<Ampersand>> \in Text
      BY <1>2 DEF Text
    <3>2. a \o <<Ampersand>> \in Text
      BY <1>3, <3>1, Parts
    <3> QED
      BY <1>4, <3>2, Parts
  <2> HIDE DEF both
  <2>2. generate_url([uri |-> u, parameters |-> <<Flag, Marked(s)>>]) = path \o <<Question>> \o both
    <3>1. generate_url([uri |-> u, parameters |-> <<Flag, Marked(s)>>])
            = path \o (<<Question>> \o Joined(<<a, m>>, Ampersand))
      BY UrlText DEF a, m
    <3> QED
      BY <1>6, <2>1, <2>a, <3>1
  <2>3. LET lines == <<a, m>> IN [k \in DOMAIN lines |-> ReceivedParameter(lines[k])]
          = <<Flag, Marked(s)>>
    BY <1>3, <1>4
  <2>4. Received(path \o <<Question>> \o both)
          = [uri |-> u, parameters |-> LET lines == split(both, Ampersand, 0)
                                       IN  [k \in DOMAIN lines |-> ReceivedParameter(lines[k])]]
    BY <2>a, ReceivedText
  <2> QED
    BY <2>1, <2>2, <2>3, <2>4
<1> QED
  BY <1>7, <1>8, <1>9

\* The service signs what was signed where there is nothing to trim.
LEMMA SignedAlike ==
    ASSUME NEW request,
           \A p \in Range(request.parameters) : trim(p.key) = p.key /\ trim(p.value) = p.value
    PROVE  ServiceSigns(request) = generate_auth(request)
<1>1. {url_encode(p.key, TRUE) \o <<Equals>> \o url_encode(p.value, TRUE) :
         p \in Range(request.parameters)}
      = {url_encode(trim(p.key), TRUE) \o <<Equals>> \o url_encode(trim(p.value), TRUE) :
           p \in Range(request.parameters)}
  OBVIOUS
<1> QED
  BY <1>1 DEF ServiceSigns, generate_auth

\* What is said of requests holds of every text.
LEMMA SignedOfAnyText == src \in Bytes => SignedAsSent
<1> SUFFICES ASSUME src \in Bytes, NEW request \in Requests
             PROVE  LET there == Received(generate_url(request))
                    IN  /\ there = request
                        /\ src = trim(src) => ServiceSigns(there) = generate_auth(request)
  BY DEF SignedAsSent
<1> DEFINE name == <<Slash, 98, Slash>> \o src
<1>1. name \in Bytes
  <2>1. <<Slash, 98, Slash>> \in Bytes
    BY DEF Slash, Bytes
  <2> QED
    BY <2>1, ConcatProperties DEF Bytes
<1>2. \/ request = [uri |-> name, parameters |-> <<>>]
      \/ request = [uri |-> name, parameters |-> <<Flag>>]
      \/ request = [uri |-> name, parameters |-> <<Flag, Marked(src)>>]
  BY DEF Requests, Flag, Marked
<1> HIDE DEF name
<1>3. Received(generate_url(request)) = request
  BY <1>1, <1>2, RequestRead
<1>4. ASSUME src = trim(src) PROVE ServiceSigns(request) = generate_auth(request)
  <2>1. trim(<<97>>) = <<97>> /\ trim(<<109>>) = <<109>> /\ trim(<<>>) = <<>>
    <3>1. 97 \in Lower /\ 109 \in Lower /\ TRUE \in BOOLEAN
      BY DEF Lower
    <3>2. trim(<<>>) = <<>>
      BY DEF trim
    <3> QED
      BY <3>1, <3>2, LetterPlain
  <2>2. Range(request.parameters) \subseteq {Flag, Marked(src)}
    BY <1>2 DEF Range
  <2>3. \A p \in {Flag, Marked(src)} : trim(p.key) = p.key /\ trim(p.value) = p.value
    BY <1>4, <2>1 DEF Flag, Marked
  <2> QED
    BY <2>2, <2>3, SignedAlike
<1> QED
  BY <1>3, <1>4

(***************************************************************************)
(* For every text as the name of an object and as the value of a parameter *)
(* the service reads the request that generate_url wrote, and computes the *)
(* signature of what generate_auth signed (http_request.cpp:54-69,         *)
(* auth.cpp:30-50).                                                        *)
(***************************************************************************)
THEOREM RequestsAreSigned == TextSpec => []SignedAsSent
<1>1. src \in Seq(Byte) => SignedAsSent
  BY TextOfBytes, SignedOfAnyText
<1> QED
  BY <1>1, TextTypes, PTL

===============================================================================
