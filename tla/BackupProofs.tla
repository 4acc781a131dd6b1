----------------------------- MODULE BackupProofs -----------------------------
(***************************************************************************)
(* What Backup keeps for every set of files and runs and every calendar.   *)
(***************************************************************************)
EXTENDS Backup, Integers, TLAPS

-------------------------------------------------------------------------------
(* Types *)

LEMMA OffTypes ==
  ASSUME TypeOK, NEW r \in Runs, Off(r),
         UNCHANGED <<today, arrived, arh, local, tgz, remote, cleared, odd>>
  PROVE  TypeOK'
BY BackupAssumption DEF TypeOK, Off, Goto, Days

LEMMA RunTypes ==
  ASSUME TypeOK, NEW r \in Runs, Run(r) \/ Stop(r)
  PROVE  TypeOK'
<1>1. CASE End(r) \/ Stop(r)
  <2>1. Off(r) /\ UNCHANGED <<today, arrived, arh, local, tgz, remote, cleared, odd>>
    BY <1>1 DEF End, Stop
  <2> QED  BY <2>1, OffTypes
<1> USE BackupAssumption DEF TypeOK, Goto
<1>7. CASE Start(r)
  <2>1. today - Age \in Days
    BY <1>7 DEF Start, Days
  <2>2. odd' \subseteq Oddities
    BY <1>7 DEF Start, Oddities
  <2> QED  BY <1>7, <2>1, <2>2 DEF Start
<1>2. CASE Tar(r)
  BY <1>2 DEF Tar, OfDay
<1>3. CASE TarEnds(r)
  <2>1. PICK packed \in SUBSET (names[r] \intersect arh) :
          /\ odd' = odd \union {k \in {"tar"} : packed # names[r]}
          /\ tgz' = IF data[r] \in local THEN [tgz EXCEPT ![data[r]] = packed] ELSE tgz
    BY <1>3 DEF TarEnds
  <2>2. \A f \in names[r] : f \in arrived /\ DayOf[f] = data[r]
    OBVIOUS
  <2>3. odd' \subseteq Oddities
    BY <2>1 DEF Oddities
  <2> QED  BY <1>3, <2>1, <2>2, <2>3 DEF TarEnds
<1>4. CASE Rm(r)
  BY <1>4 DEF Rm, OfDay
<1>5. CASE Rsync(r)
  BY <1>5 DEF Rsync
<1>6. CASE Send(r)
  BY <1>6 DEF Send
<1> QED  BY <1>1, <1>2, <1>3, <1>4, <1>5, <1>6, <1>7 DEF Run

\* Archives hold files of their day only.
THEOREM TypeCorrect == Spec => []TypeOK
<1>1. Init => TypeOK
  BY BackupAssumption DEF Init, TypeOK, Days
<1>2. TypeOK /\ [Next]_vars => TypeOK'
  <2> SUFFICES ASSUME TypeOK, [Next]_vars PROVE TypeOK'
    OBVIOUS
  <2>1. CASE NextDay
    BY <2>1, BackupAssumption DEF NextDay, TypeOK
  <2>2. ASSUME NEW f \in Files, Arrive(f) PROVE TypeOK'
    BY <2>2 DEF Arrive, TypeOK, Oddities
  <2>3. CASE UNCHANGED vars
    BY <2>3 DEF vars, TypeOK
  <2> QED  BY <2>1, <2>2, <2>3, RunTypes DEF Next
<1> QED  BY <1>1, <1>2, PTL DEF Spec

-------------------------------------------------------------------------------
(* What holds as long as nothing odd has happened *)

\* The files of a day that are no longer in arh, and where they are then.
Missing(d) == {f \in arrived \ arh : DayOf[f] = d}

Held(d) == IF d \in local THEN tgz[d] ELSE remote[d]

Unpacked == {"tar", "write", "rm"}

\* A run is alone.  Its day is the latest one that was archived, and still
\* untouched until its rm; its archive has all of the day's files by then.
RunsFine ==
  \A r \in Runs : pc[r] # "off" =>
    /\ \A q \in Runs : pc[q] # "off" => q = r
    /\ \A d \in cleared \union local : d <= data[r]
    /\ data[r] <= today - Age
    /\ pc[r] \in Unpacked => data[r] \notin cleared
    /\ pc[r] \in {"rsync", "send"} => data[r] \in cleared
    /\ pc[r] = "write" => data[r] \in local /\ names[r] = OfDay(data[r])
    /\ pc[r] = "rm" => data[r] \in local /\ OfDay(data[r]) \subseteq tgz[data[r]]

\* Files are missing only of days that were cleared, and then they are in the
\* archive.  What is on the server came there after its day, or a later one,
\* was cleared, and the archive in arh has not less.
DaysFine ==
  \A d \in Days :
    /\ Missing(d) \subseteq Held(d)
    /\ d \notin cleared => Missing(d) = {}
    /\ remote[d] # {} => \E e \in cleared : d <= e
    /\ d \in local => remote[d] \subseteq tgz[d] /\ d <= today - Age
    /\ d \in cleared => d <= today - Age

Calm == RunsFine /\ DaysFine

Ind == odd = {} => Calm

LEMMA InitInd == Init => Ind
BY DEF Init, Ind, Calm, RunsFine, DaysFine, Missing

LEMMA OddStays == [Next]_vars => odd \subseteq odd'
BY DEF Next, vars, NextDay, Arrive, Run, Stop, Start, Tar, TarEnds, Rm, Rsync, Send, End

LEMMA OutsideInd ==
  ASSUME TypeOK, Calm, odd' = {}, NextDay \/ \E f \in Files : Arrive(f)
  PROVE  Calm'
<1> USE BackupAssumption DEF TypeOK, Days
<1>1. CASE NextDay
  <2>1. /\ today' = today + 1
        /\ UNCHANGED <<arrived, arh, local, tgz, remote, pc, data, names, todo, cleared>>
    BY <1>1 DEF NextDay
  <2>2. RunsFine'
    BY <2>1 DEF Calm, RunsFine, OfDay
  <2>3. DaysFine'
    BY <2>1 DEF Calm, DaysFine, Missing, Held
  <2> QED  BY <2>2, <2>3 DEF Calm
<1>2. ASSUME NEW f \in Files, Arrive(f) PROVE Calm'
  <2>1. /\ arrived' = arrived \union {f} /\ arh' = arh \union {f} /\ f \notin arrived
        /\ UNCHANGED <<today, local, tgz, remote, pc, data, names, todo, cleared>>
    BY <1>2 DEF Arrive
  <2>2. \A r \in Runs : pc[r] # "off" => data[r] # DayOf[f]
    BY <1>2 DEF Arrive
  <2>3. RunsFine'
    <3>1. \A r \in Runs : pc[r] # "off" => OfDay(data[r])' = OfDay(data[r])
      BY <2>1, <2>2 DEF OfDay
    <3> QED  BY <2>1, <3>1 DEF Calm, RunsFine
  <2>4. DaysFine'
    <3> SUFFICES ASSUME NEW d \in Days
                 PROVE  /\ Missing(d)' \subseteq Held(d)'
                        /\ d \notin cleared => Missing(d)' = {}
      BY <2>1 DEF Calm, DaysFine
    <3>1. Missing(d)' = Missing(d) /\ Held(d)' = Held(d)
      BY <2>1 DEF Missing, Held
    <3>2. Missing(d) \subseteq Held(d) /\ (d \notin cleared => Missing(d) = {})
      BY DEF Calm, DaysFine
    <3> QED  BY <3>1, <3>2
  <2> QED  BY <2>3, <2>4 DEF Calm
<1> QED  BY <1>1, <1>2

LEMMA StartInd ==
  ASSUME TypeOK, Calm, odd' = {}, NEW r \in Runs, Start(r)
  PROVE  Calm'
<1> USE BackupAssumption DEF TypeOK
<1>1. /\ pc' = [pc EXCEPT ![r] = "tar"] /\ data' = [data EXCEPT ![r] = today - Age]
      /\ today - Age \notin cleared /\ \A q \in Runs : pc[q] = "off"
      /\ UNCHANGED <<today, arrived, arh, local, tgz, remote, names, todo, cleared>>
  BY DEF Start, Goto
<1>2. \A d \in cleared \union local : d <= today - Age
  BY DEF Calm, DaysFine
<1>3. today - Age \in Int
  BY DEF Days
<1>4. RunsFine'
  BY <1>1, <1>2, <1>3 DEF RunsFine, Unpacked
<1>5. DaysFine'
  BY <1>1 DEF Calm, DaysFine, Missing, Held
<1> QED  BY <1>4, <1>5 DEF Calm

\* The run's day is untouched: nothing of it is on the server.
LEMMA Untouched ==
  ASSUME TypeOK, Calm, NEW r \in Runs, pc[r] \in Unpacked
  PROVE  remote[data[r]] = {} /\ Missing(data[r]) = {} /\ data[r] \in Days
<1>1. data[r] \in Days /\ data[r] \notin cleared /\ \A e \in cleared : e <= data[r]
  BY DEF Calm, RunsFine, Unpacked, TypeOK
<1>2. ~(\E e \in cleared : data[r] <= e)
  BY <1>1 DEF TypeOK, Days
<1> QED  BY <1>1, <1>2 DEF Calm, DaysFine

LEMMA TarInd ==
  ASSUME TypeOK, Calm, NEW r \in Runs, Tar(r)
  PROVE  Calm'
<1> USE BackupAssumption DEF TypeOK
<1>1. /\ pc[r] = "tar" /\ pc' = [pc EXCEPT ![r] = "write"]
      /\ names' = [names EXCEPT ![r] = OfDay(data[r])]
      /\ local' = local \union {data[r]} /\ tgz' = [tgz EXCEPT ![data[r]] = {}]
      /\ UNCHANGED <<today, arrived, arh, remote, data, todo, cleared>>
  BY DEF Tar, Goto
<1>2. remote[data[r]] = {} /\ Missing(data[r]) = {} /\ data[r] \in Days
  BY <1>1, Untouched DEF Unpacked
<1>3. /\ \A q \in Runs : pc[q] # "off" => q = r
      /\ \A d \in cleared \union local : d <= data[r]
      /\ data[r] \notin cleared /\ data[r] <= today - Age
  BY <1>1 DEF Calm, RunsFine, Unpacked
<1>4. RunsFine'
  BY <1>1, <1>2, <1>3 DEF RunsFine, Unpacked, OfDay, Days
<1>5. DaysFine'
  BY <1>1, <1>2, <1>3 DEF Calm, DaysFine, Missing, Held
<1> QED  BY <1>4, <1>5 DEF Calm

LEMMA TarEndsInd ==
  ASSUME TypeOK, Calm, odd' = {}, NEW r \in Runs, TarEnds(r)
  PROVE  Calm'
<1> USE BackupAssumption DEF TypeOK
<1>1. /\ pc[r] = "write" /\ pc' = [pc EXCEPT ![r] = "rm"]
      /\ names' = [names EXCEPT ![r] = {}]
      /\ UNCHANGED <<today, arrived, arh, local, remote, data, todo, cleared>>
  BY DEF TarEnds, Goto
<1>2. remote[data[r]] = {} /\ Missing(data[r]) = {} /\ data[r] \in Days
  BY <1>1, Untouched DEF Unpacked
<1>3. /\ \A q \in Runs : pc[q] # "off" => q = r
      /\ \A d \in cleared \union local : d <= data[r]
      /\ data[r] \notin cleared /\ data[r] \in local /\ data[r] <= today - Age
      /\ names[r] = OfDay(data[r])
  BY <1>1 DEF Calm, RunsFine, Unpacked
<1>4. tgz' = [tgz EXCEPT ![data[r]] = OfDay(data[r])]
  BY <1>3 DEF TarEnds
<1>5. RunsFine'
  BY <1>1, <1>2, <1>3, <1>4 DEF RunsFine, Unpacked, OfDay
<1>6. DaysFine'
  BY <1>1, <1>2, <1>3, <1>4 DEF Calm, DaysFine, Missing, Held
<1> QED  BY <1>5, <1>6 DEF Calm

LEMMA RmInd ==
  ASSUME TypeOK, Calm, NEW r \in Runs, Rm(r)
  PROVE  Calm'
<1> USE BackupAssumption DEF TypeOK
<1>1. PICK gone \in SUBSET OfDay(data[r]) : arh' = arh \ gone
  BY DEF Rm
<1>2. /\ pc[r] = "rm" /\ pc' = [pc EXCEPT ![r] = "rsync"]
      /\ cleared' = cleared \union {data[r]}
      /\ UNCHANGED <<today, arrived, local, tgz, remote, data, names, todo>>
  BY DEF Rm, Goto
<1>3. remote[data[r]] = {} /\ Missing(data[r]) = {} /\ data[r] \in Days
  BY <1>2, Untouched DEF Unpacked
<1>4. /\ \A q \in Runs : pc[q] # "off" => q = r
      /\ \A d \in cleared \union local : d <= data[r]
      /\ data[r] \in local /\ data[r] <= today - Age
      /\ OfDay(data[r]) \subseteq tgz[data[r]]
  BY <1>2 DEF Calm, RunsFine, Unpacked
<1>5. RunsFine'
  BY <1>2, <1>3, <1>4 DEF RunsFine, Unpacked, Days
<1>6. \A d \in Days :
        Missing(d)' \subseteq IF d = data[r] THEN OfDay(d) ELSE Missing(d)
  BY <1>1, <1>2, <1>3 DEF Missing, OfDay
<1>7. DaysFine'
  BY <1>2, <1>3, <1>4, <1>6 DEF Calm, DaysFine, Held
<1> QED  BY <1>5, <1>7 DEF Calm

LEMMA RsyncInd ==
  ASSUME TypeOK, Calm, NEW r \in Runs, Rsync(r) \/ End(r) \/ Stop(r)
  PROVE  Calm'
<1> USE BackupAssumption DEF TypeOK
<1>1. UNCHANGED <<today, arrived, arh, local, tgz, remote, cleared>>
  BY DEF Rsync, End, Stop
<1>2. \A q \in Runs : pc'[q] # "off" =>
        /\ pc[q] # "off" /\ data'[q] = data[q] /\ names'[q] = names[q]
        /\ pc'[q] = pc[q] \/ (pc[q] = "rsync" /\ pc'[q] = "send")
  BY DEF Rsync, End, Stop, Off, Goto
<1>3. RunsFine'
  BY <1>1, <1>2 DEF Calm, RunsFine, Unpacked, OfDay
<1>4. DaysFine'
  BY <1>1 DEF Calm, DaysFine, Missing, Held
<1> QED  BY <1>3, <1>4 DEF Calm

LEMMA SendInd ==
  ASSUME TypeOK, Calm, NEW r \in Runs, Send(r)
  PROVE  Calm' /\ \A d \in Days : remote[d] \subseteq remote'[d]
<1> USE BackupAssumption DEF TypeOK
<1>1. /\ pc[r] = "send"
      /\ UNCHANGED <<today, arrived, arh, pc, data, names, cleared>>
  BY DEF Send
<1>2. PICK d \in todo[r] :
        IF d \in local
          THEN /\ remote' = [remote EXCEPT ![d] = tgz[d]]
               /\ \/ local' = local \ {d} /\ tgz' = [tgz EXCEPT ![d] = {}]
                  \/ UNCHANGED <<local, tgz>>
          ELSE UNCHANGED <<remote, local, tgz>>
  BY DEF Send
<1>3. /\ \A q \in Runs : pc[q] # "off" => q = r
      /\ \A e \in cleared \union local : e <= data[r]
      /\ data[r] \in cleared /\ data[r] <= today - Age
  BY <1>1 DEF Calm, RunsFine
<1>4. local' \subseteq local
  BY <1>2
<1>5. RunsFine'
  BY <1>1, <1>3, <1>4 DEF RunsFine, Unpacked
<1>6. d \in Days
  OBVIOUS
<1>7. \A e \in Days :
        /\ Held(e)' = Held(e)
        /\ remote[e] \subseteq remote'[e]
        /\ remote'[e] # remote[e] => e <= data[r]
        /\ e \in local' => remote'[e] \subseteq tgz'[e]
  BY <1>2, <1>3, <1>6 DEF Calm, DaysFine, Held
<1>8. DaysFine'
  BY <1>1, <1>3, <1>4, <1>7 DEF Calm, DaysFine, Missing
<1> QED  BY <1>5, <1>7, <1>8 DEF Calm

-------------------------------------------------------------------------------
(* The theorems *)

LEMMA IndStep == TypeOK /\ Ind /\ [Next]_vars => Ind'
<1> SUFFICES ASSUME TypeOK, Ind, [Next]_vars, odd' = {} PROVE Calm'
  BY DEF Ind
<1>1. Calm
  BY OddStays DEF Ind
<1>2. CASE NextDay \/ \E f \in Files : Arrive(f)
  BY <1>1, <1>2, OutsideInd
<1>3. ASSUME NEW r \in Runs, Run(r) \/ Stop(r) PROVE Calm'
  BY <1>1, <1>3, StartInd, TarInd, TarEndsInd, RmInd, RsyncInd, SendInd DEF Run
<1>4. CASE UNCHANGED vars
  BY <1>1, <1>4 DEF vars, Calm, RunsFine, DaysFine, OfDay, Missing, Held
<1> QED  BY <1>2, <1>3, <1>4 DEF Next

LEMMA IndInvariant == Spec => []Ind
BY InitInd, IndStep, TypeCorrect, PTL DEF Spec

\* Wherever runs stop and whatever rsync leaves undone: no file leaves arh that
\* cannot be unpacked from an archive, while nothing odd happens.
THEOREM FilesAreKept == Spec => []Kept
<1>1. TypeOK /\ Ind => Kept
  <2> SUFFICES ASSUME TypeOK, Calm, NEW f \in arrived, f \notin arh
               PROVE  InTgz(f) \/ f \in remote[DayOf[f]]
    BY DEF Ind, Kept
  <2>1. DayOf[f] \in Days
    BY BackupAssumption DEF TypeOK
  <2>2. f \in Missing(DayOf[f])
    BY DEF Missing
  <2>3. f \in Held(DayOf[f])
    BY <2>1, <2>2 DEF Calm, DaysFine
  <2> QED  BY <2>3 DEF Held, InTgz
<1> QED  BY <1>1, TypeCorrect, IndInvariant, PTL

\* Under the same proviso an archive on the backup server is only ever replaced
\* by one with at least the same files.
THEOREM RemoteOnlyGrows == Spec => RemoteGrows
<1>1. TypeOK /\ Ind /\ [Next]_vars
        => [odd' = {} => \A d \in Days : remote[d] \subseteq remote'[d]]_vars
  <2> SUFFICES ASSUME TypeOK, Ind, [Next]_vars, odd' = {}, NEW d \in Days
               PROVE  remote[d] \subseteq remote'[d]
    OBVIOUS
  <2>1. Calm
    BY OddStays DEF Ind
  <2>2. ASSUME NEW r \in Runs, Send(r) PROVE remote[d] \subseteq remote'[d]
    BY <2>1, <2>2, SendInd
  <2>3. (\E r \in Runs : Send(r)) \/ remote' = remote
    BY DEF Next, vars, NextDay, Arrive, Run, Stop, Start, Tar, TarEnds, Rm, Rsync, End
  <2> QED  BY <2>2, <2>3
<1> QED  BY <1>1, TypeCorrect, IndInvariant, PTL DEF Spec, RemoteGrows
===============================================================================
