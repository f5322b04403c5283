--------------------------- MODULE StartupProofs ---------------------------
(***************************************************************************)
(* Proofs about the life of the process, for any settings in any layers,   *)
(* any migration, any limits, and faults at any step.                      *)
(***************************************************************************)
EXTENDS Startup, TLAPS

\* The settings in force are those of the layers, from the moment they are read.
ConfigInv == phase # "down" => config = FromCliAndFile

Migrated == {"migrated", "spawned", "bound", "signalled", "serving", "stopping", "closing"}

\* How far main has come, what is on disk and what the process holds go together.
LifeInv ==
    /\ phase \in {"down", "loaded"} => at = 1
    /\ phase = "migrating" => at <= Statements /\ 1 .. at - 1 \subseteq schema
    /\ phase \in Migrated => 1 .. Statements \subseteq schema
    /\ phase \in {"down", "loaded", "migrating", "migrated"} => task = NoTasks
    /\ phase \in {"bound", "signalled", "serving"} => config.grpc \in listening
    /\ probe # Idle => phase \in {"serving", "stopping", "closing"}
    /\ task.flush = "dead" => config.flush = 0
    /\ task.cleanup = "dead" => RetentionHours > MaxCutoffHours

-----------------------------------------------------------------------------
(* Numbers *)

\* The quotient of a product by one of its factors is the other.
LEMMA QuotientOfProduct ==
    ASSUME NEW h \in Nat, NEW s \in Nat \ {0}
    PROVE  (h * s) \div s = h
OBVIOUS

\* What is below the modulus is its own remainder.
LEMMA SmallRemainder ==
    ASSUME NEW n \in Nat, NEW w \in Nat \ {0}, n < w
    PROVE  n % w = n
OBVIOUS

\* A quotient above a bound comes from a number above the bound's multiple.
LEMMA LargeQuotient ==
    ASSUME NEW r \in Nat, NEW s \in Nat \ {0}, NEW m \in Nat, r \div s > m
    PROVE  r >= s * m
OBVIOUS

-----------------------------------------------------------------------------
(* Settings *)

\* The merged settings are those of the first layer that sets them, of which
\* there is one value or none.
LEMMA MergedIsAsked ==
    ASSUME NEW x
    PROVE  Merged(x) = Asked(x)
BY DEF Merged, Cli, Or, Asked

\* What is asked for a name, by whichever layer, is at most one value of its type.
LEMMA AskedIsOption ==
    ASSUME layers \in Layerings, NEW x \in Names
    PROVE  /\ IsOption(Asked(x))
           /\ x \in Numbers => Asked(x) \subseteq Nat
BY LayeringsAssumption DEF Asked

\* An address is one that was asked for, or else the default.
LEMMA AddressIsAsked ==
    ASSUME layers \in Layerings, NEW x \in Texts
    PROVE  /\ Address(x) \in Addresses
           /\ Address(x) \in IF Asked(x) \cap Addresses # {} THEN Asked(x) ELSE {Defaults[x]}
<1>1. Defaults[x] \in Addresses
  BY DefaultsAssumption DEF Texts
<1>2. Address(x) = UnwrapOr(Asked(x) \cap Addresses, Defaults[x])
  BY MergedIsAsked DEF Address
<1>3. CASE Asked(x) \cap Addresses = {}
  BY <1>1, <1>2, <1>3 DEF UnwrapOr
<1>4. CASE Asked(x) \cap Addresses # {}
  <2>1. Address(x) = CHOOSE v \in Asked(x) \cap Addresses : TRUE
    BY <1>2, <1>4 DEF UnwrapOr
  <2>2. Address(x) \in Asked(x) \cap Addresses
    BY <1>4, <2>1
  <2> QED
    BY <1>4, <2>2
<1> QED
  BY <1>3, <1>4

\* A number is the one that was asked for, or else the default.
LEMMA NumberIsAsked ==
    ASSUME layers \in Layerings, NEW x \in Numbers
    PROVE  /\ Number(x) \in Nat
           /\ Or(Asked(x), {Defaults[x]}) = {Number(x)}
<1>1. Number(x) = UnwrapOr(Asked(x), Defaults[x])
  BY MergedIsAsked DEF Number
<1>2. IsOption(Asked(x)) /\ Asked(x) \subseteq Nat
  BY AskedIsOption DEF Names
<1>3. CASE Asked(x) = {}
  BY <1>1, <1>3, DefaultsAssumption DEF UnwrapOr, Or
<1>4. CASE Asked(x) # {}
  <2>1. Number(x) = CHOOSE v \in Asked(x) : TRUE
    BY <1>1, <1>4 DEF UnwrapOr
  <2>2. Number(x) \in Asked(x)
    BY <1>4, <2>1
  <2>3. Asked(x) = {Number(x)}
    BY <1>2, <2>2 DEF IsOption
  <2> QED
    BY <1>2, <1>4, <2>2, <2>3 DEF Or
<1> QED
  BY <1>3, <1>4

ConfigTypes == [grpc : Addresses, http : Addresses, retention : 0 .. Word - 1,
                size : Nat, flush : Nat]

\* However the layers overlap, the configuration that results has its types.
LEMMA ConfigIsTyped ==
    ASSUME layers \in Layerings
    PROVE  FromCliAndFile \in ConfigTypes
<1>1. Address("grpc") \in Addresses /\ Address("http") \in Addresses
  BY AddressIsAsked DEF Texts
<1>2. Number("hours") \in Nat /\ Number("size") \in Nat /\ Number("flush") \in Nat
  BY NumberIsAsked DEF Numbers
<1>3. HourSecs \in Nat \ {0} /\ Word \in Nat \ {0}
  BY NumbersAssumption
<1>4. Number("hours") * HourSecs \in Nat
  BY <1>2, <1>3
<1>5. (Number("hours") * HourSecs) % Word \in 0 .. Word - 1
  BY <1>3, <1>4
<1> QED
  BY <1>1, <1>2, <1>5 DEF FromCliAndFile, ConfigTypes

\* The settings read from the layers are those asked for; the retention, in
\* seconds, is as many hours, unless it overflows.
LEMMA ConfigIsAsked ==
    ASSUME layers \in Layerings, config = FromCliAndFile
    PROVE  /\ \A x \in Texts : config[x] \in
                 IF Asked(x) \cap Addresses # {} THEN Asked(x) ELSE {Defaults[x]}
           /\ \A x \in {"size", "flush"} : config[x] \in Or(Asked(x), {Defaults[x]})
           /\ \A hours \in Or(Asked("hours"), {Defaults.hours}) :
                 RetentionHours = hours \/ hours * HourSecs >= Word
<1>1. /\ config["grpc"] = Address("grpc") /\ config["http"] = Address("http")
      /\ config["size"] = Number("size") /\ config["flush"] = Number("flush")
      /\ config.retention = (Number("hours") * HourSecs) % Word
  BY DEF FromCliAndFile
<1>2. ASSUME NEW x \in Texts
      PROVE  config[x] \in IF Asked(x) \cap Addresses # {} THEN Asked(x) ELSE {Defaults[x]}
  <2>1. config[x] = Address(x)
    BY <1>1 DEF Texts
  <2> QED
    BY <2>1, AddressIsAsked
<1>3. ASSUME NEW x \in {"size", "flush"}
      PROVE  config[x] \in Or(Asked(x), {Defaults[x]})
  <2>1. x \in Numbers /\ config[x] = Number(x)
    BY <1>1 DEF Numbers
  <2> QED
    BY <2>1, NumberIsAsked
<1>4. ASSUME NEW hours \in Or(Asked("hours"), {Defaults.hours}), hours * HourSecs < Word
      PROVE  RetentionHours = hours
  <2>1. hours = Number("hours") /\ hours \in Nat
    BY NumberIsAsked DEF Numbers
  <2>2. HourSecs \in Nat \ {0} /\ Word \in Nat \ {0} /\ hours * HourSecs \in Nat
    BY <2>1, NumbersAssumption
  <2>3. (hours * HourSecs) % Word = hours * HourSecs
    BY <1>4, <2>2, SmallRemainder
  <2>4. (hours * HourSecs) \div HourSecs = hours
    BY <2>1, <2>2, QuotientOfProduct
  <2> QED
    BY <1>1, <2>1, <2>3, <2>4 DEF RetentionHours
<1>5. ASSUME NEW hours \in Or(Asked("hours"), {Defaults.hours})
      PROVE  RetentionHours = hours \/ hours * HourSecs >= Word
  <2>1. hours = Number("hours") /\ hours \in Nat
    BY NumberIsAsked DEF Numbers
  <2>2. hours * HourSecs \in Nat /\ Word \in Nat
    BY <2>1, NumbersAssumption
  <2> QED
    BY <1>4, <2>2
<1> QED
  BY <1>2, <1>3, <1>5

-----------------------------------------------------------------------------
(* The life of the process *)

StartupInv == TypeOK /\ ConfigInv /\ LifeInv

\* Whatever ends the process leaves what is on disk, and the rest as at the start.
LEMMA GoneStep ==
    ASSUME StartupInv, Gone, faults' \in 0 .. MaxFaults
    PROVE  StartupInv'
<1>1. 0 \in 0 .. Word - 1 /\ 1 \in 1 .. Statements + 1
  BY NumbersAssumption
<1>2. NoConfig \in ConfigTypes
  BY <1>1, DefaultsAssumption DEF NoConfig, ConfigTypes
<1>3. TypeOK'
  BY <1>1, <1>2 DEF StartupInv, TypeOK, Gone, ConfigTypes, NoTasks, Idle
<1> QED
  BY <1>3 DEF StartupInv, Gone, ConfigInv, LifeInv, Migrated, NoTasks, Idle

\* What main, the tasks, the probe and the faults do keeps it all together.
LEMMA StartupStep ==
    ASSUME StartupInv, [Next]_vars
    PROVE  StartupInv'
<1> USE DEF StartupInv
<1>1. faults \in 0 .. MaxFaults /\ layers \in Layerings
  BY DEF TypeOK
<1>2. Gone /\ UNCHANGED faults => StartupInv'
  BY <1>1, GoneStep
<1>3. UNCHANGED <<layers, config>> /\ (phase = "down" => phase' = "down") => ConfigInv'
  BY DEF ConfigInv, FromCliAndFile, Address, Number, Merged, Cli
<1>4. CASE Load
  <2>1. /\ phase = "down" /\ phase' = "loaded" /\ config' = FromCliAndFile
        /\ UNCHANGED <<layers, schema, at, task, listening, taken, flag, probe, faults>>
    BY <1>4 DEF Load, Reaches
  <2>2. ConfigInv'
    BY <2>1 DEF ConfigInv, FromCliAndFile, Address, Number, Merged, Cli
  <2>3. TypeOK'
    BY <1>1, <2>1, ConfigIsTyped DEF TypeOK, ConfigTypes
  <2>4. LifeInv'
    BY <2>1 DEF LifeInv, Migrated, NoTasks
  <2> QED
    BY <2>2, <2>3, <2>4
<1>5. CASE OpenPool
  <2>1. /\ phase = "loaded" /\ phase' = "migrating"
        /\ UNCHANGED <<layers, config, schema, at, task, listening, taken, flag, probe, faults>>
    BY <1>5 DEF OpenPool, Reaches
  <2>2. at = 1 /\ at' <= Statements /\ 1 .. at' - 1 = {}
    BY <2>1, NumbersAssumption DEF LifeInv
  <2>3. TypeOK' /\ ConfigInv'
    BY <1>3, <2>1 DEF TypeOK
  <2>4. LifeInv'
    BY <2>1, <2>2 DEF LifeInv, Migrated, RetentionHours
  <2> QED
    BY <2>3, <2>4
<1>6. CASE Migrate
  <2>1. /\ phase = "migrating"
        /\ phase' = IF at = Statements THEN "migrated" ELSE "migrating"
        /\ schema' = schema \cup {at} /\ at' = at + 1
        /\ UNCHANGED <<layers, config, task, listening, taken, flag, probe, faults>>
    BY <1>6 DEF Migrate, Reaches
  <2>2. /\ at \in 1 .. Statements + 1 /\ at <= Statements
        /\ 1 .. at - 1 \subseteq schema /\ Statements \in Nat
    BY <2>1, NumbersAssumption DEF LifeInv, TypeOK
  <2>3. at \in 1 .. Statements /\ at' \in 1 .. Statements + 1 /\ 1 .. at \subseteq schema'
    <3>1. at \in 1 .. Statements /\ at' \in 1 .. Statements + 1
      BY <2>1, <2>2
    <3>2. \A i \in 1 .. at : i \in 1 .. at - 1 \/ i = at
      BY <2>2
    <3> QED
      BY <2>1, <2>2, <3>1, <3>2
  <2>4. TypeOK' /\ ConfigInv'
    BY <1>3, <2>1, <2>3 DEF TypeOK
  <2>5. task' = NoTasks /\ probe' = Idle
    BY <2>1 DEF LifeInv
  <2>6. CASE at = Statements
    <3>1. phase' = "migrated" /\ 1 .. Statements \subseteq schema'
      BY <2>1, <2>3, <2>6
    <3> QED
      BY <2>4, <2>5, <3>1 DEF LifeInv, NoTasks
  <2>7. CASE at # Statements
    <3>1. at' <= Statements /\ at' - 1 = at
      BY <2>1, <2>2, <2>7
    <3>2. 1 .. at' - 1 \subseteq schema' /\ phase' = "migrating"
      BY <2>1, <2>3, <2>7, <3>1
    <3> QED
      BY <2>4, <2>5, <3>1, <3>2 DEF LifeInv, Migrated, NoTasks
  <2> QED
    BY <2>6, <2>7
<1>7. CASE Spawn
  <2>1. CASE config.size \in 1 .. MaxPermits
    <3>1. /\ phase = "migrated" /\ phase' = "spawned"
          /\ task' = [flush |-> "spawned", cleanup |-> "spawned"]
          /\ UNCHANGED <<layers, config, schema, at, listening, taken, flag, probe, faults>>
      BY <1>7, <2>1 DEF Spawn, Reaches
    <3>2. TypeOK' /\ ConfigInv'
      BY <1>3, <3>1 DEF TypeOK
    <3>3. LifeInv'
      BY <3>1 DEF LifeInv, Migrated
    <3> QED
      BY <3>2, <3>3
  <2> QED
    BY <1>2, <1>7, <2>1 DEF Spawn
<1>8. CASE BindGrpc
  <2>1. CASE config.grpc \notin taken \cup listening
    <3>1. /\ phase = "spawned" /\ phase' = "bound"
          /\ listening' = listening \cup {config.grpc}
          /\ UNCHANGED <<layers, config, schema, at, task, taken, flag, probe, faults>>
      BY <1>8, <2>1 DEF BindGrpc, Bind, Reaches
    <3>2. TypeOK' /\ ConfigInv'
      BY <1>3, <2>1, <3>1 DEF TypeOK
    <3>3. LifeInv'
      BY <3>1 DEF LifeInv, Migrated, RetentionHours
    <3> QED
      BY <3>2, <3>3
  <2> QED
    BY <1>2, <1>8, <2>1 DEF BindGrpc, Bind
<1>9. CASE SignalReady
  <2>1. /\ phase = "bound" /\ phase' = "signalled" /\ flag' = TRUE
        /\ UNCHANGED <<layers, config, schema, at, task, listening, taken, probe, faults>>
    BY <1>9 DEF SignalReady, Reaches
  <2>2. TypeOK' /\ ConfigInv'
    BY <1>3, <2>1 DEF TypeOK
  <2>3. LifeInv'
    BY <2>1 DEF LifeInv, Migrated, RetentionHours
  <2> QED
    BY <2>2, <2>3
<1>10. CASE BindHttp
  <2>1. CASE config.http \notin taken \cup listening
    <3>1. /\ phase = "signalled" /\ phase' = "serving"
          /\ listening' = listening \cup {config.http}
          /\ UNCHANGED <<layers, config, schema, at, task, taken, flag, probe, faults>>
      BY <1>10, <2>1 DEF BindHttp, Bind, Reaches
    <3>2. TypeOK' /\ ConfigInv'
      BY <1>3, <2>1, <3>1 DEF TypeOK
    <3>3. LifeInv'
      BY <3>1 DEF LifeInv, Migrated, RetentionHours
    <3> QED
      BY <3>2, <3>3
  <2> QED
    BY <1>2, <1>10, <2>1 DEF BindHttp, Bind
<1>11. CASE ClosePool
  <2>1. /\ phase = "stopping" /\ phase' = "closing"
        /\ UNCHANGED <<layers, config, schema, at, task, listening, taken, flag, probe, faults>>
    BY <1>11 DEF ClosePool, Reaches
  <2>2. TypeOK' /\ ConfigInv'
    BY <1>3, <2>1 DEF TypeOK
  <2>3. LifeInv'
    BY <2>1 DEF LifeInv, Migrated, RetentionHours
  <2> QED
    BY <2>2, <2>3
<1>12. CASE Exit
  BY <1>2, <1>12 DEF Exit
<1>13. CASE Stop
  <2>1. /\ phase = "serving" /\ phase' = "stopping" /\ listening' = {}
        /\ faults' \in 0 .. MaxFaults
        /\ UNCHANGED <<layers, config, schema, at, task, taken, flag, probe>>
    BY <1>1, <1>13, NumbersAssumption DEF Stop
  <2>2. TypeOK' /\ ConfigInv'
    BY <1>3, <2>1 DEF TypeOK
  <2>3. LifeInv'
    BY <2>1 DEF LifeInv, Migrated, RetentionHours
  <2> QED
    BY <2>2, <2>3
<1>14. CASE Die
  <2>1. faults' \in 0 .. MaxFaults
    BY <1>1, <1>14, NumbersAssumption DEF Die
  <2> QED
    BY <1>14, <2>1, GoneStep DEF Die
<1>15. CASE FlushTaskStarts
  <2>1. /\ task.flush = "spawned"
        /\ task' = [task EXCEPT !.flush = IF config.flush = 0 THEN "dead" ELSE "running"]
        /\ UNCHANGED <<layers, phase, config, schema, at, listening, taken, flag, probe, faults>>
    BY <1>15 DEF FlushTaskStarts
  <2>2. TypeOK' /\ ConfigInv'
    BY <1>3, <2>1 DEF TypeOK
  <2>3. phase \notin {"down", "loaded", "migrating", "migrated"}
    BY <2>1 DEF LifeInv, NoTasks
  <2>4. /\ task'.flush = "dead" => config.flush = 0
        /\ task'.cleanup = task.cleanup
    BY <2>1 DEF TypeOK
  <2>5. LifeInv'
    BY <2>1, <2>3, <2>4 DEF LifeInv, Migrated, RetentionHours
  <2> QED
    BY <2>2, <2>5
<1>16. CASE CleanupTicks
  <2>1. /\ task.cleanup = "spawned"
        /\ task' = [task EXCEPT !.cleanup =
                       IF RetentionHours > MaxCutoffHours THEN "dead" ELSE "running"]
        /\ UNCHANGED <<layers, phase, config, schema, at, listening, taken, flag, probe, faults>>
    BY <1>16 DEF CleanupTicks
  <2>2. TypeOK' /\ ConfigInv'
    BY <1>3, <2>1 DEF TypeOK
  <2>3. phase \notin {"down", "loaded", "migrating", "migrated"}
    BY <2>1 DEF LifeInv, NoTasks
  <2>4. /\ task'.cleanup = "dead" => RetentionHours > MaxCutoffHours
        /\ task'.flush = task.flush
    BY <2>1 DEF TypeOK
  <2>5. LifeInv'
    BY <2>1, <2>3, <2>4 DEF LifeInv, Migrated, RetentionHours
  <2> QED
    BY <2>2, <2>5
<1>17. CASE ProbeDatabase \/ ProbeAnswers \/ ProbeDone
  <2>1. /\ probe' \in {Idle, "reached", "failed", "200", "503"}
        /\ probe' # Idle => probe # Idle \/ phase \in {"serving", "stopping", "closing"}
        /\ UNCHANGED <<layers, phase, config, schema, at, task, listening, taken, flag, faults>>
    BY <1>17 DEF ProbeDatabase, ProbeAnswers, ProbeDone, Idle
  <2>2. TypeOK' /\ ConfigInv'
    BY <1>3, <2>1 DEF TypeOK
  <2>3. LifeInv'
    BY <2>1 DEF LifeInv, Migrated, RetentionHours
  <2> QED
    BY <2>2, <2>3
<1>18. ASSUME NEW address \in Addresses, Take(address) \/ Release(address)
       PROVE  StartupInv'
  <2>1. /\ taken' \subseteq Addresses /\ listening \subseteq Addresses \ taken'
        /\ faults' \in 0 .. MaxFaults
        /\ UNCHANGED <<layers, phase, config, schema, at, task, listening, flag, probe>>
    BY <1>1, <1>18, NumbersAssumption DEF Take, Release, TypeOK
  <2>2. TypeOK' /\ ConfigInv'
    BY <1>3, <2>1 DEF TypeOK
  <2>3. LifeInv'
    BY <2>1 DEF LifeInv, Migrated, RetentionHours
  <2> QED
    BY <2>2, <2>3
<1>19. CASE UNCHANGED vars
  BY <1>3, <1>19 DEF vars, TypeOK, LifeInv, Migrated, RetentionHours
<1> QED
  BY <1>4, <1>5, <1>6, <1>7, <1>8, <1>9, <1>10, <1>11, <1>12, <1>13, <1>14, <1>15, <1>16, <1>17,
     <1>18, <1>19 DEF Next, Main

\* The invariant holds through every start, failed step, signal and restart.
LEMMA StartupInvariant == Spec => []StartupInv
<1>1. Init => StartupInv
  <2> SUFFICES ASSUME Init PROVE StartupInv
    OBVIOUS
  <2>1. 0 \in 0 .. Word - 1 /\ 1 \in 1 .. Statements + 1 /\ 0 \in 0 .. MaxFaults
    BY NumbersAssumption
  <2>2. NoConfig \in ConfigTypes
    BY <2>1, DefaultsAssumption DEF NoConfig, ConfigTypes
  <2>3. TypeOK
    BY <2>1, <2>2 DEF Init, TypeOK, ConfigTypes, NoTasks, Idle
  <2> QED
    BY <2>3 DEF Init, StartupInv, ConfigInv, LifeInv, Migrated, NoTasks
<1> QED
  BY <1>1, StartupStep, PTL DEF Spec

\* The settings, the schema, the listeners and the tasks keep their types: no
\* retention leaves 64 bits and no address is bound that is no address.
THEOREM TypeCorrect == Spec => []TypeOK
BY StartupInvariant, PTL DEF StartupInv

\* Whatever the layers set and whatever happened before, the process runs with
\* the settings that were asked for.
THEOREM ConfiguredAsAsked == Spec => []RunsAsConfigured
<1>1. StartupInv => RunsAsConfigured
  BY ConfigIsAsked DEF StartupInv, TypeOK, ConfigInv, RunsAsConfigured
<1> QED
  BY <1>1, StartupInvariant, PTL

\* Wherever crashes, failures and shutdowns fall, a probe that answers "ready"
\* answers for a whole schema, a listener and tasks that are not dead, but for
\* the two settings that kill them.
THEOREM ReadyIsWorking == Spec => ReadyMeansWorking
<1>1. ASSUME StartupInv, [Next]_vars, probe # "200", probe' = "200"
      PROVE  /\ schema = 1 .. Statements
             /\ config.grpc \in listening \/ phase \in {"stopping", "closing"}
             /\ task.flush = "dead" => config.flush = 0
             /\ task.cleanup = "dead" => config.retention >= HourSecs * MaxCutoffHours
  <2>1. ProbeAnswers
    BY <1>1 DEF Next, Main, vars, Load, OpenPool, Migrate, Spawn, BindGrpc, SignalReady,
                BindHttp, ClosePool, Exit, Stop, Die, FlushTaskStarts, CleanupTicks,
                ProbeDatabase, ProbeDone, Take, Release, Reaches, Bind, Gone, Idle
  <2>2. phase \in {"serving", "stopping", "closing"}
    BY <1>1, <2>1 DEF ProbeAnswers, StartupInv, LifeInv, Idle
  <2>3. schema = 1 .. Statements
    BY <1>1, <2>2 DEF StartupInv, LifeInv, TypeOK, Migrated
  <2>4. task.cleanup = "dead" => config.retention >= HourSecs * MaxCutoffHours
    <3>1. config.retention \in Nat
      BY <1>1, NumbersAssumption DEF StartupInv, TypeOK
    <3> QED
      BY <1>1, <3>1, NumbersAssumption, LargeQuotient DEF StartupInv, LifeInv, RetentionHours
  <2> QED
    BY <1>1, <2>2, <2>3, <2>4 DEF StartupInv, LifeInv
<1>2. StartupInv /\ [Next]_vars =>
          [probe # "200" /\ probe' = "200" =>
             /\ schema = 1 .. Statements
             /\ config.grpc \in listening \/ phase \in {"stopping", "closing"}
             /\ task.flush = "dead" => config.flush = 0
             /\ task.cleanup = "dead" => config.retention >= HourSecs * MaxCutoffHours]_vars
  BY <1>1
<1> QED
  BY <1>2, StartupInvariant, PTL DEF Spec, ReadyMeansWorking
=============================================================================
