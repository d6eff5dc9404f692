---------------------------- MODULE Registry_proofs ----------------------------
(***************************************************************************)
(* Proofs about Registry, for any versions, releases, aliases, processes   *)
(* and bounds: the types, that everything named is in place, that pointer  *)
(* files agree with the aliases, that the bound aliases move together and  *)
(* that a rebuild restores what it found.                                  *)
(***************************************************************************)
EXTENDS Registry, TLAPS

USE RegistryAssumption

(* What a process can count on at the step it is at.  All of it lasts, as  *)
(* long as the database is not lost under it.                              *)
Ready(p) ==
    /\ proc[p].at = "freeze" =>
          proc[p].kind \in {"release", "import"} /\ proc[p].version \in Version /\ proc[p].release \in Release
    /\ proc[p].at \in {"build", "stamp", "place", "register"} =>
          /\ proc[p].kind \in {"export", "release", "import"} /\ proc[p].version \in Version
          /\ proc[p].kind # "export" => proc[p].release \in Release /\ place[proc[p].release] # {}
    /\ proc[p].at = "register" => proc[p].version \in built
    /\ proc[p].at = "record" =>
          /\ proc[p].kind \in {"import", "release", "select"}
          /\ proc[p].release \in Release /\ place[proc[p].release] # {}
          /\ proc[p].kind # "select" => proc[p].version \in Version /\ proc[p].version \in built
    /\ proc[p].at \in {"pointer", "commit"} => proc[p].version \in Version
    /\ proc[p].at = "commit" => row[proc[p].version] # "none"
    /\ proc[p].at = "snapshot" => proc[p].version \in Version /\ proc[p].release \in Release
    /\ proc[p].at \in {"choose", "archive", "select"} => proc[p].release \in Release
    /\ \A r \in proc[p].moved : place[r] # {}
    /\ proc[p].at = "manifests" => /\ proc[p].todo \subseteq proc[p].found
                                   /\ \A f \in proc[p].found : f[2] = "final" => f[1] \in built
    /\ \A a \in proc[p].aliases : pointer[a] # None

AllReady == \A p \in Proc : Ready(p)

(* Nothing that was in place, registered or pointed at goes away.          *)
Grows ==
    /\ \A r \in Release : place[r] # {} => place'[r] # {}
    /\ built \subseteq built'
    /\ \A v \in Version : row[v] # "none" => row'[v] # "none"
    /\ \A a \in Alias : pointer[a] # None => pointer'[a] # None

From == {"fresh", "stamped", "final"}

LEMMA KeepReady ==
    ASSUME TypeOK, AllReady, Grows, NEW p \in Proc,
           proc' = [proc EXCEPT ![p] = proc'[p]], proc'[p] \in ProcState, Ready(p)'
    PROVE  AllReady' /\ proc' \in [Proc -> ProcState]
<1>1. proc \in [Proc -> ProcState]
    BY DEF TypeOK
<1>2. ASSUME NEW q \in Proc, q # p PROVE Ready(q)'
    <2>1. proc'[q] = proc[q] /\ proc[q] \in ProcState
        BY <1>1, <1>2
    <2>2. Ready(q)
        BY DEF AllReady
    <2>3. /\ proc[q].aliases \subseteq Alias /\ proc[q].moved \subseteq Release
        BY <2>1 DEF ProcState
    <2> QED BY <2>1, <2>2, <2>3 DEF Ready, Grows
<1> QED BY <1>1, <1>2 DEF AllReady

LEMMA IdleState ==
    /\ Idle \in ProcState /\ Idle.at = "idle"
    /\ Idle.moved = {} /\ Idle.aliases = {}
<1>1. 0 \in 0 .. 2 /\ Ref \in Alias
    OBVIOUS
<1> QED BY <1>1 DEF Idle, ProcState, At, Kind

(* The process returns, or dies.                                           *)
LEMMA KeepDone ==
    ASSUME TypeOK, AllReady, Grows, NEW p \in Proc, Done(p)
    PROVE  AllReady' /\ proc' \in [Proc -> ProcState]
<1>1. /\ Idle \in ProcState /\ Idle.at = "idle"
      /\ Idle.moved = {} /\ Idle.aliases = {}
    BY IdleState
<1>2. proc' = [proc EXCEPT ![p] = proc'[p]] /\ proc'[p] = Idle
    BY DEF Done, Begin, TypeOK
<1>3. Ready(p)'
    BY <1>1, <1>2 DEF Ready
<1> QED BY <1>1, <1>2, <1>3, KeepReady

(* It goes on with what it has.                                            *)
LEMMA GotoState ==
    ASSUME TypeOK, NEW p \in Proc, NEW a \in At, Goto(p, a)
    PROVE  /\ proc' = [proc EXCEPT ![p] = proc'[p]] /\ proc'[p] \in ProcState
           /\ proc'[p].at = a /\ proc'[p].kind = proc[p].kind
           /\ proc'[p].version = proc[p].version /\ proc'[p].release = proc[p].release
           /\ proc'[p].alias = proc[p].alias /\ proc'[p].moved = proc[p].moved
           /\ proc'[p].found = proc[p].found /\ proc'[p].todo = proc[p].todo
           /\ proc'[p].aliases = proc[p].aliases /\ proc'[p].pass = proc[p].pass
<1>1. proc \in [Proc -> ProcState]
    BY DEF TypeOK
<1>2. proc'[p] = [proc[p] EXCEPT !.at = a] /\ proc' = [proc EXCEPT ![p] = proc'[p]]
    BY <1>1 DEF Goto
<1>3. proc[p] \in ProcState
    BY <1>1
<1> QED BY <1>2, <1>3 DEF ProcState

(* register_dataset                                                        *)
LEMMA RegisterRow ==
    ASSUME TypeOK, NEW v \in Version, NEW from \in From, RegisterVersion(v, from)
    PROVE  /\ row' \in [Version -> Status] /\ lineage' \subseteq Version \X Version
           /\ source' \in [Version -> {"none", "fresh", "stamped", "final"}] /\ source'[v] = from
           /\ row'[v] # "none"
           /\ \A u \in Version : u # v => row'[u] = row[u] /\ source'[u] = source[u]
<1>1. row \in [Version -> Status] /\ lineage \subseteq Version \X Version
      /\ source \in [Version -> {"none", "fresh", "stamped", "final"}]
    BY DEF TypeOK
<1>2. /\ row' = [row EXCEPT ![v] = IF from = "fresh" THEN "VALIDATED" ELSE Manifest(v)]
      /\ source' = [source EXCEPT ![v] = from]
    BY DEF RegisterVersion
<1>3. (IF from = "fresh" THEN "VALIDATED" ELSE Manifest(v)) \in Status \ {"none"}
    BY DEF Manifest, Status
<1>4. /\ row' \in [Version -> Status] /\ row'[v] # "none"
      /\ \A u \in Version : u # v => row'[u] = row[u]
    BY <1>1, <1>2, <1>3
<1>5. /\ source' \in [Version -> {"none", "fresh", "stamped", "final"}] /\ source'[v] = from
      /\ \A u \in Version : u # v => source'[u] = source[u]
    BY <1>1, <1>2 DEF From
<1>6. lineage' \subseteq Version \X Version
    <2>1. Parents[v] \subseteq Version
        BY DEF RegistryAssumption
    <2> QED BY <1>1, <2>1 DEF RegisterVersion
<1> QED BY <1>4, <1>5, <1>6

(* What a rebuild can find: candidates say "final" of nothing, and the     *)
(* directories in place are there.                                         *)
LEMMA HoldsFound ==
    ASSUME TypeOK, AllReady, NEW q \in Proc
    PROVE  Holds(q) \subseteq Version \X {"fresh", "stamped"}
<1>1. proc[q] \in ProcState /\ Ready(q) /\ built \subseteq Version
    BY DEF TypeOK, AllReady
<1>2. CASE proc[q].at = "build" /\ proc[q].kind = "export"
    <2>1. Holds(q) = (Parents[proc[q].version] \cap built) \X {"stamped"}
        BY <1>2 DEF Holds
    <2> QED BY <1>1, <2>1
<1>3. CASE proc[q].at = "stamp"
    <2>1. Holds(q) = {<<proc[q].version, "fresh">>} /\ proc[q].version \in Version
        BY <1>1, <1>3 DEF Holds, Ready
    <2> QED BY <2>1
<1>4. CASE proc[q].at = "place"
    <2>1. Holds(q) = {<<proc[q].version, "stamped">>} /\ proc[q].version \in Version
        BY <1>1, <1>4 DEF Holds, Ready
    <2> QED BY <2>1
<1>5. CASE /\ ~(proc[q].at = "build" /\ proc[q].kind = "export")
           /\ proc[q].at # "stamp" /\ proc[q].at # "place"
    BY <1>5 DEF Holds
<1> QED BY <1>2, <1>3, <1>4, <1>5

LEMMA ListedFound ==
    ASSUME TypeOK, AllReady, NEW some \in Listed
    PROVE  some \in SUBSET Found /\ \A f \in some : f[2] = "final" => f[1] \in built
<1>1. PICK held \in SUBSET UNION {Holds(q) : q \in Proc} :
          some = (built \X {"final"}) \cup left \cup held
    BY DEF Listed
<1>2. held \subseteq Version \X {"fresh", "stamped"}
    BY HoldsFound
<1>3. built \subseteq Version /\ left \subseteq Version \X {"fresh", "stamped"}
    BY DEF TypeOK
<1>4. ASSUME NEW f \in some PROVE f \in Found /\ (f[2] = "final" => f[1] \in built)
    BY <1>1, <1>2, <1>3, <1>4 DEF Found
<1> QED BY <1>4

LEMMA InitReady == Init => TypeOK /\ AllReady
<1> SUFFICES ASSUME Init PROVE TypeOK /\ AllReady
    OBVIOUS
<1>1. /\ Idle \in ProcState /\ Idle.at = "idle"
      /\ Idle.moved = {} /\ Idle.aliases = {}
    BY IdleState
<1>2. proc \in [Proc -> ProcState] /\ \A p \in Proc : proc[p] = Idle
    BY <1>1 DEF Init
<1>3. AllReady
    BY <1>1, <1>2 DEF AllReady, Ready
<1>4. 0 \in 0 .. MaxStarts /\ 0 \in 0 .. MaxLosses
    BY DEF RegistryAssumption
<1>5. /\ place \in [Release -> SUBSET Where] /\ built \subseteq Version
      /\ left \subseteq Version \X {"fresh", "stamped"}
      /\ source \in [Version -> {"none", "fresh", "stamped", "final"}]
      /\ row \in [Version -> Status] /\ lineage \subseteq Version \X Version
      /\ recorded \in [Release -> Where \cup {"none"}]
    BY DEF Init, Where, Status
<1>6. /\ alias \in [Alias -> Version \cup {None}] /\ chosen \in Release \cup {None}
      /\ pointer \in [Alias -> Version \cup {None}]
      /\ drifted \subseteq Alias /\ phantom \subseteq Version /\ split \in BOOLEAN
    BY DEF Init
<1>7. starts \in 0 .. MaxStarts /\ losses \in 0 .. MaxLosses
    BY <1>4 DEF Init
<1> QED BY <1>2, <1>3, <1>5, <1>6, <1>7 DEF TypeOK

LEMMA StepReady == TypeOK /\ AllReady /\ [Next]_vars => TypeOK' /\ AllReady'
<1> DEFINE Good == TypeOK' /\ AllReady'
<1> SUFFICES ASSUME TypeOK, AllReady, [Next]_vars PROVE Good
    OBVIOUS
<1>t. proc \in [Proc -> ProcState]
    BY DEF TypeOK
<1>s. ASSUME NEW p \in Proc PROVE proc[p] \in ProcState /\ Ready(p)
    BY <1>t DEF AllReady
<1>1. CASE UNCHANGED vars
    <2>1. /\ UNCHANGED <<place, built, left, pointer, row, source, lineage, recorded, alias, chosen>>
          /\ UNCHANGED <<proc, starts, losses, drifted, phantom, split>>
        BY <1>1 DEF vars, disk, tables, history
    <2> QED BY <2>1 DEF TypeOK, AllReady, Ready
<1>2. ASSUME NEW p \in Proc, Start(p) PROVE Good
    <2>1. PICK request \in Request : proc' = [proc EXCEPT ![p] = request]
        BY <1>2 DEF Start, Begin
    <2>2. proc' = [proc EXCEPT ![p] = proc'[p]] /\ proc'[p] = request
        BY <1>t, <2>1
    <2>g. Grows /\ UNCHANGED <<place, built, left, pointer, row, source, lineage, recorded, alias, chosen>>
        BY <1>2 DEF Start, disk, tables, Grows
    <2>3. Idle \in ProcState /\ Idle.aliases = {} /\ Idle.moved = {}
        BY IdleState
    <2>4. request \in ProcState /\ Ready(p)'
        <3>1. CASE request \in {[Idle EXCEPT !.at = "build", !.kind = "export", !.version = v] :
                                    v \in Version \ Imported}
            <4>1. PICK v \in Version : request = [Idle EXCEPT !.at = "build", !.kind = "export", !.version = v]
                BY <3>1
            <4>2. /\ request.aliases = {} /\ request.moved = {}
                  /\ request \in ProcState /\ request.at = "build" /\ request.kind = "export"
                  /\ request.version \in Version
                BY <2>3, <4>1 DEF ProcState, At, Kind
            <4> QED BY <2>2, <4>2 DEF Ready
        <3>2. CASE request \in {[Idle EXCEPT !.at = "freeze", !.kind = IF v \in Imported THEN "import" ELSE "release",
                                             !.version = v, !.release = BoundTo[v]] :
                                    v \in {u \in Version : BoundTo[u] # None}}
            <4>1. PICK v \in Version : /\ BoundTo[v] # None
                     /\ request = [Idle EXCEPT !.at = "freeze", !.kind = IF v \in Imported THEN "import" ELSE "release",
                                               !.version = v, !.release = BoundTo[v]]
                BY <3>2
            <4>2. BoundTo[v] \in Release
                BY <4>1
            <4>3. /\ request.aliases = {} /\ request.moved = {}
                  /\ request \in ProcState /\ request.at = "freeze" /\ request.kind \in {"release", "import"}
                  /\ request.version \in Version /\ request.release \in Release
                BY <2>3, <4>1, <4>2 DEF ProcState, At, Kind
            <4> QED BY <2>2, <4>3 DEF Ready
        <3>3. CASE request \in {[Idle EXCEPT !.at = "choose", !.kind = "recover", !.release = r] :
                                    r \in {s \in Release : place[s] # {} /\ (Standalone \/ s = chosen)}}
            <4>1. PICK r \in Release : request = [Idle EXCEPT !.at = "choose", !.kind = "recover", !.release = r]
                BY <3>3
            <4>2. /\ request.aliases = {} /\ request.moved = {}
                  /\ request \in ProcState /\ request.at = "choose" /\ request.release \in Release
                BY <2>3, <4>1 DEF ProcState, At, Kind
            <4> QED BY <2>2, <4>2 DEF Ready
        <3>4. CASE request \in {[Idle EXCEPT !.at = "pointer", !.kind = "promote", !.version = x[1], !.alias = x[2]] :
                                    x \in {u \in Version : row[u] # "none"} \X Alias}
            <4>1. PICK x \in {u \in Version : row[u] # "none"} \X Alias :
                     request = [Idle EXCEPT !.at = "pointer", !.kind = "promote", !.version = x[1], !.alias = x[2]]
                BY <3>4
            <4>2. /\ request.aliases = {} /\ request.moved = {}
                  /\ request \in ProcState /\ request.at = "pointer" /\ request.version \in Version
                BY <2>3, <4>1 DEF ProcState, At, Kind
            <4> QED BY <2>2, <4>2 DEF Ready
        <3>5. CASE request \in {[Idle EXCEPT !.at = "record", !.kind = "select", !.release = r] :
                                    r \in {s \in Release : place[s] # {}}}
            <4>1. PICK r \in Release : /\ place[r] # {}
                     /\ request = [Idle EXCEPT !.at = "record", !.kind = "select", !.release = r]
                BY <3>5
            <4>2. /\ request.aliases = {} /\ request.moved = {}
                  /\ request \in ProcState /\ request.at = "record" /\ request.kind = "select"
                  /\ request.release = r
                BY <2>3, <4>1 DEF ProcState, At, Kind
            <4> QED BY <2>2, <2>g, <4>1, <4>2 DEF Ready
        <3>6. CASE request \in {[Idle EXCEPT !.at = "manifests", !.kind = "rebuild", !.found = some,
                                            !.todo = some, !.pass = 1] : some \in Listed}
            <4>0. PICK some \in Listed : request = [Idle EXCEPT !.at = "manifests", !.kind = "rebuild",
                                            !.found = some, !.todo = some, !.pass = 1]
                BY <3>6
            <4>1. /\ some \in SUBSET Found /\ 1 \in 0 .. 2
                  /\ \A f \in some : f[2] = "final" => f[1] \in built
                BY ListedFound
            <4>2. /\ request.aliases = {} /\ request.moved = {}
                  /\ request \in ProcState /\ request.at = "manifests"
                  /\ request.found = some /\ request.todo = some
                BY <2>3, <4>0, <4>1 DEF ProcState, At, Kind
            <4> QED BY <2>2, <2>g, <4>1, <4>2 DEF Ready
        <3>7. request \in Request
            BY <2>1
        <3> QED BY <3>1, <3>2, <3>3, <3>4, <3>5, <3>6, <3>7 DEF Request
    <2>5. AllReady' /\ proc' \in [Proc -> ProcState]
        BY <2>2, <2>4, <2>g, KeepReady
    <2> QED BY <1>2, <2>5, <2>g DEF Start, TypeOK, history
<1>3. ASSUME NEW p \in Proc, Freeze(p) PROVE Good
    <2>1. /\ proc[p].kind \in {"release", "import"} /\ proc[p].version \in Version
          /\ proc[p].release \in Release
        BY <1>3, <1>s DEF Freeze, Ready
    <2>2. Goto(p, "build") /\ "build" \in At
        BY <1>3 DEF Freeze, At
    <2>3. place' \in [Release -> SUBSET Where] /\ place'[proc[p].release] # {} /\ Grows
        BY <1>3, <2>1 DEF Freeze, tables, TypeOK, Where, Grows
    <2>4. Ready(p)'
        BY <1>s, <2>1, <2>2, <2>3, GotoState DEF Ready, Grows, ProcState
    <2>5. AllReady' /\ proc' \in [Proc -> ProcState]
        BY <2>2, <2>3, <2>4, GotoState, KeepReady
    <2> QED BY <1>3, <2>3, <2>5 DEF Freeze, TypeOK, tables, history
<1>4. ASSUME NEW p \in Proc, Build(p) \/ Stamp(p) PROVE Good
    <2>1. /\ proc[p].kind \in {"export", "release", "import"} /\ proc[p].version \in Version
          /\ proc[p].kind # "export" => proc[p].release \in Release /\ place[proc[p].release] # {}
        BY <1>4, <1>s DEF Build, Stamp, Ready
    <2>2. PICK a \in {"stamp", "place"} : Goto(p, a) /\ a \in At
        BY <1>4 DEF Build, Stamp, At
    <2>3. /\ Grows /\ UNCHANGED <<place, built, pointer>>
        BY <1>4 DEF Build, Stamp, disk, tables, Grows
    <2>4. Ready(p)'
        BY <1>s, <2>1, <2>2, <2>3, GotoState DEF Ready, Grows, ProcState
    <2>5. AllReady' /\ proc' \in [Proc -> ProcState]
        BY <2>2, <2>3, <2>4, GotoState, KeepReady
    <2> QED BY <1>4, <2>5 DEF Build, Stamp, TypeOK, disk, tables, history
<1>19. ASSUME NEW p \in Proc, Place(p) PROVE Good
    <2>1. /\ proc[p].kind \in {"export", "release", "import"} /\ proc[p].version \in Version
          /\ proc[p].kind # "export" => proc[p].release \in Release /\ place[proc[p].release] # {}
        BY <1>19, <1>s DEF Place, Ready
    <2>2. PICK a \in {"record", "register"} : Goto(p, a) /\ a \in At /\ (a = "record" => proc[p].kind = "import")
        BY <1>19 DEF Place, At
    <2>3. /\ built' \subseteq Version /\ proc[p].version \in built' /\ Grows
          /\ UNCHANGED <<place, pointer>>
        BY <1>19, <2>1 DEF Place, tables, TypeOK, Grows
    <2>4. Ready(p)'
        BY <1>s, <2>1, <2>2, <2>3, GotoState DEF Ready, Grows, ProcState
    <2>5. AllReady' /\ proc' \in [Proc -> ProcState]
        BY <2>2, <2>3, <2>4, GotoState, KeepReady
    <2> QED BY <1>19, <2>3, <2>5 DEF Place, TypeOK, tables, history
<1>5. ASSUME NEW p \in Proc, Register(p) PROVE Good
    <2>1. /\ proc[p].kind \in {"export", "release", "import"} /\ proc[p].version \in Version
          /\ proc[p].kind # "export" => proc[p].release \in Release /\ place[proc[p].release] # {}
          /\ proc[p].version \in built
        BY <1>5, <1>s DEF Register, Ready
    <2>2. PICK a \in {"pointer", "record", "snapshot"} :
             Goto(p, a) /\ a \in At /\ (a # "pointer" => proc[p].kind # "export")
                        /\ (a = "pointer" => proc[p].kind = "export")
        BY <1>5, <2>1 DEF Register, At
    <2>3. /\ row' \in [Version -> Status] /\ lineage' \subseteq Version \X Version
          /\ source' \in [Version -> {"none", "fresh", "stamped", "final"}]
          /\ Grows /\ UNCHANGED <<place, built, pointer>>
        <3>1. RegisterVersion(proc[p].version, "final") /\ "final" \in From
            BY <1>5 DEF Register, From
        <3>2. /\ row' \in [Version -> Status] /\ lineage' \subseteq Version \X Version
              /\ source' \in [Version -> {"none", "fresh", "stamped", "final"}]
              /\ row'[proc[p].version] # "none"
              /\ \A u \in Version : u # proc[p].version => row'[u] = row[u]
            BY <2>1, <3>1, RegisterRow
        <3> QED BY <1>5, <3>2 DEF Register, disk, Grows
    <2>a. proc[p].at = "register"
        BY <1>5 DEF Register
    <2>b. /\ proc[p] \in ProcState /\ \A r \in proc[p].moved : place[r] # {}
          /\ \A x \in proc[p].aliases : pointer[x] # None
        BY <1>s DEF Ready
    <2>4. Ready(p)'
        BY <2>1, <2>2, <2>3, <2>b, GotoState DEF Ready, Grows, ProcState
    <2>5. AllReady' /\ proc' \in [Proc -> ProcState]
        BY <2>2, <2>3, <2>4, GotoState, KeepReady
    <2> QED BY <1>5, <2>3, <2>5 DEF Register, TypeOK, disk, history
<1>6. ASSUME NEW p \in Proc, Record(p) PROVE Good
    <2>1. /\ proc[p].kind \in {"import", "release", "select"}
          /\ proc[p].release \in Release /\ place[proc[p].release] # {}
          /\ proc[p].kind # "select" => proc[p].version \in Version /\ proc[p].version \in built
        BY <1>6, <1>s DEF Record, Ready
    <2>2. PICK a \in {"register", "snapshot", "select"} :
             Goto(p, a) /\ a \in At /\ (a # "select" => proc[p].kind # "select")
        BY <1>6, <2>1 DEF Record, At
    <2>3. /\ recorded' \in [Release -> Where \cup {"none"}]
          /\ Grows /\ UNCHANGED <<place, built, pointer, row>>
        <3>1. recorded' \in [Release -> Where \cup {"none"}]
            BY <1>6, <2>1 DEF Record, TypeOK, Where, Reads
        <3> QED BY <1>6, <3>1 DEF Record, disk, Grows
    <2>b. /\ \A r \in proc[p].moved : place[r] # {}
          /\ \A x \in proc[p].aliases : pointer[x] # None
        BY <1>s DEF Ready
    <2>4. Ready(p)'
        BY <2>1, <2>2, <2>3, <2>b, GotoState DEF Ready
    <2>5. AllReady' /\ proc' \in [Proc -> ProcState]
        BY <2>2, <2>3, <2>4, GotoState, KeepReady
    <2> QED BY <1>6, <2>3, <2>5 DEF Record, TypeOK, disk, history
<1>7. ASSUME NEW p \in Proc, WritePointer(p) PROVE Good
    <2>1. /\ proc[p].version \in Version /\ row[proc[p].version] # "none" /\ proc[p].alias \in Alias
        BY <1>7, <1>s DEF WritePointer, Ready, ProcState
    <2>2. Goto(p, "commit") /\ "commit" \in At
        BY <1>7 DEF WritePointer, At
    <2>3. /\ pointer' \in [Alias -> Version \cup {None}]
          /\ Grows /\ UNCHANGED <<place, built, row>>
        BY <1>7, <2>1 DEF WritePointer, tables, TypeOK, Grows
    <2>b. /\ \A r \in proc[p].moved : place[r] # {}
          /\ \A x \in proc[p].aliases : x \in Alias /\ pointer[x] # None
        BY <1>s DEF Ready, ProcState
    <2>4. Ready(p)'
        BY <2>1, <2>2, <2>3, <2>b, GotoState DEF Ready, Grows
    <2>5. AllReady' /\ proc' \in [Proc -> ProcState]
        BY <2>2, <2>3, <2>4, GotoState, KeepReady
    <2> QED BY <1>7, <2>3, <2>5 DEF WritePointer, TypeOK, tables, history
<1>8. ASSUME NEW p \in Proc, Commit(p) PROVE Good
    <2>1. proc[p].version \in Version /\ proc[p].alias \in Alias
        BY <1>8, <1>s DEF Commit, Ready, ProcState
    <2>3. /\ row' \in [Version -> Status] /\ alias' \in [Alias -> Version \cup {None}]
          /\ Grows /\ UNCHANGED <<place, built, pointer>>
        BY <1>8, <2>1 DEF Commit, disk, TypeOK, Grows, Status
    <2>5. AllReady' /\ proc' \in [Proc -> ProcState]
        <3>1. CASE Goto(p, "pointers")
            <4>1. "pointers" \in At
                BY DEF At
            <4>2. /\ \A r \in proc[p].moved : place[r] # {}
                  /\ \A x \in proc[p].aliases : pointer[x] # None
                BY <1>s DEF Ready
            <4>3. Ready(p)'
                BY <2>3, <3>1, <4>1, <4>2, GotoState DEF Ready
            <4> QED BY <2>3, <3>1, <4>1, <4>3, GotoState, KeepReady
        <3>2. CASE Done(p)
            BY <2>3, <3>2, KeepDone
        <3> QED BY <1>8, <3>1, <3>2 DEF Commit
    <2>6. drifted' \subseteq Alias /\ split' \in BOOLEAN
        BY <1>8 DEF Commit, TypeOK
    <2> QED BY <1>8, <2>3, <2>5, <2>6 DEF Commit, TypeOK, disk
<1>9. ASSUME NEW p \in Proc, Snapshot(p) PROVE Good
    <2>1. proc[p].version \in Version /\ proc[p].release \in Release
        BY <1>9, <1>s DEF Snapshot, Ready
    <2>3. /\ row' \in [Version -> Status] /\ alias' \in [Alias -> Version \cup {None}]
          /\ Grows /\ UNCHANGED <<place, built, pointer>>
        BY <1>9, <2>1 DEF Snapshot, disk, TypeOK, Grows, Status
    <2>5. AllReady' /\ proc' \in [Proc -> ProcState]
        <3>1. CASE Goto(p, "archive")
            <4>1. "archive" \in At
                BY DEF At
            <4>2. /\ \A r \in proc[p].moved : place[r] # {}
                  /\ \A x \in proc[p].aliases : pointer[x] # None
                BY <1>s DEF Ready
            <4>3. Ready(p)'
                BY <2>1, <2>3, <3>1, <4>1, <4>2, GotoState DEF Ready
            <4> QED BY <2>3, <3>1, <4>1, <4>3, GotoState, KeepReady
        <3>2. CASE Done(p)
            BY <2>3, <3>2, KeepDone
        <3> QED BY <1>9, <3>1, <3>2 DEF Snapshot
    <2>6. drifted' \subseteq Alias /\ split' \in BOOLEAN /\ chosen' \in Release \cup {None}
        BY <1>9, <2>1 DEF Snapshot, TypeOK
    <2> QED BY <1>9, <2>3, <2>5, <2>6 DEF Snapshot, TypeOK, disk
<1>10. ASSUME NEW p \in Proc, Select(p) PROVE Good
    <2>1. proc[p].release \in Release
        BY <1>10, <1>s DEF Select, Ready
    <2>2. Done(p) /\ Grows
        BY <1>10 DEF Select, disk, Grows
    <2>3. AllReady' /\ proc' \in [Proc -> ProcState]
        BY <2>2, KeepDone
    <2> QED BY <1>10, <2>1, <2>3 DEF Select, TypeOK, disk
<1>11. ASSUME NEW p \in Proc, Choose(p) PROVE Good
    <2>1. /\ UNCHANGED <<place, built, left, row, source, lineage, recorded, alias, chosen, pointer>>
          /\ UNCHANGED <<starts, losses, drifted, phantom, split>> /\ Grows
        BY <1>11 DEF Choose, disk, tables, history, Grows
    <2>2. AllReady' /\ proc' \in [Proc -> ProcState]
        <3>1. CASE \E v \in Candidate(proc[p].release) :
                       Begin(p, [proc[p] EXCEPT !.at = "snapshot", !.version = v])
            <4>1. PICK v \in Candidate(proc[p].release) :
                      proc' = [proc EXCEPT ![p] = [proc[p] EXCEPT !.at = "snapshot", !.version = v]]
                BY <3>1 DEF Begin
            <4>2. v \in Version /\ proc[p].release \in Release
                BY <1>11, <1>s DEF Candidate, TypeOK, Choose, Ready
            <4>3. /\ proc' = [proc EXCEPT ![p] = proc'[p]]
                  /\ proc'[p] = [proc[p] EXCEPT !.at = "snapshot", !.version = v]
                BY <1>t, <4>1
            <4>4. proc[p] \in ProcState
                BY <1>s
            <4>5. /\ proc'[p] \in ProcState /\ proc'[p].at = "snapshot" /\ proc'[p].version = v
                  /\ proc'[p].release = proc[p].release /\ proc'[p].moved = proc[p].moved
                  /\ proc'[p].aliases = proc[p].aliases
                BY <4>2, <4>3, <4>4 DEF ProcState, At
            <4>6. /\ \A r \in proc[p].moved : place[r] # {}
                  /\ \A x \in proc[p].aliases : pointer[x] # None
                BY <1>s DEF Ready
            <4>7. Ready(p)'
                BY <2>1, <4>2, <4>5, <4>6 DEF Ready
            <4> QED BY <2>1, <4>3, <4>5, <4>7, KeepReady
        <3>2. CASE Done(p)
            BY <2>1, <3>2, KeepDone
        <3> QED BY <1>11, <3>1, <3>2 DEF Choose
    <2> QED BY <2>1, <2>2 DEF TypeOK
<1>12. ASSUME NEW p \in Proc, Archive(p) PROVE Good
    <2>1. /\ UNCHANGED <<built, left, row, source, lineage, recorded, alias, chosen, pointer>>
          /\ UNCHANGED <<starts, losses, drifted, phantom, split>>
        BY <1>12 DEF Archive, tables, history
    <2>2. CASE \E r \in Others(p) :
                   /\ place' = [place EXCEPT ![r] = {"archive"}]
                   /\ Begin(p, [proc[p] EXCEPT !.moved = @ \cup {r}])
        <3>1. PICK r \in Others(p) :
                  /\ place' = [place EXCEPT ![r] = {"archive"}]
                  /\ proc' = [proc EXCEPT ![p] = [proc[p] EXCEPT !.moved = @ \cup {r}]]
            BY <2>2 DEF Begin
        <3>2. r \in Release
            BY DEF Others
        <3>3. place' \in [Release -> SUBSET Where] /\ place'[r] # {} /\ Grows
            BY <2>1, <3>1, <3>2 DEF TypeOK, Where, Grows
        <3>4. /\ proc' = [proc EXCEPT ![p] = proc'[p]]
              /\ proc'[p] = [proc[p] EXCEPT !.moved = @ \cup {r}]
            BY <1>t, <3>1
        <3>5. proc[p] \in ProcState
            BY <1>s
        <3>6. /\ proc'[p] \in ProcState /\ proc'[p].at = proc[p].at
              /\ proc'[p].release = proc[p].release /\ proc'[p].moved = proc[p].moved \cup {r}
              /\ proc'[p].aliases = proc[p].aliases
            BY <3>2, <3>4, <3>5 DEF ProcState
        <3>7. /\ proc[p].at = "archive" /\ proc[p].release \in Release
              /\ proc[p].moved \subseteq Release
              /\ \A s \in proc[p].moved : place[s] # {}
              /\ \A x \in proc[p].aliases : pointer[x] # None
            BY <1>12, <1>s DEF Ready, Archive, ProcState
        <3>8. Ready(p)'
            BY <2>1, <3>3, <3>6, <3>7 DEF Ready, Grows
        <3>9. AllReady' /\ proc' \in [Proc -> ProcState]
            BY <3>3, <3>4, <3>6, <3>8, KeepReady
        <3> QED BY <2>1, <3>3, <3>9 DEF TypeOK
    <2>3. CASE Goto(p, "moved") /\ UNCHANGED place
        <3>1. Grows /\ "moved" \in At
            BY <2>1, <2>3 DEF Grows, At
        <3>2. /\ \A s \in proc[p].moved : place[s] # {}
              /\ \A x \in proc[p].aliases : pointer[x] # None
            BY <1>s DEF Ready
        <3>3. Ready(p)'
            BY <2>1, <2>3, <3>1, <3>2, GotoState DEF Ready
        <3>4. AllReady' /\ proc' \in [Proc -> ProcState]
            BY <2>3, <3>1, <3>3, GotoState, KeepReady
        <3> QED BY <2>1, <2>3, <3>4 DEF TypeOK
    <2>4. CASE \E r \in Others(p) :
                   place' = [place EXCEPT ![r] = {"torn", "archive"}] /\ UNCHANGED proc
        <3>1. PICK r \in Release : place' = [place EXCEPT ![r] = {"torn", "archive"}]
            BY <2>4 DEF Others
        <3>2. place' \in [Release -> SUBSET Where] /\ Grows
            BY <2>1, <3>1 DEF TypeOK, Where, Grows
        <3>3. proc' = [proc EXCEPT ![p] = proc'[p]] /\ proc'[p] = proc[p]
            BY <1>t, <2>4
        <3>4. proc[p].moved \subseteq Release /\ Ready(p) /\ proc[p].at = "archive"
            BY <1>12, <1>s DEF ProcState, Archive
        <3>5. Ready(p)'
            BY <2>1, <3>2, <3>3, <3>4 DEF Ready, Grows
        <3>6. AllReady' /\ proc' \in [Proc -> ProcState]
            BY <1>s, <3>2, <3>3, <3>5, KeepReady
        <3> QED BY <2>1, <3>2, <3>6 DEF TypeOK
    <2> QED BY <1>12, <2>2, <2>3, <2>4 DEF Archive
<1>13. ASSUME NEW p \in Proc, RecordMoved(p) PROVE Good
    <2>1. /\ UNCHANGED <<place, built, left, row, source, lineage, alias, chosen, pointer>>
          /\ UNCHANGED <<starts, losses, drifted, phantom, split>> /\ Grows
        BY <1>13 DEF RecordMoved, disk, history, Grows
    <2>2. CASE \E r \in proc[p].moved :
                   /\ \E where \in Reads(r) : recorded' = [recorded EXCEPT ![r] = where]
                   /\ Begin(p, [proc[p] EXCEPT !.moved = @ \ {r}])
        <3>1. PICK r \in proc[p].moved :
                  /\ \E where \in Reads(r) : recorded' = [recorded EXCEPT ![r] = where]
                  /\ proc' = [proc EXCEPT ![p] = [proc[p] EXCEPT !.moved = @ \ {r}]]
            BY <2>2 DEF Begin
        <3>2. recorded' \in [Release -> Where \cup {"none"}]
            BY <3>1 DEF TypeOK, Reads, Where
        <3>4. /\ proc' = [proc EXCEPT ![p] = proc'[p]]
              /\ proc'[p] = [proc[p] EXCEPT !.moved = @ \ {r}]
            BY <1>t, <3>1
        <3>5. proc[p] \in ProcState
            BY <1>s
        <3>6. /\ proc'[p] \in ProcState /\ proc'[p].at = proc[p].at
              /\ proc'[p].moved = proc[p].moved \ {r} /\ proc'[p].aliases = proc[p].aliases
            BY <3>4, <3>5 DEF ProcState
        <3>7. /\ proc[p].at = "moved"
              /\ \A s \in proc[p].moved : place[s] # {}
              /\ \A x \in proc[p].aliases : pointer[x] # None
            BY <1>13, <1>s DEF Ready, RecordMoved
        <3>8. Ready(p)'
            BY <2>1, <3>6, <3>7 DEF Ready
        <3>9. AllReady' /\ proc' \in [Proc -> ProcState]
            BY <2>1, <3>4, <3>6, <3>8, KeepReady
        <3> QED BY <2>1, <3>2, <3>9 DEF TypeOK
    <2>3. CASE Done(p) /\ UNCHANGED recorded
        <3>1. AllReady' /\ proc' \in [Proc -> ProcState]
            BY <2>1, <2>3, KeepDone
        <3> QED BY <2>1, <2>3, <3>1 DEF TypeOK
    <2> QED BY <1>13, <2>2, <2>3 DEF RecordMoved
<1>14. ASSUME NEW p \in Proc, RebuildRow(p) PROVE Good
    <2>1. PICK f \in proc[p].todo :
              /\ RegisterVersion(f[1], f[2])
              /\ proc' = [proc EXCEPT ![p] = [proc[p] EXCEPT !.todo = @ \ {f}]]
              /\ phantom' = IF f[2] # "final" THEN phantom \cup {f[1]} ELSE phantom
        BY <1>14 DEF RebuildRow, Begin
    <2>2. /\ proc[p].at = "manifests" /\ proc[p].todo \subseteq proc[p].found
          /\ \A g \in proc[p].found : g[2] = "final" => g[1] \in built
          /\ \A r \in proc[p].moved : place[r] # {}
          /\ \A x \in proc[p].aliases : pointer[x] # None
        BY <1>14, <1>s DEF RebuildRow, Ready
    <2>f. f[1] \in Version /\ f[2] \in From
        <3>1. f \in Found
            BY <1>s DEF ProcState
        <3> QED BY <3>1 DEF Found, From
    <2>r. /\ row' \in [Version -> Status] /\ lineage' \subseteq Version \X Version
          /\ source' \in [Version -> {"none", "fresh", "stamped", "final"}]
          /\ row'[f[1]] # "none" /\ \A u \in Version : u # f[1] => row'[u] = row[u]
        BY <2>1, <2>f, RegisterRow
    <2>3. /\ Grows /\ UNCHANGED <<place, built, left, pointer>> /\ phantom' \subseteq Version
        BY <1>14, <2>1, <2>f, <2>r DEF RebuildRow, disk, Grows, TypeOK
    <2>4. /\ proc' = [proc EXCEPT ![p] = proc'[p]]
          /\ proc'[p] = [proc[p] EXCEPT !.todo = @ \ {f}]
        BY <1>t, <2>1
    <2>5. proc[p] \in ProcState
        BY <1>s
    <2>6. /\ proc'[p] \in ProcState /\ proc'[p].at = proc[p].at /\ proc'[p].found = proc[p].found
          /\ proc'[p].todo = proc[p].todo \ {f}
          /\ proc'[p].moved = proc[p].moved /\ proc'[p].aliases = proc[p].aliases
        BY <2>4, <2>5 DEF ProcState
    <2>7. Ready(p)'
        BY <2>2, <2>3, <2>6 DEF Ready
    <2>8. AllReady' /\ proc' \in [Proc -> ProcState]
        BY <2>3, <2>4, <2>6, <2>7, KeepReady
    <2> QED BY <1>14, <2>r, <2>3, <2>8 DEF RebuildRow, TypeOK
<1>15. ASSUME NEW p \in Proc, RebuildPass(p) PROVE Good
    <2>1. /\ UNCHANGED <<place, built, left, row, source, lineage, recorded, alias, chosen, pointer>>
          /\ UNCHANGED <<starts, losses, drifted, phantom, split>> /\ Grows
        BY <1>15 DEF RebuildPass, disk, tables, history, Grows
    <2>2. /\ proc[p] \in ProcState
          /\ proc[p].at = "manifests"
          /\ \A f \in proc[p].found : f[2] = "final" => f[1] \in built
          /\ \A r \in proc[p].moved : place[r] # {}
          /\ \A x \in proc[p].aliases : pointer[x] # None
        BY <1>15, <1>s DEF RebuildPass, Ready
    <2>3. proc' = [proc EXCEPT ![p] = proc'[p]]
        BY <1>15, <1>t DEF RebuildPass, Begin
    <2>4. /\ proc'[p] \in ProcState /\ proc'[p].at \in {"manifests", "pointers"}
          /\ proc'[p].at = "manifests" => /\ proc'[p].todo = proc[p].found
                                          /\ proc'[p].found = proc[p].found
          /\ proc'[p].moved = proc[p].moved
          /\ \A x \in proc'[p].aliases : pointer[x] # None
        <3>1. CASE proc[p].pass < Passes
            <4>1. proc'[p] = [proc[p] EXCEPT !.pass = @ + 1, !.todo = proc[p].found]
                BY <1>15, <1>t, <3>1 DEF RebuildPass, Begin
            <4>2. proc[p].pass + 1 \in 0 .. 2
                BY <2>2, <3>1 DEF ProcState, Passes
            <4> QED BY <2>2, <4>1, <4>2 DEF ProcState
        <3>2. CASE ~(proc[p].pass < Passes)
            <4>1. proc'[p] = [proc[p] EXCEPT !.at = "pointers",
                                             !.aliases = {a \in Alias : pointer[a] # None}]
                BY <1>15, <1>t, <3>2 DEF RebuildPass, Begin
            <4>2. {a \in Alias : pointer[a] # None} \in SUBSET Alias /\ "pointers" \in At
                BY DEF At
            <4>3. proc'[p] \in ProcState
                BY <2>2, <4>1, <4>2 DEF ProcState
            <4>4. /\ proc'[p].at = "pointers" /\ proc'[p].moved = proc[p].moved
                  /\ proc'[p].aliases = {a \in Alias : pointer[a] # None}
                BY <2>2, <4>1 DEF ProcState
            <4> QED BY <4>3, <4>4
        <3> QED BY <3>1, <3>2
    <2>5. Ready(p)'
        BY <2>1, <2>2, <2>4 DEF Ready
    <2>6. AllReady' /\ proc' \in [Proc -> ProcState]
        BY <2>1, <2>3, <2>4, <2>5, KeepReady
    <2> QED BY <2>1, <2>6 DEF TypeOK
<1>16. ASSUME NEW p \in Proc, RebuildAlias(p) PROVE Good
    <2>1. /\ UNCHANGED <<place, built, left, row, source, lineage, recorded, alias, chosen, pointer>>
          /\ UNCHANGED <<starts, losses, drifted, phantom, split>> /\ Grows
        BY <1>16 DEF RebuildAlias, disk, tables, history, Grows
    <2>2. CASE \E a \in proc[p].aliases :
                 Begin(p, [proc[p] EXCEPT !.aliases = @ \ {a}, !.alias = a, !.version = pointer[a],
                               !.at = IF row[pointer[a]] # "none" THEN "pointer" ELSE "pointers"])
        <3>1. PICK a \in proc[p].aliases :
                 proc' = [proc EXCEPT ![p] =
                             [proc[p] EXCEPT !.aliases = @ \ {a}, !.alias = a, !.version = pointer[a],
                                  !.at = IF row[pointer[a]] # "none" THEN "pointer" ELSE "pointers"]]
            BY <2>2 DEF Begin
        <3>2. proc[p] \in ProcState
            BY <1>s
        <3>3. /\ proc' = [proc EXCEPT ![p] = proc'[p]]
              /\ proc'[p] = [proc[p] EXCEPT !.aliases = @ \ {a}, !.alias = a, !.version = pointer[a],
                                 !.at = IF row[pointer[a]] # "none" THEN "pointer" ELSE "pointers"]
            BY <1>t, <3>1
        <3>4. /\ \A r \in proc[p].moved : place[r] # {}
              /\ \A x \in proc[p].aliases : pointer[x] # None
            BY <1>s DEF Ready
        <3>5. a \in Alias /\ pointer[a] \in Version
            BY <3>2, <3>4 DEF ProcState, TypeOK
        <3>6. /\ proc'[p] \in ProcState /\ proc'[p].at \in {"pointer", "pointers"}
              /\ proc'[p].version = pointer[a] /\ proc'[p].moved = proc[p].moved
              /\ proc'[p].aliases = proc[p].aliases \ {a}
            <4>1. PICK at \in {"pointer", "pointers"} :
                     proc'[p] = [proc[p] EXCEPT !.aliases = @ \ {a}, !.alias = a,
                                     !.version = pointer[a], !.at = at]
                BY <3>3
            <4>2. at \in At /\ proc[p].aliases \ {a} \subseteq Alias
                BY <3>2 DEF At, ProcState
            <4> QED BY <3>2, <3>5, <4>1, <4>2 DEF ProcState
        <3>7. Ready(p)'
            BY <2>1, <3>4, <3>5, <3>6 DEF Ready
        <3>8. AllReady' /\ proc' \in [Proc -> ProcState]
            BY <2>1, <3>3, <3>6, <3>7, KeepReady
        <3> QED BY <2>1, <3>8 DEF TypeOK
    <2>3. CASE Done(p)
        BY <2>1, <2>3, KeepDone DEF TypeOK
    <2> QED BY <1>16, <2>2, <2>3 DEF RebuildAlias
<1>17. ASSUME NEW p \in Proc, Kill(p) PROVE Good
    <2>1. /\ UNCHANGED <<place, built, row, source, lineage, recorded, alias, chosen, pointer>>
          /\ UNCHANGED <<starts, losses, phantom, split>> /\ Grows
        BY <1>17 DEF Kill, disk, tables, Grows
    <2>2. AllReady' /\ proc' \in [Proc -> ProcState]
        BY <1>17, <2>1, KeepDone DEF Kill
    <2>3. drifted' \subseteq Alias
        BY <1>17, <1>s DEF Kill, TypeOK, ProcState
    <2>4. left' \subseteq Version \X {"fresh", "stamped"}
        <3>1. left' = left \/ \E c \in Holds(p) : left' = left \cup {c}
            BY <1>17 DEF Kill
        <3> QED BY <3>1, HoldsFound DEF TypeOK
    <2> QED BY <2>1, <2>2, <2>3, <2>4 DEF TypeOK
<1>18. ASSUME LoseRegistry PROVE Good
    <2>1. UNCHANGED <<place, built, left, pointer, proc, starts, phantom>> /\ \A p \in Proc : proc[p].at = "idle"
        BY <1>18 DEF LoseRegistry, disk
    <2>2. AllReady'
        BY <1>s, <2>1 DEF AllReady, Ready
    <2>3. /\ row' \in [Version -> Status] /\ lineage' = {}
          /\ source' \in [Version -> {"none", "fresh", "stamped", "final"}]
          /\ recorded' \in [Release -> Where \cup {"none"}]
          /\ alias' \in [Alias -> Version \cup {None}] /\ chosen' = None
          /\ losses' \in 0 .. MaxLosses /\ drifted' = Alias /\ split' = FALSE
        BY <1>18 DEF LoseRegistry, Status, TypeOK
    <2> QED BY <2>1, <2>2, <2>3 DEF TypeOK
<1> QED
    BY <1>1, <1>2, <1>3, <1>4, <1>5, <1>6, <1>7, <1>8, <1>9, <1>10, <1>11, <1>12,
       <1>13, <1>14, <1>15, <1>16, <1>17, <1>18, <1>19 DEF Next

(* Every variable keeps its type.                                          *)
THEOREM TypeCorrect == Spec => []TypeOK
<1>1. TypeOK /\ AllReady /\ [Next]_vars => (TypeOK /\ AllReady)'
    BY StepReady
<1> QED BY <1>1, InitReady, PTL DEF Spec
--------------------------------------------------------------------------------
(* What archive_except has half removed is in the archive.                 *)
Whole == \A r \in Release : "torn" \in place[r] => "archive" \in place[r]

LEMMA StepWhole == TypeOK /\ AllReady /\ Whole /\ [Next]_vars => Whole'
<1> SUFFICES ASSUME TypeOK, AllReady, Whole, [Next]_vars PROVE Whole'
    OBVIOUS
<1>t. place \in [Release -> SUBSET Where]
    BY DEF TypeOK
<1>1. ASSUME place' = place PROVE Whole'
    BY <1>1 DEF Whole
<1>2. ASSUME NEW p \in Proc, Freeze(p) PROVE Whole'
    <2>1. /\ place' = [place EXCEPT ![proc[p].release] = @ \cup {"active"}]
          /\ proc[p].release \in Release
        BY <1>2 DEF Freeze, Ready, AllReady
    <2>2. \A r \in Release : place'[r] = place[r] \/ place'[r] = place[r] \cup {"active"}
        BY <1>t, <2>1
    <2> QED BY <2>2 DEF Whole
<1>3. ASSUME NEW p \in Proc, Archive(p) PROVE Whole'
    <2>1. CASE \E r \in Others(p) : \/ place' = [place EXCEPT ![r] = {"torn", "archive"}]
                                    \/ place' = [place EXCEPT ![r] = {"archive"}]
        <3>1. PICK r \in Release : \/ place' = [place EXCEPT ![r] = {"torn", "archive"}]
                                   \/ place' = [place EXCEPT ![r] = {"archive"}]
            BY <2>1 DEF Others
        <3>2. \A q \in Release : "archive" \in place'[q] \/ place'[q] = place[q]
            BY <1>t, <3>1
        <3> QED BY <3>2 DEF Whole
    <2>2. CASE place' = place
        BY <2>2, <1>1
    <2> QED BY <1>3, <2>1, <2>2 DEF Archive
<1>4. ASSUME NEW p \in Proc,
             \/ Start(p) \/ Build(p) \/ Stamp(p) \/ Place(p) \/ Register(p) \/ Record(p)
             \/ WritePointer(p) \/ Commit(p) \/ Snapshot(p) \/ Select(p) \/ Choose(p)
             \/ RecordMoved(p) \/ RebuildRow(p) \/ RebuildPass(p)
             \/ RebuildAlias(p) \/ Kill(p)
      PROVE  place' = place
    BY <1>4 DEF Start, Build, Stamp, Place, Register, Record, WritePointer, Commit, Snapshot, Select,
                Choose, RecordMoved, RebuildRow, RebuildPass, RebuildAlias, Kill, disk
<1>5. UNCHANGED vars \/ LoseRegistry => place' = place
    BY DEF vars, LoseRegistry, disk
<1> QED BY <1>1, <1>2, <1>3, <1>4, <1>5 DEF Next

LEMMA InitNamed == Init => NamedIsInPlace /\ Whole
  BY DEF Init, NamedIsInPlace, Whole

LEMMA StepNamed ==
    TypeOK /\ AllReady /\ Whole /\ NamedIsInPlace /\ [Next]_vars => NamedIsInPlace'
<1> SUFFICES ASSUME TypeOK, AllReady, Whole, NamedIsInPlace, [Next]_vars PROVE NamedIsInPlace'
    OBVIOUS
<1>t. /\ proc \in [Proc -> ProcState] /\ built \subseteq Version
      /\ row \in [Version -> Status] /\ place \in [Release -> SUBSET Where]
      /\ alias \in [Alias -> Version \cup {None}] /\ pointer \in [Alias -> Version \cup {None}]
      /\ recorded \in [Release -> Where \cup {"none"}] /\ chosen \in Release \cup {None}
    BY DEF TypeOK
<1>s. ASSUME NEW p \in Proc PROVE proc[p] \in ProcState /\ Ready(p)
    BY <1>t DEF AllReady
<1>0. None \notin Version /\ None \notin Release
    BY DEF RegistryAssumption
<1>w. \A r \in Release : place[r] # {} => place[r] \ {"torn"} # {}
    BY DEF Whole
<1>q. ASSUME UNCHANGED <<place, built, row, source, alias, chosen, recorded, pointer, phantom>>
      PROVE  NamedIsInPlace'
    BY <1>q DEF NamedIsInPlace
<1>1. CASE UNCHANGED vars
    BY <1>1, <1>q DEF vars, disk, tables, history
<1>2. ASSUME NEW p \in Proc,
             \/ Start(p) \/ Build(p) \/ Stamp(p) \/ Choose(p) \/ RebuildPass(p) \/ RebuildAlias(p)
             \/ Kill(p)
      PROVE  NamedIsInPlace'
    <2>1. UNCHANGED <<place, built, row, source, alias, chosen, recorded, pointer, phantom>>
        BY <1>2 DEF Start, Build, Stamp, Choose, RebuildPass, RebuildAlias, Kill, disk, tables, history
    <2> QED BY <2>1, <1>q
<1>3. ASSUME NEW p \in Proc, Freeze(p) \/ Archive(p) PROVE NamedIsInPlace'
    <2>1. UNCHANGED <<built, row, source, alias, chosen, recorded, pointer, phantom>>
        BY <1>3 DEF Freeze, Archive, tables, history
    <2>2. \A r \in Release : place[r] \ {"torn"} # {} => place'[r] \ {"torn"} # {}
        <3>1. CASE Freeze(p)
            <4>1. /\ place' = [place EXCEPT ![proc[p].release] = @ \cup {"active"}]
                  /\ proc[p].release \in Release
                BY <3>1, <1>s DEF Freeze, Ready
            <4>2. /\ place'[proc[p].release] = place[proc[p].release] \cup {"active"}
                  /\ \A r \in Release : r # proc[p].release => place'[r] = place[r]
                BY <1>t, <4>1
            <4> QED BY <4>2
        <3>2. CASE Archive(p)
            <4>1. CASE place' = place
                BY <4>1
            <4>2. CASE \E r \in Others(p) : \/ place' = [place EXCEPT ![r] = {"torn", "archive"}]
                                            \/ place' = [place EXCEPT ![r] = {"archive"}]
                <5>1. PICK r \in Others(p) : \/ place' = [place EXCEPT ![r] = {"torn", "archive"}]
                                             \/ place' = [place EXCEPT ![r] = {"archive"}]
                    BY <4>2
                <5>2. \A s \in Release : "archive" \in place'[s] \/ place'[s] = place[s]
                    BY <1>t, <5>1 DEF Others
                <5> QED BY <5>2
            <4> QED BY <3>2, <4>1, <4>2 DEF Archive
        <3> QED BY <1>3, <3>1, <3>2
    <2> QED BY <2>1, <2>2 DEF NamedIsInPlace
<1>4. ASSUME NEW p \in Proc, Place(p) PROVE NamedIsInPlace'
    <2>1. /\ UNCHANGED <<place, row, source, alias, chosen, recorded, pointer, phantom>>
          /\ built \subseteq built'
        BY <1>4 DEF Place, tables, history
    <2> QED BY <2>1 DEF NamedIsInPlace
<1>5. ASSUME NEW v \in Version, NEW from \in From, RegisterVersion(v, from),
             phantom \subseteq phantom', v \in IF from = "final" THEN built ELSE phantom',
             UNCHANGED <<place, built, alias, chosen, recorded, pointer>>
      PROVE  NamedIsInPlace'
    <2>1. /\ row'[v] # "none" /\ source'[v] = from
          /\ \A u \in Version : u # v => row'[u] = row[u] /\ source'[u] = source[u]
        BY <1>5, RegisterRow
    <2>2. \A u \in Version : row'[u] # "none" =>
              u \in built' \/ (source'[u] # "final" /\ u \in phantom')
        BY <1>5, <2>1 DEF NamedIsInPlace
    <2>3. \A a \in Alias : /\ alias'[a] # None => row'[alias'[a]] # "none"
                           /\ pointer'[a] # None => pointer'[a] \in built' \cup phantom'
        BY <1>5, <1>t, <2>1 DEF NamedIsInPlace
    <2> QED BY <1>5, <2>2, <2>3 DEF NamedIsInPlace
<1>6. ASSUME NEW p \in Proc, Register(p) PROVE NamedIsInPlace'
    <2>1. /\ proc[p].version \in Version /\ proc[p].version \in built
          /\ RegisterVersion(proc[p].version, "final") /\ "final" \in From
          /\ UNCHANGED <<place, built, alias, chosen, recorded, pointer, phantom>>
        BY <1>6, <1>s DEF Register, Ready, disk, history, From
    <2> QED BY <2>1, <1>5
<1>7. ASSUME NEW p \in Proc, RebuildRow(p) PROVE NamedIsInPlace'
    <2>1. PICK f \in proc[p].todo :
              /\ RegisterVersion(f[1], f[2])
              /\ phantom' = IF f[2] # "final" THEN phantom \cup {f[1]} ELSE phantom
        BY <1>7 DEF RebuildRow
    <2>2. f \in Found /\ (f[2] = "final" => f[1] \in built)
        BY <1>7, <1>s, <2>1 DEF RebuildRow, Ready, ProcState
    <2>3. f[1] \in Version /\ f[2] \in From
        BY <2>2 DEF Found, From
    <2>4. UNCHANGED <<place, built, alias, chosen, recorded, pointer>>
        BY <1>7 DEF RebuildRow, disk
    <2>5. phantom \subseteq phantom' /\ f[1] \in IF f[2] = "final" THEN built ELSE phantom'
        BY <2>1, <2>2
    <2> QED BY <2>1, <2>3, <2>4, <2>5, <1>5
<1>8. ASSUME NEW p \in Proc, Record(p) PROVE NamedIsInPlace'
    <2>1. proc[p].release \in Release /\ place[proc[p].release] # {}
        BY <1>8, <1>s DEF Record, Ready
    <2>2. PICK where \in Where : recorded' = [recorded EXCEPT ![proc[p].release] = where]
        BY <1>8 DEF Record, Reads, Where
    <2>3. /\ UNCHANGED <<place, built, row, source, alias, chosen, pointer, phantom>>
          /\ recorded'[proc[p].release] # "none"
          /\ \A r \in Release : r # proc[p].release => recorded'[r] = recorded[r]
        BY <1>8, <1>t, <2>1, <2>2 DEF Record, disk, history, Where
    <2> QED BY <1>t, <1>0, <1>w, <2>1, <2>3 DEF NamedIsInPlace
<1>9. ASSUME NEW p \in Proc, RecordMoved(p) PROVE NamedIsInPlace'
    <2>1. UNCHANGED <<place, built, row, source, alias, chosen, pointer, phantom>>
        BY <1>9 DEF RecordMoved, disk, history
    <2>2. /\ \A r \in Release : recorded'[r] # "none" => place[r] \ {"torn"} # {}
          /\ \A r \in Release : recorded[r] # "none" => recorded'[r] # "none"
        <3>1. CASE \E r \in proc[p].moved, where \in Where : recorded' = [recorded EXCEPT ![r] = where]
            <4>1. PICK r \in proc[p].moved, where \in Where : recorded' = [recorded EXCEPT ![r] = where]
                BY <3>1
            <4>2. r \in Release /\ place[r] # {}
                BY <1>s, <4>1 DEF Ready, ProcState
            <4>3. /\ recorded'[r] = where /\ where # "none"
                  /\ \A q \in Release : q # r => recorded'[q] = recorded[q]
                BY <1>t, <4>1, <4>2 DEF Where
            <4> QED BY <4>2, <4>3, <1>w DEF NamedIsInPlace
        <3>2. CASE UNCHANGED recorded
            BY <3>2 DEF NamedIsInPlace
        <3> QED BY <1>9, <3>1, <3>2 DEF RecordMoved, Reads, Where
    <2> QED BY <1>t, <1>0, <2>1, <2>2 DEF NamedIsInPlace
<1>10. ASSUME NEW p \in Proc, WritePointer(p) PROVE NamedIsInPlace'
    <2>1. /\ proc[p].version \in Version /\ row[proc[p].version] # "none"
          /\ proc[p].alias \in Alias
        BY <1>10, <1>s DEF WritePointer, Ready, ProcState
    <2>2. /\ UNCHANGED <<place, built, row, source, alias, chosen, recorded, phantom>>
          /\ pointer' = [pointer EXCEPT ![proc[p].alias] = proc[p].version]
        BY <1>10 DEF WritePointer, tables, history
    <2>3. proc[p].version \in built \cup phantom
        BY <2>1 DEF NamedIsInPlace
    <2> QED BY <1>t, <2>1, <2>2, <2>3 DEF NamedIsInPlace
<1>11. ASSUME NEW p \in Proc, NEW v \in Version, NEW a \in Alias, row[v] # "none",
              row' = [row EXCEPT ![v] = "PUBLISHED"], alias' = [alias EXCEPT ![a] = v],
              UNCHANGED <<place, built, source, recorded, pointer, phantom>>,
              chosen' # None => recorded[chosen'] # "none"
       PROVE  NamedIsInPlace'
    <2>1. /\ \A u \in Version : row[u] # "none" => row'[u] # "none"
          /\ \A u \in Version : row'[u] # "none" => row[u] # "none"
        BY <1>11, <1>t DEF NamedIsInPlace
    <2>2. \A b \in Alias : alias'[b] # None => row'[alias'[b]] # "none"
        BY <1>11, <1>t, <2>1 DEF NamedIsInPlace
    <2> QED BY <1>11, <2>1, <2>2 DEF NamedIsInPlace
<1>12. ASSUME NEW p \in Proc, Commit(p) PROVE NamedIsInPlace'
    <2>1. /\ proc[p].version \in Version /\ row[proc[p].version] # "none"
          /\ proc[p].alias \in Alias
        BY <1>12, <1>s DEF Commit, Ready, ProcState
    <2>2. /\ row' = [row EXCEPT ![proc[p].version] = "PUBLISHED"]
          /\ alias' = [alias EXCEPT ![proc[p].alias] = proc[p].version]
          /\ UNCHANGED <<place, built, source, recorded, pointer, chosen, phantom>>
        BY <1>12 DEF Commit, disk
    <2>3. chosen' # None => recorded[chosen'] # "none"
        BY <2>2 DEF NamedIsInPlace
    <2> QED BY <2>1, <2>2, <2>3, <1>11
<1>13. ASSUME NEW p \in Proc, Snapshot(p) PROVE NamedIsInPlace'
    <2>1. /\ proc[p].version \in Version /\ row[proc[p].version] # "none"
          /\ recorded[proc[p].release] # "none" /\ Ref \in Alias
        BY <1>13, <1>s DEF Snapshot, Ready, Promotable, RegistryAssumption
    <2>2. /\ row' = [row EXCEPT ![proc[p].version] = "PUBLISHED"]
          /\ alias' = [alias EXCEPT ![Ref] = proc[p].version]
          /\ chosen' = proc[p].release
          /\ UNCHANGED <<place, built, source, recorded, pointer, phantom>>
        BY <1>13 DEF Snapshot, disk
    <2> QED BY <2>1, <2>2, <1>11
<1>14. ASSUME NEW p \in Proc, Select(p) PROVE NamedIsInPlace'
    BY <1>14 DEF Select, disk, NamedIsInPlace
<1>15. CASE LoseRegistry
    BY <1>15, <1>t DEF LoseRegistry, disk, NamedIsInPlace
<1> QED
    BY <1>1, <1>2, <1>3, <1>4, <1>6, <1>7, <1>8, <1>9, <1>10, <1>12, <1>13, <1>14, <1>15 DEF Next

(* Whatever the registry or a pointer file names is in place, or was       *)
(* registered by a rebuild from a candidate; a row that was taken from the *)
(* directory of the version has it; an alias has its row; and a release    *)
(* that has a row is whole somewhere.                                      *)
THEOREM NamedStaysInPlace == Spec => []NamedIsInPlace
<1>1. /\ TypeOK /\ AllReady /\ Whole /\ NamedIsInPlace /\ [Next]_vars
          => (TypeOK /\ AllReady /\ Whole /\ NamedIsInPlace)'
    BY StepReady, StepWhole, StepNamed
<1> QED BY <1>1, InitReady, InitNamed, PTL DEF Spec
--------------------------------------------------------------------------------
(* The transaction of promote is exclusive, and what it is about to commit *)
(* is what the pointer file already says.                                  *)
OneCommitter ==
    /\ \A p, q \in Proc : proc[p].at = "commit" /\ proc[q].at = "commit" => p = q
    /\ \A p \in Proc : proc[p].at = "commit" => pointer[proc[p].alias] = proc[p].version

Agreement == OneCommitter /\ PointersAgree

LEMMA InitAgreement == Init => Agreement
  BY IdleState DEF Init, Agreement, OneCommitter, PointersAgree

(* A step that leaves the pointers and the aliases that agree alone, and   *)
(* neither enters the transaction nor leaves it.                           *)
LEMMA KeepAgreement ==
    ASSUME TypeOK, Agreement, NEW p \in Proc,
           \A q \in Proc : q # p => proc'[q] = proc[q],
           proc[p].at # "commit", proc'[p].at # "commit",
           pointer' = pointer, drifted \subseteq drifted',
           \A a \in Alias \ drifted' : alias'[a] = alias[a]
    PROVE  Agreement'
  BY DEF Agreement, OneCommitter, PointersAgree

LEMMA RequestAt ==
    ASSUME NEW request \in Request
    PROVE  /\ request.at # "commit"
           /\ request.at = "manifests" => request.pass = 1 /\ request.found = request.todo
<1>1. CASE request \in {[Idle EXCEPT !.at = "build", !.kind = "export", !.version = v] :
                            v \in Version \ Imported}
    BY <1>1 DEF Idle
<1>2. CASE request \in {[Idle EXCEPT !.at = "freeze", !.kind = IF v \in Imported THEN "import" ELSE "release",
                                     !.version = v, !.release = BoundTo[v]] :
                            v \in {u \in Version : BoundTo[u] # None}}
    BY <1>2 DEF Idle
<1>3. CASE request \in {[Idle EXCEPT !.at = "choose", !.kind = "recover", !.release = r] :
                            r \in {s \in Release : place[s] # {} /\ (Standalone \/ s = chosen)}}
    BY <1>3 DEF Idle
<1>4. CASE request \in {[Idle EXCEPT !.at = "pointer", !.kind = "promote", !.version = x[1], !.alias = x[2]] :
                            x \in {u \in Version : row[u] # "none"} \X Alias}
    BY <1>4 DEF Idle
<1>5. CASE request \in {[Idle EXCEPT !.at = "record", !.kind = "select", !.release = r] :
                            r \in {s \in Release : place[s] # {}}}
    BY <1>5 DEF Idle
<1>6. CASE request \in {[Idle EXCEPT !.at = "manifests", !.kind = "rebuild", !.found = some,
                                    !.todo = some, !.pass = 1] : some \in Listed}
    BY <1>6 DEF Idle
<1> QED BY <1>1, <1>2, <1>3, <1>4, <1>5, <1>6 DEF Request

LEMMA StepAgreement == TypeOK /\ AllReady /\ Agreement /\ [Next]_vars => Agreement'
<1> SUFFICES ASSUME TypeOK, AllReady, Agreement, [Next]_vars PROVE Agreement'
    OBVIOUS
<1>t. /\ proc \in [Proc -> ProcState]
      /\ alias \in [Alias -> Version \cup {None}] /\ pointer \in [Alias -> Version \cup {None}]
    BY DEF TypeOK
<1>s. ASSUME NEW p \in Proc PROVE proc[p] \in ProcState /\ Ready(p)
    BY <1>t DEF AllReady
<1>o. ASSUME NEW p \in Proc, proc' = [proc EXCEPT ![p] = proc'[p]]
      PROVE  \A q \in Proc : q # p => proc'[q] = proc[q]
    BY <1>o, <1>t
<1>g. ASSUME NEW p \in Proc, NEW a \in At, Goto(p, a)
      PROVE  /\ proc'[p].at = a /\ proc'[p].alias = proc[p].alias
             /\ proc'[p].version = proc[p].version
             /\ \A q \in Proc : q # p => proc'[q] = proc[q]
    BY <1>g, <1>o, GotoState
<1>d. ASSUME NEW p \in Proc, Done(p)
      PROVE  proc'[p].at = "idle" /\ \A q \in Proc : q # p => proc'[q] = proc[q]
    BY <1>d, <1>t, IdleState DEF Done, Begin
<1>1. CASE UNCHANGED vars
    <2>1. UNCHANGED <<proc, pointer, alias, drifted>>
        BY <1>1 DEF vars, disk, tables, history
    <2> QED BY <2>1 DEF Agreement, OneCommitter, PointersAgree
<1>2. ASSUME NEW p \in Proc,
             \/ Start(p) \/ Freeze(p) \/ Build(p) \/ Stamp(p) \/ Place(p) \/ Register(p) \/ Record(p)
             \/ Choose(p) \/ Archive(p) \/ RecordMoved(p)
             \/ RebuildRow(p) \/ RebuildPass(p) \/ RebuildAlias(p)
      PROVE  Agreement'
    <2>1. UNCHANGED <<pointer, alias, drifted>>
        BY <1>2 DEF Start, Freeze, Build, Stamp, Place, Register, Record, Choose, Archive, RecordMoved,
                    RebuildRow, RebuildPass, RebuildAlias, disk, tables, history
    <2>2. proc[p].at # "commit"
        BY <1>2 DEF Start, Freeze, Build, Stamp, Place, Register, Record, Choose, Archive, RecordMoved,
                    RebuildRow, RebuildPass, RebuildAlias
    <2>3. proc'[p].at # "commit" /\ \A q \in Proc : q # p => proc'[q] = proc[q]
        <3>1. CASE Start(p)
            <4>1. PICK request \in Request : Begin(p, request)
                BY <3>1 DEF Start
            <4>2. request.at # "commit"
                BY RequestAt
            <4> QED BY <4>1, <4>2, <1>t DEF Begin
        <3>2. CASE Freeze(p) \/ Build(p) \/ Stamp(p) \/ Place(p)
            <4>1. PICK a \in At : Goto(p, a) /\ a # "commit"
                BY <3>2 DEF Freeze, Build, Stamp, Place, At
            <4> QED BY <4>1, <1>g
        <3>3. CASE Register(p)
            <4>1. proc[p].kind \in {"export", "release", "import"}
                BY <3>3, <1>s DEF Register, Ready
            <4>2. PICK a \in At : Goto(p, a) /\ a # "commit"
                BY <3>3, <4>1 DEF Register, At
            <4> QED BY <4>2, <1>g
        <3>4. CASE Record(p)
            <4>1. proc[p].kind \in {"import", "release", "select"}
                BY <3>4, <1>s DEF Record, Ready
            <4>2. PICK a \in At : Goto(p, a) /\ a # "commit"
                BY <3>4, <4>1 DEF Record, At
            <4> QED BY <4>2, <1>g
        <3>5. CASE Choose(p)
            <4>1. \/ Done(p)
                  \/ \E v \in Version \cup built :
                        Begin(p, [proc[p] EXCEPT !.at = "snapshot", !.version = v])
                BY <3>5 DEF Choose, Candidate
            <4>2. ASSUME NEW v \in Version \cup built, Begin(p, [proc[p] EXCEPT !.at = "snapshot", !.version = v])
                  PROVE  proc'[p].at = "snapshot" /\ \A q \in Proc : q # p => proc'[q] = proc[q]
                <5>1. proc' = [proc EXCEPT ![p] = proc'[p]]
                      /\ proc'[p] = [proc[p] EXCEPT !.at = "snapshot", !.version = v]
                    BY <4>2, <1>t DEF Begin
                <5>2. proc[p] \in ProcState
                    BY <1>s
                <5> QED BY <5>1, <5>2, <1>o DEF ProcState
            <4> QED BY <4>1, <4>2, <1>d
        <3>6. CASE Archive(p)
            <4>1. \/ Goto(p, "moved") \/ UNCHANGED proc
                  \/ \E r \in Others(p) : Begin(p, [proc[p] EXCEPT !.moved = @ \cup {r}])
                BY <3>6 DEF Archive
            <4>2. CASE Goto(p, "moved")
                <5>1. "moved" \in At
                    BY DEF At
                <5> QED BY <5>1, <4>2, <1>g
            <4>3. CASE \E r \in Others(p) : Begin(p, [proc[p] EXCEPT !.moved = @ \cup {r}])
                <5>1. PICK r \in Others(p) : Begin(p, [proc[p] EXCEPT !.moved = @ \cup {r}])
                    BY <4>3
                <5>2. proc' = [proc EXCEPT ![p] = proc'[p]]
                      /\ proc'[p] = [proc[p] EXCEPT !.moved = @ \cup {r}]
                    BY <5>1, <1>t DEF Begin
                <5>3. proc[p] \in ProcState
                    BY <1>s
                <5> QED BY <5>2, <5>3, <1>o, <2>2 DEF ProcState
            <4>4. CASE UNCHANGED proc
                BY <4>4, <2>2
            <4> QED BY <4>1, <4>2, <4>3, <4>4
        <3>7. CASE RecordMoved(p)
            <4>1. \/ Done(p)
                  \/ \E r \in proc[p].moved : Begin(p, [proc[p] EXCEPT !.moved = @ \ {r}])
                BY <3>7 DEF RecordMoved
            <4>2. ASSUME NEW r, Begin(p, [proc[p] EXCEPT !.moved = @ \ {r}])
                  PROVE  proc'[p].at = proc[p].at /\ \A q \in Proc : q # p => proc'[q] = proc[q]
                <5>1. proc' = [proc EXCEPT ![p] = proc'[p]]
                      /\ proc'[p] = [proc[p] EXCEPT !.moved = @ \ {r}]
                    BY <4>2, <1>t DEF Begin
                <5>2. proc[p] \in ProcState
                    BY <1>s
                <5> QED BY <5>1, <5>2, <1>o DEF ProcState
            <4> QED BY <4>1, <4>2, <1>d, <2>2
        <3>8. CASE RebuildRow(p)
            <4>1. PICK v \in proc[p].todo : Begin(p, [proc[p] EXCEPT !.todo = @ \ {v}])
                BY <3>8 DEF RebuildRow
            <4>2. proc' = [proc EXCEPT ![p] = proc'[p]]
                  /\ proc'[p] = [proc[p] EXCEPT !.todo = @ \ {v}]
                BY <4>1, <1>t DEF Begin
            <4>3. proc[p] \in ProcState
                BY <1>s
            <4> QED BY <4>2, <4>3, <1>o, <2>2 DEF ProcState
        <3>9. CASE RebuildPass(p)
            <4>1. \/ Begin(p, [proc[p] EXCEPT !.pass = @ + 1, !.todo = proc[p].found])
                  \/ Begin(p, [proc[p] EXCEPT !.at = "pointers",
                                              !.aliases = {a \in Alias : pointer[a] # None}])
                BY <3>9 DEF RebuildPass
            <4>2. /\ proc' = [proc EXCEPT ![p] = proc'[p]]
                  /\ \/ proc'[p] = [proc[p] EXCEPT !.pass = @ + 1, !.todo = proc[p].found]
                     \/ proc'[p] = [proc[p] EXCEPT !.at = "pointers",
                                                   !.aliases = {a \in Alias : pointer[a] # None}]
                BY <4>1, <1>t DEF Begin
            <4>3. proc[p] \in ProcState
                BY <1>s
            <4>4. proc'[p].at \in {proc[p].at, "pointers"}
                BY <4>2, <4>3 DEF ProcState
            <4> QED BY <4>2, <4>4, <1>o, <2>2
        <3>10. CASE RebuildAlias(p)
            <4>1. \/ Done(p)
                  \/ \E a \in proc[p].aliases, at \in {"pointer", "pointers"} :
                        Begin(p, [proc[p] EXCEPT !.aliases = @ \ {a}, !.alias = a,
                                                 !.version = pointer[a], !.at = at])
                BY <3>10 DEF RebuildAlias
            <4>2. ASSUME NEW a, NEW at \in {"pointer", "pointers"},
                         Begin(p, [proc[p] EXCEPT !.aliases = @ \ {a}, !.alias = a,
                                                  !.version = pointer[a], !.at = at])
                  PROVE  proc'[p].at = at /\ \A q \in Proc : q # p => proc'[q] = proc[q]
                <5>1. proc' = [proc EXCEPT ![p] = proc'[p]]
                      /\ proc'[p] = [proc[p] EXCEPT !.aliases = @ \ {a}, !.alias = a,
                                                    !.version = pointer[a], !.at = at]
                    BY <4>2, <1>t DEF Begin
                <5>2. proc[p] \in ProcState
                    BY <1>s
                <5> QED BY <5>1, <5>2, <1>o DEF ProcState
            <4> QED BY <4>1, <4>2, <1>d
        <3> QED BY <1>2, <3>1, <3>2, <3>3, <3>4, <3>5, <3>6, <3>7, <3>8, <3>9, <3>10
    <2> QED BY <2>1, <2>2, <2>3, KeepAgreement
<1>3. ASSUME NEW p \in Proc, WritePointer(p) PROVE Agreement'
    <2>1. /\ \A q \in Proc : proc[q].at # "commit"
          /\ pointer' = [pointer EXCEPT ![proc[p].alias] = proc[p].version]
          /\ UNCHANGED <<alias, drifted>> /\ proc[p].alias \in Alias
        BY <1>3, <1>s DEF WritePointer, Unlocked, tables, history, ProcState
    <2>2. /\ proc'[p].at = "commit" /\ proc'[p].alias = proc[p].alias
          /\ proc'[p].version = proc[p].version
          /\ \A q \in Proc : q # p => proc'[q] = proc[q]
        <3>1. Goto(p, "commit") /\ "commit" \in At
            BY <1>3 DEF WritePointer, At
        <3> QED BY <3>1, <1>g
    <2>3. OneCommitter'
        BY <2>1, <2>2, <1>t DEF OneCommitter
    <2>4. PointersAgree'
        BY <2>1, <2>2, <1>t DEF Agreement, PointersAgree
    <2> QED BY <2>3, <2>4 DEF Agreement
<1>4. ASSUME NEW p \in Proc, Commit(p) PROVE Agreement'
    <2>1. /\ proc[p].at = "commit" /\ proc[p].alias \in Alias
          /\ alias' = [alias EXCEPT ![proc[p].alias] = proc[p].version]
          /\ drifted' = drifted \ {proc[p].alias} /\ pointer' = pointer
        BY <1>4, <1>s DEF Commit, disk, ProcState
    <2>2. proc'[p].at # "commit" /\ \A q \in Proc : q # p => proc'[q] = proc[q]
        <3>1. CASE Goto(p, "pointers")
            <4>1. "pointers" \in At
                BY DEF At
            <4> QED BY <3>1, <4>1, <1>g
        <3>2. CASE Done(p)
            BY <3>2, <1>d
        <3> QED BY <1>4, <3>1, <3>2 DEF Commit
    <2>3. \A q \in Proc : proc'[q].at # "commit"
        BY <2>1, <2>2 DEF Agreement, OneCommitter
    <2>4. \A a \in Alias \ drifted' : pointer'[a] = alias'[a]
        <3> SUFFICES ASSUME NEW a \in Alias, a \notin drifted' PROVE pointer'[a] = alias'[a]
            OBVIOUS
        <3>1. CASE a = proc[p].alias
            BY <2>1, <3>1, <1>t DEF Agreement, OneCommitter
        <3>2. CASE a # proc[p].alias
            <4>1. alias'[a] = alias[a] /\ a \notin drifted
                BY <2>1, <3>2, <1>t
            <4>2. ~\E q \in Proc : proc[q].at = "commit" /\ proc[q].alias = a
                BY <2>1, <3>2 DEF Agreement, OneCommitter
            <4> QED BY <2>1, <4>1, <4>2 DEF Agreement, PointersAgree
        <3> QED BY <3>1, <3>2
    <2> QED BY <2>3, <2>4 DEF Agreement, OneCommitter, PointersAgree
<1>5. ASSUME NEW p \in Proc, Snapshot(p) PROVE Agreement'
    <2>1. /\ proc[p].at # "commit" /\ pointer' = pointer /\ drifted \subseteq drifted'
          /\ \A a \in Alias \ drifted' : alias'[a] = alias[a]
        BY <1>5, <1>t DEF Snapshot, disk
    <2>2. proc'[p].at # "commit" /\ \A q \in Proc : q # p => proc'[q] = proc[q]
        <3>1. CASE Goto(p, "archive")
            <4>1. "archive" \in At
                BY DEF At
            <4> QED BY <3>1, <4>1, <1>g
        <3>2. CASE Done(p)
            BY <3>2, <1>d
        <3> QED BY <1>5, <3>1, <3>2 DEF Snapshot
    <2> QED BY <2>1, <2>2, KeepAgreement
<1>6. ASSUME NEW p \in Proc, Select(p) PROVE Agreement'
    <2>1. /\ proc[p].at # "commit" /\ UNCHANGED <<pointer, drifted, alias>> /\ Done(p)
        BY <1>6 DEF Select, disk
    <2> QED BY <2>1, <1>d, KeepAgreement
<1>7. ASSUME NEW p \in Proc, Kill(p) PROVE Agreement'
    <2>1. /\ UNCHANGED <<pointer, alias>> /\ Done(p) /\ drifted \subseteq drifted'
          /\ proc[p].at = "commit" => proc[p].alias \in drifted'
        BY <1>7 DEF Kill, disk, tables
    <2>2. proc'[p].at = "idle" /\ \A q \in Proc : q # p => proc'[q] = proc[q]
        BY <2>1, <1>d
    <2> QED BY <2>1, <2>2 DEF Agreement, OneCommitter, PointersAgree
<1>8. CASE LoseRegistry
    <2>1. UNCHANGED <<pointer, proc>> /\ drifted' = Alias
        BY <1>8 DEF LoseRegistry, disk
    <2> QED BY <2>1 DEF Agreement, OneCommitter, PointersAgree
<1> QED BY <1>1, <1>2, <1>3, <1>4, <1>5, <1>6, <1>7, <1>8 DEF Next

(* A pointer file says what its alias says, two concurrent promotions of   *)
(* one alias included, for every alias that did not drift.                 *)
THEOREM PointersStayInAgreement == Spec => []PointersAgree
<1>1. /\ TypeOK /\ AllReady /\ Agreement /\ [Next]_vars
          => (TypeOK /\ AllReady /\ Agreement)'
    BY StepReady, StepAgreement
<1>2. Agreement => PointersAgree
    BY DEF Agreement
<1> QED BY <1>1, <1>2, InitReady, InitAgreement, PTL DEF Spec
--------------------------------------------------------------------------------
LEMMA StepBound == TypeOK /\ AllReady /\ SnapshotBound /\ [Next]_vars => SnapshotBound'
<1> SUFFICES ASSUME TypeOK, AllReady, SnapshotBound, [Next]_vars PROVE SnapshotBound'
    OBVIOUS
<1>t. /\ proc \in [Proc -> ProcState] /\ alias \in [Alias -> Version \cup {None}]
      /\ None \notin Version /\ Ref \in Alias
    BY DEF TypeOK, RegistryAssumption
<1>s. ASSUME NEW p \in Proc PROVE proc[p] \in ProcState /\ Ready(p)
    BY <1>t DEF AllReady
<1>1. CASE UNCHANGED vars
    <2>1. UNCHANGED <<alias, chosen, split>>
        BY <1>1 DEF vars, tables, history
    <2> QED BY <2>1 DEF SnapshotBound
<1>2. ASSUME NEW p \in Proc,
             \/ Start(p) \/ Freeze(p) \/ Build(p) \/ Stamp(p) \/ Place(p) \/ Register(p) \/ Record(p)
             \/ WritePointer(p) \/ Choose(p) \/ Archive(p) \/ RecordMoved(p)
             \/ RebuildRow(p) \/ RebuildPass(p) \/ RebuildAlias(p) \/ Kill(p)
      PROVE  SnapshotBound'
    <2>1. UNCHANGED <<alias, chosen, split>>
        BY <1>2 DEF Start, Freeze, Build, Stamp, Place, Register, Record, WritePointer, Choose, Archive,
                    RecordMoved, RebuildRow, RebuildPass, RebuildAlias, Kill, tables, history
    <2> QED BY <2>1 DEF SnapshotBound
<1>3. ASSUME NEW p \in Proc, Commit(p) PROVE SnapshotBound'
    <2>1. proc[p].alias # Ref => alias'[Ref] = alias[Ref]
        BY <1>3, <1>t DEF Commit
    <2> QED BY <1>3, <2>1 DEF Commit, SnapshotBound
<1>4. ASSUME NEW p \in Proc, Snapshot(p) PROVE SnapshotBound'
    <2>1. proc[p].version \in Version /\ BoundTo[proc[p].version] = proc[p].release
        BY <1>4, <1>s DEF Snapshot, Ready, Promotable
    <2>2. alias'[Ref] = proc[p].version /\ chosen' = proc[p].release
        BY <1>4, <1>t DEF Snapshot
    <2> QED BY <1>t, <2>1, <2>2 DEF SnapshotBound
<1>5. ASSUME NEW p \in Proc, Select(p) PROVE SnapshotBound'
    BY <1>5 DEF Select, SnapshotBound
<1>6. CASE LoseRegistry
    BY <1>6 DEF LoseRegistry, SnapshotBound
<1> QED BY <1>1, <1>2, <1>3, <1>4, <1>5, <1>6 DEF Next

(* promote_research_snapshot moves the dataset and the release together.   *)
THEOREM BoundAliasesMoveTogether == Spec => []SnapshotBound
<1>1. /\ TypeOK /\ AllReady /\ SnapshotBound /\ [Next]_vars
          => (TypeOK /\ AllReady /\ SnapshotBound)'
    BY StepReady, StepBound
<1>2. Init => SnapshotBound
    BY DEF Init, SnapshotBound
<1> QED BY <1>1, <1>2, InitReady, PTL DEF Spec
--------------------------------------------------------------------------------
(***************************************************************************)
(* A rebuild: a manifest that the first pass is through with has its row,  *)
(* so has every one in the second pass, and those the second pass is       *)
(* through with are linked to the parents that were found.  The second     *)
(* pass is what the order of the manifests does not matter for: all rows   *)
(* are there before it begins.                                             *)
(***************************************************************************)
Linked(p, v) == \A g \in proc[p].found : g[1] \in Parents[v] => <<v, g[1]>> \in lineage
Rebuilding(p) ==
    proc[p].at = "manifests" =>
        /\ proc[p].pass \in {1, 2} /\ proc[p].todo \subseteq proc[p].found
        /\ \A f \in proc[p].found :
              /\ row[f[1]] # "none" \/ (proc[p].pass = 1 /\ f \in proc[p].todo)
              /\ proc[p].pass = 2 => f \in proc[p].todo \/ Linked(p, f[1])
AllRebuilding == \A p \in Proc : Rebuilding(p)

(* A step of p that takes no row and no link away leaves the rebuilds of   *)
(* the other processes as they are.                                        *)
LEMMA KeepRebuilding ==
    ASSUME TypeOK, AllRebuilding, NEW p \in Proc,
           \A q \in Proc : q # p => proc'[q] = proc[q],
           \A v \in Version : row[v] # "none" => row'[v] # "none",
           lineage \subseteq lineage',
           Rebuilding(p)'
    PROVE  AllRebuilding'
<1> SUFFICES ASSUME NEW q \in Proc, q # p PROVE Rebuilding(q)'
    BY DEF AllRebuilding
<1>1. proc'[q] = proc[q] /\ Rebuilding(q) /\ proc[q].found \subseteq Found
    BY DEF AllRebuilding, TypeOK, ProcState
<1>2. \A f \in proc[q].found : f[1] \in Version
    BY <1>1 DEF Found
<1> QED BY <1>1, <1>2 DEF Rebuilding, Linked

(* Rows and links are only lost with the whole database.                   *)
LEMMA TablesGrow ==
    ASSUME TypeOK, AllReady, NEW p \in Proc,
           \/ Start(p) \/ Freeze(p) \/ Build(p) \/ Stamp(p) \/ Place(p) \/ Register(p) \/ Record(p)
           \/ WritePointer(p) \/ Commit(p) \/ Snapshot(p) \/ Select(p) \/ Choose(p)
           \/ Archive(p) \/ RecordMoved(p) \/ RebuildRow(p) \/ RebuildPass(p)
           \/ RebuildAlias(p) \/ Kill(p)
    PROVE  /\ \A v \in Version : row[v] # "none" => row'[v] # "none"
           /\ lineage \subseteq lineage'
<1>t. /\ proc[p] \in ProcState /\ Ready(p) /\ built \subseteq Version
      /\ row \in [Version -> Status]
    BY DEF AllReady, TypeOK
<1>1. CASE \/ Start(p) \/ Freeze(p) \/ Build(p) \/ Stamp(p) \/ Place(p) \/ Record(p)
           \/ WritePointer(p) \/ Select(p)
           \/ Choose(p) \/ Archive(p) \/ RecordMoved(p) \/ RebuildPass(p) \/ RebuildAlias(p)
           \/ Kill(p)
    <2>1. row' = row /\ lineage' = lineage
        BY <1>1 DEF Start, Freeze, Build, Stamp, Place, Record, WritePointer, Select, Choose, Archive,
                    RecordMoved, RebuildPass, RebuildAlias, Kill, tables
    <2> QED BY <2>1
<1>2. ASSUME NEW v \in Version, NEW from \in From, RegisterVersion(v, from)
      PROVE  /\ \A u \in Version : row[u] # "none" => row'[u] # "none"
             /\ lineage \subseteq lineage'
    <2>1. row'[v] # "none" /\ \A u \in Version : u # v => row'[u] = row[u]
        BY <1>2, RegisterRow
    <2> QED BY <1>2, <2>1 DEF RegisterVersion
<1>3. CASE Register(p)
    <2>1. proc[p].version \in Version /\ RegisterVersion(proc[p].version, "final") /\ "final" \in From
        BY <1>3, <1>t DEF Register, Ready, From
    <2> QED BY <2>1, <1>2
<1>4. CASE RebuildRow(p)
    <2>1. PICK f \in proc[p].todo : RegisterVersion(f[1], f[2])
        BY <1>4 DEF RebuildRow
    <2>2. f[1] \in Version /\ f[2] \in From
        BY <1>t, <2>1 DEF ProcState, Found, From
    <2> QED BY <2>1, <2>2, <1>2
<1>5. CASE Commit(p) \/ Snapshot(p)
    <2>1. lineage' = lineage /\ row' = [row EXCEPT ![proc[p].version] = "PUBLISHED"]
        BY <1>5 DEF Commit, Snapshot
    <2>2. \A v \in Version : row'[v] = row[v] \/ row'[v] = "PUBLISHED"
        BY <1>t, <2>1
    <2> QED BY <2>1, <2>2
<1> QED BY <1>1, <1>3, <1>4, <1>5

(* The steps of everything but a rebuild at its manifests; a process that  *)
(* dies there is idle.                                                     *)
LEMMA StepsElsewhere ==
    ASSUME TypeOK, AllReady, NEW p \in Proc,
           \/ Freeze(p) \/ Build(p) \/ Stamp(p) \/ Place(p) \/ Register(p) \/ Record(p)
           \/ WritePointer(p) \/ Commit(p) \/ Snapshot(p) \/ Select(p) \/ Choose(p)
           \/ Archive(p) \/ RecordMoved(p) \/ RebuildAlias(p) \/ Kill(p)
    PROVE  /\ proc'[p].at # "manifests" /\ \A q \in Proc : q # p => proc'[q] = proc[q]
           /\ proc[p].at = "manifests" => proc'[p].at = "idle"
<1> DEFINE Elsewhere == /\ proc'[p].at # "manifests" /\ \A q \in Proc : q # p => proc'[q] = proc[q]
<1>t. proc \in [Proc -> ProcState] /\ proc[p] \in ProcState /\ Ready(p)
    BY DEF TypeOK, AllReady
<1>1. ASSUME NEW a \in At \ {"manifests"}, Goto(p, a) PROVE Elsewhere
    BY <1>1, <1>t, GotoState DEF Goto
<1>2. ASSUME Done(p) PROVE Elsewhere /\ proc'[p].at = "idle"
    BY <1>2, <1>t, IdleState DEF Done, Begin
<1>3. ASSUME NEW state, state.at # "manifests", Begin(p, state) PROVE Elsewhere
    BY <1>3, <1>t DEF Begin
<1>4. CASE Kill(p)
    BY <1>2, <1>4 DEF Kill
<1>5. CASE Freeze(p)
    BY <1>1, <1>5 DEF Freeze, At
<1>6. CASE Build(p) \/ Stamp(p) \/ Place(p)
    BY <1>1, <1>6 DEF Build, Stamp, Place, At
<1>7. CASE Register(p)
    BY <1>1, <1>7, <1>t DEF Register, Ready, At
<1>8. CASE Record(p)
    BY <1>1, <1>8, <1>t DEF Record, Ready, At
<1>9. CASE WritePointer(p)
    BY <1>1, <1>9 DEF WritePointer, At
<1>10. CASE Commit(p) \/ Snapshot(p)
    BY <1>1, <1>2, <1>10 DEF Commit, Snapshot, At
<1>11. CASE Select(p)
    BY <1>2, <1>11 DEF Select
<1>12. CASE Choose(p)
    <2>1. CASE Done(p)
        BY <1>2, <1>12, <2>1 DEF Choose
    <2>2. ASSUME NEW v, Begin(p, [proc[p] EXCEPT !.at = "snapshot", !.version = v])
          PROVE  Elsewhere
        BY <1>3, <1>t, <2>2 DEF ProcState
    <2> QED BY <1>12, <2>1, <2>2 DEF Choose
<1>13. CASE Archive(p)
    <2>1. CASE Goto(p, "moved")
        BY <1>1, <1>13, <2>1 DEF Archive, At
    <2>2. ASSUME NEW r, Begin(p, [proc[p] EXCEPT !.moved = @ \cup {r}])
          PROVE  Elsewhere
        BY <1>3, <1>13, <1>t, <2>2 DEF Archive, ProcState
    <2>3. CASE UNCHANGED proc
        BY <1>13, <2>3 DEF Archive
    <2> QED BY <1>13, <2>1, <2>2, <2>3 DEF Archive
<1>14. CASE RecordMoved(p)
    <2>1. CASE Done(p)
        BY <1>2, <1>14, <2>1 DEF RecordMoved
    <2>2. ASSUME NEW r, Begin(p, [proc[p] EXCEPT !.moved = @ \ {r}])
          PROVE  Elsewhere
        BY <1>3, <1>14, <1>t, <2>2 DEF RecordMoved, ProcState
    <2> QED BY <1>14, <2>1, <2>2 DEF RecordMoved
<1>15. CASE RebuildAlias(p)
    <2>1. CASE Done(p)
        BY <1>2, <1>15, <2>1 DEF RebuildAlias
    <2>2. ASSUME NEW a, NEW at \in {"pointer", "pointers"}, NEW v,
                 Begin(p, [proc[p] EXCEPT !.aliases = @ \ {a}, !.alias = a, !.version = v,
                               !.at = at])
          PROVE  Elsewhere
        BY <1>3, <1>t, <2>2 DEF ProcState
    <2> QED BY <1>15, <2>1, <2>2 DEF RebuildAlias
<1>16. proc[p].at = "manifests" => Kill(p)
    BY DEF Freeze, Build, Stamp, Place, Register, Record, WritePointer, Commit, Snapshot, Select,
           Choose, Archive, RecordMoved, RebuildAlias
<1>17. proc[p].at = "manifests" => proc'[p].at = "idle"
    BY <1>2, <1>16 DEF Kill
<1> QED BY <1>4, <1>5, <1>6, <1>7, <1>8, <1>9, <1>10, <1>11, <1>12, <1>13, <1>14, <1>15, <1>17

(* Only a rebuild comes to, or stays at, its manifests.                    *)
LEMMA StepRebuilding == TypeOK /\ AllReady /\ AllRebuilding /\ [Next]_vars => AllRebuilding'
<1> SUFFICES ASSUME TypeOK, AllReady, AllRebuilding, [Next]_vars PROVE AllRebuilding'
    OBVIOUS
<1>t. proc \in [Proc -> ProcState] /\ row \in [Version -> Status]
    BY DEF TypeOK
<1>1. CASE UNCHANGED vars
    BY <1>1 DEF AllRebuilding, Rebuilding, Linked, vars, tables
<1>2. CASE LoseRegistry
    BY <1>2 DEF LoseRegistry, AllRebuilding, Rebuilding
<1>3. ASSUME NEW p \in Proc, NEW state \in ProcState, Begin(p, state)
      PROVE  proc'[p] = state /\ \A q \in Proc : q # p => proc'[q] = proc[q]
    BY <1>3, <1>t DEF Begin
<1>4. ASSUME NEW p \in Proc,
             \/ Freeze(p) \/ Build(p) \/ Stamp(p) \/ Place(p) \/ Register(p) \/ Record(p)
             \/ WritePointer(p) \/ Commit(p) \/ Snapshot(p) \/ Select(p) \/ Choose(p)
             \/ Archive(p) \/ RecordMoved(p) \/ RebuildAlias(p) \/ Kill(p)
      PROVE  AllRebuilding'
    <2>1. proc'[p].at # "manifests" /\ \A q \in Proc : q # p => proc'[q] = proc[q]
        BY <1>4, StepsElsewhere
    <2>2. Rebuilding(p)'
        BY <2>1 DEF Rebuilding
    <2>3. /\ \A v \in Version : row[v] # "none" => row'[v] # "none"
          /\ lineage \subseteq lineage'
        BY <1>4, TablesGrow
    <2> QED BY <2>1, <2>2, <2>3, KeepRebuilding
<1>5. ASSUME NEW p \in Proc, Start(p) PROVE AllRebuilding'
    <2>1. PICK request \in Request : Begin(p, request)
        BY <1>5 DEF Start
    <2>2. proc'[p] = request /\ \A q \in Proc : q # p => proc'[q] = proc[q]
        BY <1>t, <2>1 DEF Begin
    <2>3. request.at = "manifests" => request.pass = 1 /\ request.found = request.todo
        BY RequestAt
    <2>4. Rebuilding(p)'
        BY <2>2, <2>3 DEF Rebuilding
    <2> QED BY <1>5, <2>2, <2>4, TablesGrow, KeepRebuilding
<1>6. ASSUME NEW p \in Proc, RebuildRow(p) PROVE AllRebuilding'
    <2>1. PICK f \in proc[p].todo :
              RegisterVersion(f[1], f[2]) /\ Begin(p, [proc[p] EXCEPT !.todo = @ \ {f}])
        BY <1>6 DEF RebuildRow
    <2>2. /\ proc[p] \in ProcState /\ proc[p].at = "manifests" /\ Rebuilding(p)
          /\ proc[p].todo \subseteq Found /\ proc[p].found \subseteq Found
        BY <1>6, <1>t DEF RebuildRow, AllRebuilding, ProcState
    <2>v. /\ f[1] \in Version /\ f[2] \in From
          /\ \A g \in proc[p].found : g[1] \in Version
        BY <2>1, <2>2 DEF Found, From
    <2>3. /\ \A q \in Proc : q # p => proc'[q] = proc[q]
          /\ proc'[p].at = "manifests" /\ proc'[p].pass = proc[p].pass
          /\ proc'[p].found = proc[p].found /\ proc'[p].todo = proc[p].todo \ {f}
        BY <1>t, <2>1, <2>2 DEF Begin, ProcState
    <2>4. /\ \A u \in Version : row[u] # "none" => row'[u] # "none"
          /\ lineage \subseteq lineage' /\ row'[f[1]] # "none"
        BY <1>6, <2>1, <2>v, TablesGrow, RegisterRow
    <2>5. proc[p].pass = 2 => Linked(p, f[1])'
        BY <2>1, <2>2, <2>3 DEF Rebuilding, Linked, RegisterVersion
    <2>6. Rebuilding(p)'
        BY <2>2, <2>v, <2>3, <2>4, <2>5 DEF Rebuilding, Linked
    <2> QED BY <2>3, <2>4, <2>6, KeepRebuilding
<1>7. ASSUME NEW p \in Proc, RebuildPass(p) PROVE AllRebuilding'
    <2>1. proc[p] \in ProcState /\ Rebuilding(p) /\ proc[p].at = "manifests" /\ proc[p].todo = {}
        BY <1>7, <1>t DEF RebuildPass, AllRebuilding
    <2>2. /\ \A q \in Proc : q # p => proc'[q] = proc[q]
          /\ proc'[p].at = "manifests" =>
                 /\ proc[p].pass = 1 /\ proc'[p].pass = 2
                 /\ proc'[p].todo = proc[p].found /\ proc'[p].found = proc[p].found
        BY <1>7, <1>t, <2>1 DEF RebuildPass, Begin, Passes, Rebuilding, ProcState
    <2>3. UNCHANGED <<row, lineage>>
        BY <1>7 DEF RebuildPass, tables
    <2>4. Rebuilding(p)'
        BY <2>1, <2>2, <2>3 DEF Rebuilding
    <2> QED BY <2>2, <2>3, <2>4, KeepRebuilding
<1> QED BY <1>1, <1>2, <1>4, <1>5, <1>6, <1>7 DEF Next

(* A rebuild that is through with the manifests has restored the row and   *)
(* the known parents of each version it found, in whatever order it read   *)
(* them, whatever was published or killed meanwhile.                       *)
THEOREM RebuildIsComplete == Spec => RebuildRestores
<1>1. Init => AllRebuilding
    BY IdleState DEF Init, AllRebuilding, Rebuilding
<1>2. TypeOK /\ AllReady /\ AllRebuilding /\ [Next]_vars
          => (TypeOK /\ AllReady /\ AllRebuilding)'
    BY StepReady, StepRebuilding
<1> DEFINE Restored(p) ==
        proc[p].at = "manifests" /\ proc'[p].at = "pointers" =>
            \A f \in proc[p].found :
                /\ row'[f[1]] # "none"
                /\ \A g \in proc[p].found : g[1] \in Parents[f[1]] => <<f[1], g[1]>> \in lineage'
<1>3. ASSUME TypeOK, AllReady, AllRebuilding, [Next]_vars, NEW p \in Proc PROVE Restored(p)
    <2> SUFFICES ASSUME proc[p].at = "manifests", proc'[p].at = "pointers" PROVE Restored(p)
        OBVIOUS
    <2>1. Rebuilding(p) /\ proc[p] \in ProcState /\ proc \in [Proc -> ProcState]
        BY <1>3 DEF AllRebuilding, TypeOK
    <2>2. RebuildPass(p)
        <3>1. ~(UNCHANGED vars) /\ ~LoseRegistry
            BY <2>1 DEF vars, LoseRegistry
        <3>2. PICK q \in Proc :
                 \/ Start(q) \/ Freeze(q) \/ Build(q) \/ Stamp(q) \/ Place(q) \/ Register(q) \/ Record(q)
                 \/ WritePointer(q) \/ Commit(q) \/ Snapshot(q) \/ Select(q) \/ Choose(q)
                 \/ Archive(q) \/ RecordMoved(q) \/ RebuildRow(q) \/ RebuildPass(q)
                 \/ RebuildAlias(q) \/ Kill(q)
            BY <1>3, <3>1 DEF Next
        <3>3. ~(Freeze(q) \/ Build(q) \/ Stamp(q) \/ Place(q) \/ Register(q) \/ Record(q)
                \/ WritePointer(q) \/ Commit(q) \/ Snapshot(q) \/ Select(q) \/ Choose(q) \/ Archive(q) \/ RecordMoved(q)
                \/ RebuildAlias(q) \/ Kill(q))
            BY <1>3, StepsElsewhere
        <3>4. ~Start(q)
            BY <2>1 DEF Start, Begin
        <3>5. ~RebuildRow(q)
            BY <2>1 DEF RebuildRow, Begin, ProcState
        <3>6. RebuildPass(q) => q = p
            BY <2>1 DEF RebuildPass, Begin
        <3> QED BY <3>2, <3>3, <3>4, <3>5, <3>6
    <2>3. proc[p].todo = {} /\ proc[p].pass = 2 /\ UNCHANGED <<row, lineage>>
        BY <2>1, <2>2 DEF RebuildPass, Begin, Passes, Rebuilding, ProcState, tables
    <2> QED BY <2>1, <2>3 DEF Rebuilding, Linked
<1>4. TypeOK /\ AllReady /\ AllRebuilding /\ [Next]_vars => [\A p \in Proc : Restored(p)]_vars
    BY <1>3
<1> QED BY <1>1, <1>2, <1>4, InitReady, PTL DEF Spec, RebuildRestores
================================================================================
