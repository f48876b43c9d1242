----------------------------- MODULE ToolsProofs -----------------------------
(* Proofs about the tools that run beside the server: reclaiming storage,    *)
(* the shared playtest with its gateway, deployment, and the reader of the   *)
(* original drop tables with the builder of their catalogue (Drops.tla).     *)
(* Each component has a section of its own, with an inductive invariant that *)
(* says what its step tells of its state.                                    *)
EXTENDS StorageCleanup, Playtest, Gateway, Deploy, Drops, Induction,
        SequenceTheorems

-----------------------------------------------------------------------------
(* Storage reclamation.  The log tells the newest owner of a directory, and  *)
(* tells it of every directory whose database is still attached; whatever is *)
(* on a manifest was seen to be detached and is in the log, so that it will  *)
(* never be attached again.                                                  *)

USE StorageAssumption

Anybody == Identity \cup {NoIdentity}
LogLine == [kind : {"launch", "lock"}, identity : Anybody, dir : Dir \cup {0}]
Knowledge == [pending : Anybody, owner : [Dir -> Anybody]]
ToolStates ==
    [step : {"idle", "snapshot", "delete", "write", "stop", "scan", "remove", "start",
             "failed"},
     owned : SUBSET Mine, rows : SUBSET Record, todo : SUBSET Record, done : SUBSET Record,
     live : SUBSET Identity, owner : [Dir -> Anybody], apply : BOOLEAN, recipe : BOOLEAN]

\* Lock lines name a directory; directory 0 is the mark of a new replica.
Readable(line) == line.kind = "lock" => line.dir \in Dir

StorageTypes ==
    /\ attached \subseteq Identity /\ young \subseteq Dir
    /\ held \in [Dir -> Anybody]
    /\ log \in Seq(LogLine) /\ (\A n \in 1..Len(log) : Readable(log[n])) /\ Len(log) <= MaxLog
    /\ listening \in BOOLEAN /\ identified \in BOOLEAN
    /\ manifest \subseteq Record /\ tool \in ToolStates

Logged(i) == \E n \in 1..Len(log) : log[n].identity = i
Gone(R) == \A r \in R : r.identity \notin attached /\ Logged(r.identity)

WorldHolds ==
    /\ \A d \in Dir : held[d] # NoIdentity => Logged(held[d])
    /\ \A i \in attached : Logged(i)
    /\ \A i, j \in attached : NameOf[i] = NameOf[j] => i = j
    /\ LinesRead(log).pending = NoIdentity
    /\ \A d \in Dir : ReadReplicaIdentities[d] # NoIdentity
                         => Logged(ReadReplicaIdentities[d])
    /\ \A d \in Dir : held[d] \in attached => ReadReplicaIdentities[d] = held[d]

ToolHolds ==
    /\ Gone(manifest)
    /\ tool.step = "delete" =>
         /\ \A r \in tool.todo : /\ r.identity \in Mine /\ Logged(r.identity)
                                 /\ NameOf[r.identity] \notin Keep
         /\ Gone(tool.rows)
         /\ tool.apply => Gone(tool.done)
    /\ tool.step = "remove" => Gone(tool.todo)
    /\ tool.step = "remove" /\ ~listening => tool.owner = ReadReplicaIdentities
    /\ tool.recipe => tool.step \in {"scan", "remove"}

StorageInv == StorageTypes /\ WorldHolds /\ ToolHolds

-----------------------------------------------------------------------------
(* What the log says                                                         *)

LEMMA AfterLineType ==
    ASSUME NEW was \in Knowledge, NEW line \in LogLine, Readable(line)
    PROVE  AfterLine(was, line) \in Knowledge
<1>1. line.identity \in Anybody /\ line.dir \in Dir \cup {0} /\ was.pending \in Anybody
      /\ was.owner \in [Dir -> Anybody]
  BY DEF LogLine, Knowledge
<1>2. [was EXCEPT !.pending = line.identity] \in Knowledge  BY <1>1 DEF Knowledge
<1>3. ASSUME NEW i \in Anybody, NEW d \in Dir
      PROVE  [pending |-> NoIdentity, owner |-> [was.owner EXCEPT ![d] = i]] \in Knowledge
  <2>1. [was.owner EXCEPT ![d] = i] \in [Dir -> Anybody]  BY <1>1
  <2> QED BY <2>1 DEF Knowledge, Anybody
<1>4. CASE line.kind = "launch"  BY <1>1, <1>2, <1>3, <1>4 DEF AfterLine
<1>5. CASE line.kind # "launch"
  <2>1. line.dir \in Dir  BY <1>5 DEF LogLine, Readable
  <2> QED BY <1>1, <1>3, <1>5, <2>1 DEF AfterLine
<1> QED BY <1>4, <1>5

NoneRead == [pending |-> NoIdentity, owner |-> NoOwners]

Reads(lines, f) ==
    /\ f \in [0..Len(lines) -> Knowledge] /\ f[0] = NoneRead
    /\ \A n \in 1..Len(lines) : f[n] = AfterLine(f[n - 1], lines[n])

Legible(lines) == lines \in Seq(LogLine) /\ \A n \in 1..Len(lines) : Readable(lines[n])

\* The recursion over the lines of a log has a solution, and it is what the
\* tool reads.
LEMMA ReadExists ==
    ASSUME NEW lines, Legible(lines)
    PROVE  \E f : Reads(lines, f)
<1> DEFINE D == [k \in 1..Len(lines) |-> [w \in Knowledge |-> AfterLine(w, lines[k])]]
<1>1. Len(lines) \in Nat /\ \A k \in 1..Len(lines) : lines[k] \in LogLine /\ Readable(lines[k])
  BY DEF Legible
<1>2. NoneRead \in Knowledge  BY DEF NoneRead, Knowledge, NoOwners, Anybody
<1>3. \A k \in 1..Len(lines), w \in Knowledge :
         D[k][w] = AfterLine(w, lines[k]) /\ D[k][w] \in Knowledge
  BY <1>1, AfterLineType
<1>4. Recurs(Len(lines), Knowledge, NoneRead, D)
  <2> HIDE DEF D
  <2> QED BY <1>1, <1>2, <1>3, RecursionExists
<1>5. PICK f \in [0..Len(lines) -> Knowledge] :
         f[0] = NoneRead /\ \A k \in 1..Len(lines) : f[k] = D[k][f[k - 1]]
  BY <1>4 DEF Recurs
<1>6. \A k \in 1..Len(lines) : f[k - 1] \in Knowledge  BY <1>1, <1>5
<1> HIDE DEF D
<1>7. \A k \in 1..Len(lines) : f[k] = AfterLine(f[k - 1], lines[k])  BY <1>3, <1>5, <1>6
<1> QED BY <1>5, <1>7 DEF Reads

\* Any two solutions agree on what both have read.
LEMMA ReadAgrees ==
    ASSUME NEW lines, NEW more, Len(lines) \in Nat, Len(more) \in Nat,
           Len(lines) <= Len(more), \A n \in 1..Len(lines) : more[n] = lines[n],
           NEW f, Reads(lines, f), NEW g, Reads(more, g)
    PROVE  \A n \in 0..Len(lines) : f[n] = g[n]
<1> DEFINE C == {n \in Nat : n <= Len(lines) => f[n] = g[n]}
<1>1. 0 \in C  BY DEF Reads
<1>2. ASSUME NEW n \in Nat, n \in C PROVE n + 1 \in C
  <2> SUFFICES ASSUME n + 1 <= Len(lines) PROVE f[n + 1] = g[n + 1]
    OBVIOUS
  <2>1. n + 1 \in 1..Len(lines) /\ n + 1 \in 1..Len(more) /\ (n + 1) - 1 = n /\ f[n] = g[n]
    BY <1>2
  <2>2. f[n + 1] = AfterLine(f[n], lines[n + 1]) /\ g[n + 1] = AfterLine(g[n], more[n + 1])
    BY <2>1 DEF Reads
  <2> QED BY <2>1, <2>2
<1>3. \A n \in Nat : n \in C
  <2> HIDE DEF C
  <2> QED BY <1>1, <1>2, SetInduction
<1> QED BY <1>3

LEMMA ReadIs ==
    ASSUME NEW lines, Legible(lines), NEW f, Reads(lines, f)
    PROVE  LinesRead(lines) = f[Len(lines)]
<1> DEFINE Solves(h) == h = [n \in 0..Len(lines) |->
                               IF n = 0 THEN NoneRead ELSE AfterLine(h[n - 1], lines[n])]
           read == CHOOSE h : Solves(h)
<1>1. Len(lines) \in Nat  BY DEF Legible
<1>2. Solves(f)
  <2>1. f = [n \in 0..Len(lines) |-> f[n]]  BY DEF Reads
  <2>2. \A n \in 0..Len(lines) :
           f[n] = IF n = 0 THEN NoneRead ELSE AfterLine(f[n - 1], lines[n])
    BY <1>1 DEF Reads
  <2> QED BY <2>1, <2>2
<1>3. LinesRead(lines) = read[Len(lines)]  BY DEF LinesRead, NoneRead
<1>4. Solves(read)
  <2> HIDE DEF Solves
  <2> QED BY <1>2
<1> DEFINE C == {n \in Nat : n <= Len(lines) => f[n] = read[n]}
<1>5. 0 \in C
  <2> HIDE DEF read
  <2> QED BY <1>1, <1>2, <1>4
<1>6. ASSUME NEW n \in Nat, n \in C PROVE n + 1 \in C
  <2> HIDE DEF read
  <2> SUFFICES ASSUME n + 1 <= Len(lines) PROVE f[n + 1] = read[n + 1]
    OBVIOUS
  <2>1. n + 1 \in 0..Len(lines) /\ n + 1 # 0 /\ (n + 1) - 1 = n /\ f[n] = read[n]
    BY <1>1, <1>6
  <2>2. f[n + 1] = AfterLine(f[n], lines[n + 1])  BY <1>2, <2>1
  <2>3. read[n + 1] = AfterLine(read[n], lines[n + 1])  BY <1>4, <2>1
  <2> QED BY <2>1, <2>2, <2>3
<1>7. \A n \in Nat : n \in C
  <2> HIDE DEF C
  <2> QED BY <1>5, <1>6, SetInduction
<1> QED BY <1>1, <1>3, <1>7

LEMMA ReadNone == LinesRead(<<>>) = NoneRead
<1>1. Legible(<<>>) /\ Len(<<>>) = 0  BY DEF Legible
<1>2. PICK f : Reads(<<>>, f)  BY <1>1, ReadExists
<1> QED BY <1>1, <1>2, ReadIs DEF Reads

LEMMA ReadType ==
    ASSUME NEW lines, Legible(lines)
    PROVE  LinesRead(lines) \in Knowledge
<1>1. PICK f : Reads(lines, f)  BY ReadExists
<1>2. Len(lines) \in Nat  BY DEF Legible
<1> QED BY <1>1, <1>2, ReadIs DEF Reads

\* One more line.
LEMMA ReadAppend ==
    ASSUME NEW lines, Legible(lines), NEW line \in LogLine, Readable(line)
    PROVE  /\ Legible(Append(lines, line))
           /\ LinesRead(Append(lines, line)) = AfterLine(LinesRead(lines), line)
<1> DEFINE more == Append(lines, line)
<1>1. /\ Len(lines) \in Nat /\ more \in Seq(LogLine) /\ Len(more) = Len(lines) + 1
      /\ more[Len(lines) + 1] = line /\ \A n \in 1..Len(lines) : more[n] = lines[n]
  BY AppendProperties DEF Legible
<1>2. Legible(more)  BY <1>1 DEF Legible
<1> HIDE DEF more
<1>3. PICK f : Reads(lines, f)  BY ReadExists
<1>4. PICK g : Reads(more, g)  BY <1>2, ReadExists
<1>5. f[Len(lines)] = g[Len(lines)]
  <2>1. \A n \in 0..Len(lines) : f[n] = g[n]  BY <1>1, <1>3, <1>4, ReadAgrees
  <2> QED BY <1>1, <2>1
<1>6. g[Len(more)] = AfterLine(g[Len(lines)], line)  BY <1>1, <1>4 DEF Reads
<1>7. LinesRead(lines) = f[Len(lines)] /\ LinesRead(more) = g[Len(more)]
  BY <1>2, <1>3, <1>4, ReadIs
<1> QED BY <1>2, <1>5, <1>6, <1>7 DEF more

\* A launch and its lock line.
Launched(lines, more, i, d) ==
    /\ Legible(more) /\ Len(more) = Len(lines) + 2
    /\ \A n \in 1..Len(lines) : more[n] = lines[n]
    /\ more[Len(lines) + 1].identity = i
    /\ LinesRead(more) = [pending |-> NoIdentity,
                          owner |-> [LinesRead(lines).owner EXCEPT ![d] = i]]

LEMMA ReadPair ==
    ASSUME NEW lines, Legible(lines), LinesRead(lines).pending = NoIdentity,
           NEW i \in Identity, NEW d \in Dir, NEW e, e \in {0, d}
    PROVE  Launched(lines, lines \o <<LaunchLine(i, e), LockLine(d)>>, i, d)
<1> DEFINE one == Append(lines, LaunchLine(i, e))
           more == Append(one, LockLine(d))
<1>1. LaunchLine(i, e) \in LogLine /\ LockLine(d) \in LogLine
      /\ Readable(LaunchLine(i, e)) /\ Readable(LockLine(d))
  BY DEF LaunchLine, LockLine, LogLine, Anybody, Readable
<1>2. lines \in Seq(LogLine) /\ Len(lines) \in Nat  BY DEF Legible
<1>3. /\ one \in Seq(LogLine) /\ Len(one) = Len(lines) + 1
      /\ one[Len(lines) + 1] = LaunchLine(i, e) /\ \A n \in 1..Len(lines) : one[n] = lines[n]
  BY <1>1, <1>2, AppendProperties
<1>4. /\ more \in Seq(LogLine) /\ Len(more) = Len(one) + 1
      /\ more[Len(one) + 1] = LockLine(d) /\ \A n \in 1..Len(one) : more[n] = one[n]
  <2> HIDE DEF one
  <2> QED BY <1>1, <1>3, AppendProperties
<1>5. lines \o <<LaunchLine(i, e), LockLine(d)>> = more
  <2> DEFINE a == LaunchLine(i, e)
             b == LockLine(d)
             ext == lines \o <<a, b>>
  <2> HIDE DEF a, b
  <2>1. <<a, b>> \in Seq(LogLine) /\ Len(<<a, b>>) = 2 /\ <<a, b>>[1] = a /\ <<a, b>>[2] = b
    BY <1>1 DEF a, b
  <2>2. /\ ext \in Seq(LogLine) /\ Len(ext) = Len(lines) + 2
        /\ \A n \in 1..Len(ext) : ext[n] = IF n <= Len(lines) THEN lines[n]
                                            ELSE <<a, b>>[n - Len(lines)]
    BY <1>2, <2>1, ConcatProperties
  <2>3. ext[Len(lines) + 1] = a /\ ext[Len(lines) + 2] = b  BY <1>2, <2>1, <2>2
  <2>4. \A n \in 1..Len(ext) : ext[n] = more[n]
    <3> SUFFICES ASSUME NEW n \in 1..Len(ext) PROVE ext[n] = more[n]
      OBVIOUS
    <3>1. CASE n <= Len(lines)
      <4>1. n \in 1..Len(lines) /\ n \in 1..Len(one)  BY <1>2, <1>3, <3>1
      <4> HIDE DEF one, more, ext
      <4> QED BY <1>3, <1>4, <2>2, <3>1, <4>1
    <3>2. CASE n = Len(lines) + 1
      <4>1. n \in 1..Len(one)  BY <1>2, <1>3, <3>2
      <4> HIDE DEF one, more, ext
      <4> QED BY <1>3, <1>4, <2>3, <3>2, <4>1 DEF a
    <3>3. CASE n = Len(lines) + 2
      <4>1. n = Len(one) + 1  BY <1>2, <1>3, <3>3
      <4> HIDE DEF one, more, ext
      <4> QED BY <1>4, <2>3, <3>3, <4>1 DEF b
    <3> QED BY <1>2, <2>2, <3>1, <3>2, <3>3
  <2>5. Len(ext) = Len(more)  BY <1>2, <1>3, <1>4, <2>2
  <2> HIDE DEF ext, more
  <2>6. ext = more  BY <1>4, <2>2, <2>4, <2>5, SeqEqual
  <2> QED BY <2>6 DEF ext, a, b
<1> HIDE DEF one, more
<1>6. /\ Legible(one) /\ LinesRead(one) = AfterLine(LinesRead(lines), LaunchLine(i, e))
  BY <1>1, ReadAppend DEF one
<1>7. /\ Legible(more) /\ LinesRead(more) = AfterLine(LinesRead(one), LockLine(d))
  BY <1>1, <1>6, ReadAppend DEF more
<1> DEFINE w == LinesRead(lines)
           next == [w.owner EXCEPT ![d] = i]
<1>8. w \in Knowledge /\ w.pending = NoIdentity /\ w.owner \in [Dir -> Anybody]
  BY ReadType DEF Knowledge
<1>9. LinesRead(more) = [pending |-> NoIdentity, owner |-> next]
  <2>1. CASE e = 0
    <3>1. LinesRead(one) = [pending |-> i, owner |-> w.owner]
      BY <1>6, <1>8, <2>1 DEF AfterLine, LaunchLine, Knowledge
    <3>2. i # NoIdentity
      OBVIOUS
    <3> HIDE DEF w
    <3> QED BY <1>7, <3>1, <3>2 DEF AfterLine, LockLine
  <2>2. CASE e = d
    <3>1. d # 0
      OBVIOUS
    <3>2. LinesRead(one) = [pending |-> NoIdentity, owner |-> next]
      BY <1>6, <2>2, <3>1 DEF AfterLine, LaunchLine
    <3> HIDE DEF w, next
    <3> QED BY <1>7, <3>2 DEF AfterLine, LockLine
  <2> QED BY <2>1, <2>2
<1>10. \A n \in 1..Len(lines) : more[n] = lines[n]
  <2>1. \A n \in 1..Len(lines) : n \in 1..Len(one)  BY <1>2, <1>3
  <2> QED BY <1>3, <1>4, <2>1
<1>11. more[Len(lines) + 1].identity = i
  <2>1. Len(lines) + 1 \in 1..Len(one)  BY <1>2, <1>3
  <2> QED BY <1>3, <1>4, <2>1 DEF LaunchLine
<1>12. Len(more) = Len(lines) + 2  BY <1>2, <1>3, <1>4
<1> QED BY <1>5, <1>7, <1>9, <1>10, <1>11, <1>12 DEF Launched

-----------------------------------------------------------------------------
(* What stays                                                                *)

LEMMA ToolFields ==
    ASSUME StorageTypes
    PROVE  /\ tool.owned \subseteq Mine /\ tool.rows \subseteq Record
           /\ tool.todo \subseteq Record /\ tool.done \subseteq Record
           /\ tool.live \subseteq Identity /\ tool.owner \in [Dir -> Anybody]
           /\ tool.apply \in BOOLEAN /\ tool.recipe \in BOOLEAN
           /\ tool = [step |-> tool.step, owned |-> tool.owned, rows |-> tool.rows,
                      todo |-> tool.todo, done |-> tool.done, live |-> tool.live,
                      owner |-> tool.owner, apply |-> tool.apply, recipe |-> tool.recipe]
  BY DEF StorageTypes, ToolStates

LEMMA Reading ==
    ASSUME StorageTypes
    PROVE  /\ Legible(log) /\ Len(log) \in Nat
           /\ ReadReplicaIdentities \in [Dir -> Anybody]
           /\ ReadReplicaIdentities = LinesRead(log).owner
<1>1. Legible(log) /\ Len(log) \in Nat  BY DEF StorageTypes, Legible
<1>2. LinesRead(log) \in Knowledge  BY <1>1, ReadType
<1> QED BY <1>1, <1>2 DEF ReadReplicaIdentities, Knowledge

LEMMA IdleFields ==
    /\ Idle \in ToolStates /\ [Idle EXCEPT !.step = "failed"] \in ToolStates
    /\ Idle.step = "idle" /\ [Idle EXCEPT !.step = "failed"].step = "failed"
    /\ ~Idle.recipe /\ ~[Idle EXCEPT !.step = "failed"].recipe
  BY DEF Idle, ToolStates, NoOwners, Anybody

\* What is in the log stays in the log.
LEMMA LoggedStays ==
    ASSUME Len(log) \in Nat, Len(log') \in Nat, Len(log) <= Len(log'),
           \A n \in 1..Len(log) : log'[n] = log[n]
    PROVE  \A i : Logged(i) => Logged(i)'
<1>1. ASSUME NEW i, Logged(i) PROVE Logged(i)'
  <2>1. PICK n \in 1..Len(log) : log[n].identity = i  BY <1>1 DEF Logged
  <2>2. n \in 1..Len(log') /\ log'[n].identity = i  BY <2>1
  <2> QED BY <2>2 DEF Logged
<1> QED BY <1>1

LEMMA WorldKept ==
    ASSUME StorageTypes, WorldHolds, log' = log, attached' \subseteq attached,
           \A d \in Dir : held'[d] \in {held[d], NoIdentity}
    PROVE  WorldHolds'
<1>1. ReadReplicaIdentities' = ReadReplicaIdentities  BY DEF ReadReplicaIdentities
<1>2. \A i : Logged(i)' = Logged(i)  BY DEF Logged
<1>3. NoIdentity \notin attached'  BY DEF StorageTypes
<1>4. \A d \in Dir : held'[d] # NoIdentity => Logged(held'[d])  BY DEF WorldHolds
<1>5. \A d \in Dir : held'[d] \in attached' => ReadReplicaIdentities[d] = held'[d]
  BY <1>3 DEF WorldHolds
<1>6. \A i, j \in attached' : NameOf[i] = NameOf[j] => i = j  BY DEF WorldHolds
<1>7. /\ \A i \in attached' : Logged(i)
      /\ LinesRead(log).pending = NoIdentity
      /\ \A d \in Dir : ReadReplicaIdentities[d] # NoIdentity
                           => Logged(ReadReplicaIdentities[d])
  BY DEF WorldHolds
<1>8. LinesRead(log)' = LinesRead(log)
  OBVIOUS
<1>9. /\ (\A d \in Dir : held[d] # NoIdentity => Logged(held[d]))'
      /\ (\A i \in attached : Logged(i))'
      /\ (\A d \in Dir : ReadReplicaIdentities[d] # NoIdentity
                           => Logged(ReadReplicaIdentities[d]))'
  BY <1>1, <1>4, <1>7 DEF Logged
<1> QED BY <1>1, <1>5, <1>6, <1>7, <1>8, <1>9 DEF WorldHolds

LEMMA ToolKept ==
    ASSUME ToolHolds, UNCHANGED <<tool, manifest>>,
           \A i : Logged(i) => Logged(i)',
           \A i : i \notin attached /\ Logged(i) => i \notin attached',
           tool.step = "remove" /\ ~listening'
             => ~listening /\ ReadReplicaIdentities' = ReadReplicaIdentities
    PROVE  ToolHolds'
<1>1. Gone(manifest)'  BY DEF ToolHolds, Gone
<1>2. Gone(tool.rows) => Gone(tool.rows)'  BY DEF Gone
<1>3. Gone(tool.done) => Gone(tool.done)'  BY DEF Gone
<1>4. Gone(tool.todo) => Gone(tool.todo)'  BY DEF Gone
<1>5. (\A r \in tool.todo : /\ r.identity \in Mine /\ Logged(r.identity)
                            /\ NameOf[r.identity] \notin Keep)
      => (\A r \in tool.todo : /\ r.identity \in Mine /\ Logged(r.identity)
                               /\ NameOf[r.identity] \notin Keep)'
  <2> SUFFICES ASSUME \A r \in tool.todo : /\ r.identity \in Mine /\ Logged(r.identity)
                                           /\ NameOf[r.identity] \notin Keep
               PROVE  \A r \in tool'.todo : /\ r.identity \in Mine /\ Logged(r.identity)'
                                            /\ NameOf[r.identity] \notin Keep
    OBVIOUS
  <2> QED OBVIOUS
<1> QED BY <1>1, <1>2, <1>3, <1>4, <1>5 DEF ToolHolds

-----------------------------------------------------------------------------
(* The server and its users                                                  *)

LEMMA LaunchKeeps ==
    ASSUME StorageInv, NEW i \in Identity, NEW d \in Dir, NEW e \in {0, d},
           log' = log \o <<LaunchLine(i, e), LockLine(d)>>, Len(log) + 2 <= MaxLog,
           listening, attached' = attached \cup {i}, held' = [held EXCEPT ![d] = i],
           young' \subseteq Dir, UNCHANGED <<server, manifest, tool>>,
           i \in attached \/ ((\A n \in 1..Len(log) : log[n].identity # i)
                                /\ \A j \in attached : NameOf[j] # NameOf[i])
    PROVE  StorageInv'
<1>1. StorageTypes /\ WorldHolds /\ ToolHolds  BY DEF StorageInv
<1> DEFINE owner == ReadReplicaIdentities
<1>2. /\ Legible(log) /\ Len(log) \in Nat /\ owner \in [Dir -> Anybody]
      /\ LinesRead(log).owner = owner
  BY <1>1, Reading
<1>3. LinesRead(log).pending = NoIdentity  BY <1>1 DEF WorldHolds
<1> HIDE DEF owner
<1>4. /\ Legible(log') /\ Len(log') = Len(log) + 2
      /\ \A n \in 1..Len(log) : log'[n] = log[n]
      /\ log'[Len(log) + 1].identity = i
      /\ LinesRead(log') = [pending |-> NoIdentity, owner |-> [owner EXCEPT ![d] = i]]
  <2> DEFINE more == log \o <<LaunchLine(i, e), LockLine(d)>>
  <2>1. Launched(log, more, i, d)  BY <1>2, <1>3, ReadPair
  <2>2. log' = more
    OBVIOUS
  <2> HIDE DEF more
  <2> QED BY <1>2, <2>1, <2>2 DEF Launched
<1>5. owner' = [owner EXCEPT ![d] = i]  BY <1>4 DEF owner, ReadReplicaIdentities
<1>6. owner'[d] = i /\ \A x \in Dir : x # d => owner'[x] = owner[x]  BY <1>2, <1>5
<1>7. held'[d] = i /\ (\A x \in Dir : x # d => held'[x] = held[x])
      /\ held' \in [Dir -> Anybody]
  BY <1>1 DEF StorageTypes, Anybody
<1>8. \A j : Logged(j) => Logged(j)'  BY <1>2, <1>4, LoggedStays
<1>9. Logged(i)'
  <2>1. Len(log) + 1 \in 1..Len(log')  BY <1>2, <1>4
  <2> QED BY <1>4, <2>1 DEF Logged
<1>10. i \in attached \/ ~Logged(i)  BY DEF Logged
<1>11. \A j : j \notin attached /\ Logged(j) => j \notin attached'  BY <1>10
<1>12. ASSUME NEW x \in Dir \ {d}, held'[x] \in attached' PROVE held[x] \in attached
  <2>1. held[x] = held'[x] /\ held[x] # NoIdentity
    BY <1>1, <1>7, <1>12 DEF StorageTypes
  <2>2. Logged(held[x])  BY <1>1, <2>1 DEF WorldHolds
  <2> QED BY <1>10, <1>12, <2>1, <2>2
<1>13. StorageTypes'
  <2>1. log' \in Seq(LogLine) /\ (\A n \in 1..Len(log') : Readable(log'[n])) /\ Len(log') <= MaxLog
    BY <1>4 DEF Legible
  <2> QED BY <1>1, <1>7, <2>1 DEF StorageTypes, server
<1>14. WorldHolds'
  <2>1. (\A x \in Dir : held[x] # NoIdentity => Logged(held[x]))'
    <3> SUFFICES ASSUME NEW x \in Dir, held'[x] # NoIdentity PROVE Logged(held[x])'
      OBVIOUS
    <3>1. CASE x = d  BY <1>7, <1>9, <3>1 DEF Logged
    <3>2. CASE x # d  BY <1>1, <1>7, <1>8, <3>2 DEF WorldHolds, Logged
    <3> QED BY <3>1, <3>2
  <2>2. (\A j \in attached : Logged(j))'  BY <1>1, <1>8, <1>9 DEF WorldHolds
  <2>3. \A j, k \in attached' : NameOf[j] = NameOf[k] => j = k  BY <1>1 DEF WorldHolds
  <2>4. (\A x \in Dir : ReadReplicaIdentities[x] # NoIdentity
                           => Logged(ReadReplicaIdentities[x]))'
    <3> SUFFICES ASSUME NEW x \in Dir, owner'[x] # NoIdentity PROVE Logged(owner[x])'
      BY DEF owner
    <3>1. CASE x = d  BY <1>6, <1>9, <3>1 DEF Logged
    <3>2. CASE x # d
      <4>1. owner[x] # NoIdentity /\ owner'[x] = owner[x]  BY <1>6, <3>2
      <4>2. Logged(owner[x])  BY <1>1, <4>1 DEF WorldHolds, owner
      <4> HIDE DEF owner
      <4> QED BY <1>8, <4>1, <4>2 DEF Logged
    <3> QED BY <3>1, <3>2
  <2>5. \A x \in Dir : held'[x] \in attached' => owner'[x] = held'[x]
    <3> SUFFICES ASSUME NEW x \in Dir, held'[x] \in attached' PROVE owner'[x] = held'[x]
      OBVIOUS
    <3>1. x # d => held[x] \in attached /\ owner[x] = held[x]
      BY <1>1, <1>12 DEF WorldHolds, owner
    <3> QED BY <1>6, <1>7, <3>1
  <2>6. LinesRead(log').pending = NoIdentity  BY <1>4
  <2> QED BY <2>1, <2>2, <2>3, <2>4, <2>5, <2>6 DEF WorldHolds, owner
<1>15. ToolHolds'
  <2>1. listening'  BY DEF server
  <2> QED BY <1>1, <1>8, <1>11, <2>1, ToolKept
<1> QED BY <1>13, <1>14, <1>15 DEF StorageInv

LEMMA PublishesKeep ==
    ASSUME StorageInv, NEW i \in Identity, NEW d \in Dir, Publish(i, d)
    PROVE  StorageInv'
<1>1. young \subseteq Dir  BY DEF StorageInv, StorageTypes
<1> QED BY <1>1, LaunchKeeps DEF Publish

LEMMA RelaunchKeeps ==
    ASSUME StorageInv, NEW i \in Identity, NEW d \in Dir, Relaunch(i, d)
    PROVE  StorageInv'
<1>1. young \subseteq Dir /\ held \in [Dir -> Anybody]  BY DEF StorageInv, StorageTypes
<1>2. attached' = attached \cup {i} /\ held' = [held EXCEPT ![d] = i]
  BY <1>1 DEF Relaunch
<1> QED BY <1>1, <1>2, LaunchKeeps DEF Relaunch

\* Databases and files go, the age of a directory changes, the server is
\* stopped or started between runs: the tool's knowledge stands.
LEMMA OthersKeep ==
    ASSUME StorageInv, (\E i \in Identity : Drop(i)) \/ Age \/ Toggle
    PROVE  StorageInv'
<1>1. StorageTypes /\ WorldHolds /\ ToolHolds  BY DEF StorageInv
<1>2. /\ attached' \subseteq attached /\ UNCHANGED <<held, log, manifest, tool>>
      /\ young' \subseteq Dir /\ listening' \in BOOLEAN /\ identified' \in BOOLEAN
      /\ tool.step = "remove" => listening' = listening
  BY <1>1 DEF Drop, Age, Toggle, server, StorageTypes
<1>3. StorageTypes'  BY <1>1, <1>2 DEF StorageTypes
<1>4. WorldHolds'  BY <1>1, <1>2, WorldKept
<1>5. /\ \A i : Logged(i) => Logged(i)'
      /\ \A i : i \notin attached /\ Logged(i) => i \notin attached'
  BY <1>2 DEF Logged
<1>6. ReadReplicaIdentities' = ReadReplicaIdentities  BY <1>2 DEF ReadReplicaIdentities
<1>7. ToolHolds'  BY <1>1, <1>2, <1>5, <1>6, ToolKept
<1> QED BY <1>3, <1>4, <1>7 DEF StorageInv

-----------------------------------------------------------------------------
(* The runs of the tool                                                      *)

\* Steps that leave the log and the manifest, and that remove no more than
\* files and databases.
LEMMA RunKeeps ==
    ASSUME StorageInv, log' = log, attached' \subseteq attached, young' = young,
           held' \in [Dir -> Anybody], \A d \in Dir : held'[d] \in {held[d], NoIdentity},
           listening' \in BOOLEAN, identified' \in BOOLEAN,
           manifest' \subseteq Record, tool' \in ToolStates,
           Gone(manifest)',
           tool'.step = "delete" =>
             /\ (\A r \in tool.todo : /\ r.identity \in Mine /\ Logged(r.identity)
                                      /\ NameOf[r.identity] \notin Keep)'
             /\ Gone(tool.rows)' /\ (tool.apply => Gone(tool.done))',
           tool'.step = "remove" => Gone(tool.todo)',
           tool'.step = "remove" /\ ~listening' => tool'.owner = ReadReplicaIdentities,
           tool'.recipe => tool'.step \in {"scan", "remove"}
    PROVE  StorageInv'
<1>1. StorageTypes /\ WorldHolds  BY DEF StorageInv
<1>2. StorageTypes'  BY <1>1 DEF StorageTypes
<1>3. WorldHolds'  BY <1>1, WorldKept
<1>4. ReadReplicaIdentities' = ReadReplicaIdentities  BY DEF ReadReplicaIdentities
<1>5. ToolHolds'  BY <1>4 DEF ToolHolds
<1> QED BY <1>2, <1>3, <1>5 DEF StorageInv

\* What is gone, once nothing but databases goes.
LEMMA StillGone ==
    ASSUME log' = log, attached' \subseteq attached
    PROVE  /\ \A i : Logged(i)' = Logged(i)
           /\ Gone(manifest) /\ manifest' = manifest => Gone(manifest)'
           /\ Gone(tool.rows) /\ tool'.rows = tool.rows => Gone(tool.rows)'
           /\ Gone(tool.done) /\ tool'.done = tool.done => Gone(tool.done)'
  BY DEF Gone, Logged

LEMMA StartsKeep ==
    ASSUME StorageInv, StartEntries \/ StartFiles
    PROVE  StorageInv'
<1>1. StorageTypes /\ ToolHolds  BY DEF StorageInv
<1>2. /\ UNCHANGED <<attached, held, young, log, listening, identified, manifest>>
      /\ tool.step \in {"idle", "failed"}
  BY DEF StartEntries, StartFiles, world, server
<1>3. \/ \E a \in BOOLEAN : tool' = [tool EXCEPT !.step = "snapshot", !.owned = OwnedNames,
                                                 !.apply = a]
      \/ \E l \in {OwnedNames, {}}, s \in {"stop", "scan"} :
           tool' = [tool EXCEPT !.step = s, !.live = l]
  <2>1. CASE StartEntries  BY <2>1 DEF StartEntries
  <2>2. CASE StartFiles  BY <2>2 DEF StartFiles
  <2> QED BY <2>1, <2>2
<1>4. OwnedNames \subseteq Mine /\ OwnedNames \subseteq Identity
  BY <1>1 DEF OwnedNames, StorageTypes
<1>5. /\ tool' \in ToolStates /\ tool'.recipe = tool.recipe
      /\ tool'.step \in {"snapshot", "stop", "scan"}
  <2>1. tool \in ToolStates  BY <1>1 DEF StorageTypes
  <2>2. ASSUME NEW a \in BOOLEAN,
               tool' = [tool EXCEPT !.step = "snapshot", !.owned = OwnedNames, !.apply = a]
        PROVE  /\ tool' \in ToolStates /\ tool'.recipe = tool.recipe
               /\ tool'.step = "snapshot"
    BY <1>4, <2>1, <2>2 DEF ToolStates
  <2>3. ASSUME NEW l \in {OwnedNames, {}}, NEW s \in {"stop", "scan"},
               tool' = [tool EXCEPT !.step = s, !.live = l]
        PROVE  tool' \in ToolStates /\ tool'.recipe = tool.recipe /\ tool'.step = s
    <3>1. l \subseteq Identity  BY <1>4
    <3> QED BY <2>1, <2>3, <3>1 DEF ToolStates
  <2> QED BY <1>3, <2>2, <2>3
<1>6. ~tool.recipe /\ Gone(manifest)'  BY <1>1, <1>2, StillGone DEF ToolHolds
<1> QED BY <1>1, <1>2, <1>5, <1>6, RunKeeps DEF StorageTypes

LEMMA SnapshotKeeps ==
    ASSUME StorageInv, TakeSnapshot
    PROVE  StorageInv'
<1> DEFINE rows == BuildSnapshot
           plan == PlanEntries(rows, tool.owned)
<1>1. StorageTypes /\ ToolHolds /\ WorldHolds  BY DEF StorageInv
<1>2. /\ UNCHANGED <<attached, held, young, log, listening, identified, manifest>>
      /\ tool.step = "snapshot"
  BY DEF TakeSnapshot, world, server
<1>3. PICK orphans \in SUBSET Orphans(rows, tool.owned) :
         tool' = [tool EXCEPT !.step = "delete", !.done = {}, !.rows = orphans, !.todo = plan]
  BY DEF TakeSnapshot
<1>4. \A r \in rows : r \in Record /\ Logged(r.identity)
  <2> SUFFICES ASSUME NEW r \in rows PROVE r \in Record /\ Logged(r.identity)
    OBVIOUS
  <2>1. PICK d \in Dir : /\ ReadReplicaIdentities[d] # NoIdentity
                         /\ r = [dir |-> d, identity |-> ReadReplicaIdentities[d]]
    BY DEF BuildSnapshot
  <2>2. ReadReplicaIdentities[d] \in Identity  BY <1>1, <2>1, Reading DEF Anybody
  <2>3. Logged(ReadReplicaIdentities[d])  BY <1>1, <2>1 DEF WorldHolds
  <2> QED BY <2>1, <2>2, <2>3 DEF Record
<1> HIDE DEF rows
<1>5. \A r \in plan : /\ r \in Record /\ r.identity \in Mine /\ Logged(r.identity)
                      /\ NameOf[r.identity] \notin Keep
  BY <1>1, <1>4, ToolFields DEF PlanEntries, RetentionReason
<1>6. \A r \in orphans : r \in Record /\ r.identity \notin attached /\ Logged(r.identity)
  BY <1>4 DEF Orphans, Probe
<1> HIDE DEF plan
<1>7. /\ tool' \in ToolStates /\ tool'.step = "delete" /\ tool'.todo = plan
      /\ tool'.rows = orphans /\ tool'.done = {} /\ tool'.recipe = tool.recipe
  <2>1. tool \in ToolStates /\ orphans \in SUBSET Record /\ plan \in SUBSET Record
    BY <1>1, <1>5, <1>6 DEF StorageTypes
  <2> QED BY <1>3, <2>1 DEF ToolStates
<1>8. /\ (\A r \in tool.todo : /\ r.identity \in Mine /\ Logged(r.identity)
                               /\ NameOf[r.identity] \notin Keep)'
      /\ Gone(tool.rows)' /\ Gone(tool.done)'
  BY <1>2, <1>5, <1>6, <1>7 DEF Gone, Logged
<1>9. ~tool.recipe /\ Gone(manifest)'  BY <1>1, <1>2, StillGone DEF ToolHolds
<1> QED BY <1>1, <1>2, <1>7, <1>8, <1>9, RunKeeps DEF StorageTypes

\* After a deletion by name the database of the record has no entry.
LEMMA DeleteKeeps ==
    ASSUME StorageInv, DeleteEntry
    PROVE  /\ StorageInv'
           /\ \A i \in attached \ attached' : i \in Mine /\ NameOf[i] \notin Keep
<1>1. StorageTypes /\ ToolHolds /\ WorldHolds  BY DEF StorageInv
<1>2. /\ UNCHANGED <<held, young, log, listening, identified, manifest>>
      /\ tool.step = "delete"
  BY DEF DeleteEntry, server
<1> DEFINE named(r) == {i \in OwnedNames : NameOf[i] = NameOf[r.identity]}
<1>3. PICK r \in tool.todo :
         \/ /\ attached' = IF tool.apply THEN attached \ named(r) ELSE attached
            /\ tool' = [tool EXCEPT !.todo = @ \ {r}, !.done = @ \cup {r}]
         \/ /\ UNCHANGED attached /\ tool' = [tool EXCEPT !.todo = @ \ {r}]
  BY DEF DeleteEntry
<1>4. /\ r \in Record /\ r.identity \in Mine /\ Logged(r.identity)
      /\ NameOf[r.identity] \notin Keep
  BY <1>1, <1>2, ToolFields DEF ToolHolds
<1>5. attached' \subseteq attached  BY <1>3
<1>6. \A i \in attached \ attached' : i \in Mine /\ NameOf[i] \notin Keep
  BY <1>3, <1>4 DEF OwnedNames
<1>7. /\ tool' \in ToolStates /\ tool'.step = "delete" /\ tool'.todo = tool.todo \ {r}
      /\ tool'.rows = tool.rows /\ tool'.apply = tool.apply
      /\ tool'.recipe = tool.recipe
      /\ \/ tool'.done = tool.done
         \/ /\ tool'.done = tool.done \cup {r}
            /\ tool.apply => r.identity \notin attached'
  <2>1. tool \in ToolStates /\ tool.step = "delete"  BY <1>1, <1>2 DEF StorageTypes
  <2>2. ASSUME tool.apply, attached' = attached \ named(r) PROVE r.identity \notin attached'
    BY <1>4, <2>2 DEF OwnedNames
  <2>3. CASE /\ attached' = IF tool.apply THEN attached \ named(r) ELSE attached
             /\ tool' = [tool EXCEPT !.todo = @ \ {r}, !.done = @ \cup {r}]
    <3>1. tool.apply => r.identity \notin attached'  BY <2>2, <2>3
    <3>2. /\ tool' \in ToolStates /\ tool'.step = "delete" /\ tool'.todo = tool.todo \ {r}
          /\ tool'.rows = tool.rows /\ tool'.apply = tool.apply
          /\ tool'.recipe = tool.recipe /\ tool'.done = tool.done \cup {r}
      BY <1>4, <2>1, <2>3 DEF ToolStates
    <3> QED BY <3>1, <3>2
  <2>4. CASE UNCHANGED attached /\ tool' = [tool EXCEPT !.todo = @ \ {r}]
    BY <2>1, <2>4 DEF ToolStates
  <2> QED BY <1>3, <2>3, <2>4
<1>8. \A i : Logged(i)' = Logged(i)  BY <1>2, <1>5, StillGone
<1>9. (\A x \in tool.todo : /\ x.identity \in Mine /\ Logged(x.identity)
                            /\ NameOf[x.identity] \notin Keep)'
  <2> SUFFICES ASSUME NEW x \in tool'.todo
               PROVE  /\ x.identity \in Mine /\ Logged(x.identity)'
                      /\ NameOf[x.identity] \notin Keep
    OBVIOUS
  <2>1. x \in tool.todo  BY <1>7
  <2>2. /\ x.identity \in Mine /\ Logged(x.identity) /\ NameOf[x.identity] \notin Keep
    BY <1>1, <1>2, <2>1 DEF ToolHolds
  <2> QED BY <1>2, <2>2 DEF Logged
<1>10. Gone(tool.rows)' /\ Gone(manifest)'
  BY <1>1, <1>2, <1>5, <1>7, StillGone DEF ToolHolds
<1>11. (tool.apply => Gone(tool.done))'
  <2> SUFFICES ASSUME tool'.apply, NEW x \in tool'.done
               PROVE  x.identity \notin attached' /\ Logged(x.identity)'
    BY DEF Gone
  <2>1. x \in tool.done => x.identity \notin attached /\ Logged(x.identity)
    BY <1>1, <1>2, <1>7 DEF ToolHolds, Gone
  <2>2. x \notin tool.done => x = r /\ r.identity \notin attached'  BY <1>7
  <2>3. Logged(x.identity)  BY <1>4, <2>1, <2>2
  <2> QED BY <1>2, <1>5, <2>1, <2>2, <2>3 DEF Logged
<1>12. ~tool.recipe  BY <1>1, <1>2 DEF ToolHolds
<1>13. StorageInv'
  BY <1>1, <1>2, <1>5, <1>7, <1>9, <1>10, <1>11, <1>12, RunKeeps DEF StorageTypes
<1> QED BY <1>6, <1>13

LEMMA ManifestKeeps ==
    ASSUME ~DryManifests, StorageInv, WriteManifest
    PROVE  StorageInv'
<1>1. StorageTypes /\ ToolHolds  BY DEF StorageInv
<1>2. /\ UNCHANGED <<attached, held, young, log, listening, identified>>
      /\ tool.step = "delete" /\ tool' = Idle
      /\ manifest' = IF tool.apply THEN tool.done \cup tool.rows ELSE manifest
  BY DEF WriteManifest, world, server, Finish
<1>3. manifest' \subseteq Record  BY <1>1, <1>2, ToolFields DEF StorageTypes
<1>4. Gone(manifest)'
  <2> SUFFICES ASSUME NEW r \in manifest'
               PROVE  r.identity \notin attached' /\ Logged(r.identity)'
    BY DEF Gone
  <2>1. r.identity \notin attached /\ Logged(r.identity)
    BY <1>1, <1>2 DEF ToolHolds, Gone
  <2> QED BY <1>2, <2>1 DEF Logged
<1> QED BY <1>1, <1>2, <1>3, <1>4, IdleFields, RunKeeps DEF StorageTypes

LEMMA StopServerKeeps ==
    ASSUME StorageInv, StopServer
    PROVE  StorageInv'
<1>1. StorageTypes /\ ToolHolds  BY DEF StorageInv
<1>2. /\ UNCHANGED <<attached, held, young, log, manifest>>
      /\ \/ /\ listening' = FALSE /\ identified' = FALSE
            /\ tool' = [tool EXCEPT !.step = "scan", !.recipe = TRUE]
         \/ tool' = [Idle EXCEPT !.step = "failed"] /\ UNCHANGED <<listening, identified>>
  BY DEF StopServer, Fail
<1>3. \/ /\ tool' \in ToolStates /\ tool'.step = "scan"
      \/ /\ tool' \in ToolStates /\ tool'.step = "failed" /\ ~tool'.recipe
  <2>1. tool \in ToolStates  BY <1>1 DEF StorageTypes
  <2> QED BY <1>2, <2>1, IdleFields DEF ToolStates
<1>4. Gone(manifest)'  BY <1>1, <1>2, StillGone DEF ToolHolds
<1>5. listening' \in BOOLEAN /\ identified' \in BOOLEAN  BY <1>1, <1>2 DEF StorageTypes
<1> QED BY <1>1, <1>2, <1>3, <1>4, <1>5, RunKeeps DEF StorageTypes

LEMMA ScanKeeps ==
    ASSUME StorageInv, ScanLog
    PROVE  StorageInv'
<1>1. StorageTypes /\ ToolHolds  BY DEF StorageInv
<1>2. /\ UNCHANGED <<attached, held, young, log, listening, identified, manifest>>
      /\ tool.step = "scan"
      /\ tool' = [tool EXCEPT !.step = "remove", !.owner = ReadReplicaIdentities,
                              !.todo = manifest]
  BY DEF ScanLog, world, server
<1>3. /\ tool' \in ToolStates /\ tool'.step = "remove" /\ tool'.todo = manifest
      /\ tool'.owner = ReadReplicaIdentities
  <2>1. tool \in ToolStates /\ manifest \in SUBSET Record  BY <1>1 DEF StorageTypes
  <2>2. ReadReplicaIdentities \in [Dir -> Anybody]  BY <1>1, Reading
  <2> QED BY <1>2, <2>1, <2>2 DEF ToolStates
<1>4. Gone(manifest)'  BY <1>1, <1>2, StillGone DEF ToolHolds
<1>5. Gone(tool.todo)'  BY <1>2, <1>3, <1>4 DEF Gone
<1> QED BY <1>1, <1>2, <1>3, <1>4, <1>5, RunKeeps DEF StorageTypes

\* A directory is removed only if the log, as it was read, names the owner that
\* is gone.
LEMMA RemoveKeeps ==
    ASSUME StorageInv, RemoveFiles
    PROVE  /\ StorageInv'
           /\ \A d \in Dir : held'[d] = NoIdentity => held[d] \notin attached \/ Overtaken(d)
<1>1. StorageTypes /\ ToolHolds /\ WorldHolds  BY DEF StorageInv
<1>2. /\ UNCHANGED <<attached, young, log, listening, identified, manifest>>
      /\ tool.step = "remove"
  BY DEF RemoveFiles, server
<1>3. PICK r \in tool.todo :
         \/ /\ Removable(r) /\ held' = [held EXCEPT ![r.dir] = NoIdentity]
            /\ tool' = [tool EXCEPT !.todo = @ \ {r}]
         \/ /\ UNCHANGED held
            /\ tool' \in {[tool EXCEPT !.todo = @ \ {r}], [Idle EXCEPT !.step = "failed"]}
  BY DEF RemoveFiles, Fail
<1>4. /\ r.dir \in Dir /\ r.identity \in Identity /\ r.identity \notin attached
      /\ Gone(tool.todo) /\ (~listening => tool.owner = ReadReplicaIdentities)
  BY <1>1, <1>2, ToolFields DEF ToolHolds, Gone, Record
<1>5. /\ held \in [Dir -> Anybody] /\ NoIdentity \notin attached
  BY <1>1 DEF StorageTypes
<1>6. Removable(r) => held[r.dir] \notin attached \/ Overtaken(r.dir)
  BY <1>1, <1>4 DEF Removable, WorldHolds, Overtaken
<1>7. /\ held' \in [Dir -> Anybody]
      /\ \A d \in Dir : \/ held'[d] = held[d]
                        \/ held'[d] = NoIdentity /\ (held[d] \notin attached \/ Overtaken(d))
  <2>1. CASE Removable(r) /\ held' = [held EXCEPT ![r.dir] = NoIdentity]
    <3>1. held' \in [Dir -> Anybody]  BY <1>5, <2>1 DEF Anybody
    <3>2. \A d \in Dir : d # r.dir => held'[d] = held[d]  BY <1>5, <2>1
    <3>3. held'[r.dir] = NoIdentity  BY <1>4, <1>5, <2>1
    <3> QED BY <1>6, <2>1, <3>1, <3>2, <3>3
  <2>2. CASE UNCHANGED held  BY <1>5, <2>2
  <2> QED BY <1>3, <2>1, <2>2
<1>8. \/ /\ tool' \in ToolStates /\ tool'.step = "remove" /\ tool'.todo = tool.todo \ {r}
         /\ tool'.owner = tool.owner
      \/ /\ tool' \in ToolStates /\ tool'.step = "failed" /\ ~tool'.recipe
  <2>1. tool \in ToolStates  BY <1>1 DEF StorageTypes
  <2>2. CASE tool' = [tool EXCEPT !.todo = @ \ {r}]  BY <1>2, <2>1, <2>2 DEF ToolStates
  <2>3. CASE tool' = [Idle EXCEPT !.step = "failed"]  BY <2>3, IdleFields
  <2> QED BY <1>3, <2>2, <2>3
<1>9. Gone(manifest)'  BY <1>1, <1>2, StillGone DEF ToolHolds
<1>10. tool'.step = "remove" => Gone(tool.todo)'
  <2> SUFFICES ASSUME tool'.step = "remove", NEW x \in tool'.todo
               PROVE  x.identity \notin attached' /\ Logged(x.identity)'
    BY DEF Gone
  <2>1. x \in tool.todo  BY <1>8
  <2>2. x.identity \notin attached /\ Logged(x.identity)  BY <1>4, <2>1 DEF Gone
  <2> QED BY <1>2, <2>2 DEF Logged
<1>11. \A d \in Dir : held'[d] \in {held[d], NoIdentity}  BY <1>7
<1>12. StorageInv'
  BY <1>1, <1>2, <1>4, <1>7, <1>8, <1>9, <1>10, <1>11, RunKeeps DEF StorageTypes
<1>13. \A d \in Dir : held'[d] = NoIdentity => held[d] \notin attached \/ Overtaken(d)
  BY <1>5, <1>7
<1> QED BY <1>12, <1>13

LEMMA FilesEndKeeps ==
    ASSUME StorageInv, FinishFiles
    PROVE  StorageInv' /\ (tool.recipe /\ tool'.step = "idle" => listening')
<1>1. StorageTypes /\ ToolHolds  BY DEF StorageInv
<1>2. /\ UNCHANGED <<attached, held, young, log, manifest>>
      /\ \/ ~tool.recipe /\ tool' = Idle /\ UNCHANGED <<listening, identified>>
         \/ tool.recipe /\ listening' = TRUE /\ identified' = TRUE /\ tool' = Idle
         \/ /\ tool.recipe /\ tool' = [Idle EXCEPT !.step = "failed"]
            /\ UNCHANGED <<listening, identified>>
  BY DEF FinishFiles, Finish, Fail
<1>3. Gone(manifest)'  BY <1>1, <1>2, StillGone DEF ToolHolds
<1>4. listening' \in BOOLEAN /\ identified' \in BOOLEAN  BY <1>1, <1>2 DEF StorageTypes
<1>5. /\ tool' \in ToolStates /\ tool'.step \in {"idle", "failed"} /\ ~tool'.recipe
      /\ tool.recipe /\ tool'.step = "idle" => listening'
  BY <1>2, IdleFields
<1>6. StorageInv'  BY <1>1, <1>2, <1>3, <1>4, <1>5, RunKeeps DEF StorageTypes
<1> QED BY <1>5, <1>6

LEMMA StorageBegins == StorageInit => StorageInv
<1> SUFFICES ASSUME StorageInit PROVE StorageInv
  OBVIOUS
<1>1. /\ attached = {} /\ held = [d \in Dir |-> NoIdentity] /\ young = {}
      /\ log = <<>> /\ listening = TRUE /\ identified = TRUE
      /\ manifest = {} /\ tool = Idle
  BY DEF StorageInit
<1>2. log \in Seq(LogLine) /\ Len(log) = 0  BY <1>1
<1>3. ReadReplicaIdentities = NoOwners /\ LinesRead(log).pending = NoIdentity
  BY <1>1, ReadNone DEF ReadReplicaIdentities, NoneRead
<1>4. StorageTypes  BY <1>1, <1>2, IdleFields DEF StorageTypes, Anybody
<1>5. WorldHolds  BY <1>1, <1>3 DEF WorldHolds, NoOwners
<1>6. ToolHolds  BY <1>1, IdleFields DEF ToolHolds, Gone
<1> QED BY <1>4, <1>5, <1>6 DEF StorageInv

\* What a step may never do.
StorageStep ==
    /\ \A d \in Dir : held'[d] = NoIdentity => held[d] \notin attached \/ Overtaken(d)
    /\ \A i \in attached \ attached' :
         tool' # tool => i \in Mine /\ NameOf[i] \notin Keep
    /\ tool.recipe /\ tool'.step = "idle" => listening'

LEMMA StorageKeeps ==
    ~DryManifests /\ StorageInv /\ [StorageNext]_storageVars => StorageInv' /\ StorageStep
<1> SUFFICES ASSUME ~DryManifests, StorageInv, [StorageNext]_storageVars
             PROVE  StorageInv' /\ StorageStep
  OBVIOUS
<1>1. NoIdentity \notin attached /\ held \in [Dir -> Anybody]
  BY DEF StorageInv, StorageTypes
<1>2. tool.recipe => tool.step \in {"scan", "remove"}  BY DEF StorageInv, ToolHolds
<1>3. CASE UNCHANGED storageVars
  <2>1. UNCHANGED <<attached, held, young, log, listening, identified, manifest, tool>>
    BY <1>3 DEF storageVars, world, server
  <2>2. StorageTypes' /\ WorldHolds' /\ ToolHolds'
    <3>1. (\A i : Logged(i)' = Logged(i)) /\ ReadReplicaIdentities' = ReadReplicaIdentities
      BY <2>1 DEF Logged, ReadReplicaIdentities
    <3>2. StorageTypes'  BY <2>1 DEF StorageInv, StorageTypes
    <3>3. WorldHolds'  BY <2>1, WorldKept DEF StorageInv
    <3>4. ToolHolds'  BY <2>1, <3>1, ToolKept DEF StorageInv
    <3> QED BY <3>2, <3>3, <3>4
  <2> QED BY <1>1, <1>2, <2>1, <2>2 DEF StorageInv, StorageStep
<1>4. ASSUME NEW i \in Identity, NEW d \in Dir, Publish(i, d) \/ Relaunch(i, d)
      PROVE  StorageInv' /\ StorageStep
  <2>1. StorageInv'  BY <1>4, PublishesKeep, RelaunchKeeps
  <2>2. /\ attached \subseteq attached' /\ tool' = tool
        /\ held' = [held EXCEPT ![d] = i] \/ held' = held
    BY <1>4 DEF Publish, Relaunch
  <2>3. \A x \in Dir : held'[x] = NoIdentity => held[x] \notin attached  BY <1>1, <2>2
  <2> QED BY <1>2, <2>1, <2>2, <2>3 DEF StorageStep
<1>5. CASE (\E i \in Identity : Drop(i)) \/ Age \/ Toggle
  <2>1. held' = held /\ tool' = tool  BY <1>5 DEF Drop, Age, Toggle
  <2> QED BY <1>1, <1>2, <1>5, <2>1, OthersKeep DEF StorageStep
<1>6. CASE StartEntries \/ StartFiles
  <2>1. held' = held /\ attached' = attached /\ tool.step \in {"idle", "failed"}
    BY <1>6 DEF StartEntries, StartFiles, world
  <2> QED BY <1>1, <1>2, <1>6, <2>1, StartsKeep DEF StorageStep
<1>7. CASE TakeSnapshot \/ WriteManifest \/ StopServer \/ ScanLog
  <2>1. /\ held' = held /\ attached' = attached
    BY <1>7 DEF TakeSnapshot, WriteManifest, StopServer, ScanLog, world
  <2>2. tool.step \in {"scan", "remove"} => tool'.step # "idle"
    <3>1. tool.step \in {"scan", "remove"} => ScanLog
      BY <1>7 DEF TakeSnapshot, WriteManifest, StopServer
    <3>2. ScanLog => tool'.step = "remove"
      BY DEF ScanLog, StorageInv, StorageTypes, ToolStates
    <3> QED BY <3>1, <3>2
  <2> QED BY <1>1, <1>2, <1>7, <2>1, <2>2, SnapshotKeeps, ManifestKeeps,
             StopServerKeeps, ScanKeeps DEF StorageStep
<1>8. CASE DeleteEntry
  <2>1. held' = held /\ tool.step = "delete"  BY <1>8 DEF DeleteEntry
  <2> QED BY <1>1, <1>2, <1>8, <2>1, DeleteKeeps DEF StorageStep
<1>9. CASE RemoveFiles
  <2>1. attached' = attached  BY <1>9 DEF RemoveFiles
  <2>2. tool'.step # "idle"
    <3>1. tool.step = "remove" /\ tool \in ToolStates
      BY <1>9 DEF RemoveFiles, StorageInv, StorageTypes
    <3>2. \E r \in tool.todo : tool' \in {[tool EXCEPT !.todo = @ \ {r}],
                                           [Idle EXCEPT !.step = "failed"]}
      BY <1>9 DEF RemoveFiles, Fail
    <3> QED BY <3>1, <3>2, IdleFields DEF ToolStates
  <2> QED BY <1>9, <2>1, <2>2, RemoveKeeps DEF StorageStep
<1>10. CASE FinishFiles
  <2>1. held' = held /\ attached' = attached  BY <1>10 DEF FinishFiles
  <2> QED BY <1>1, <1>10, <2>1, FilesEndKeeps DEF StorageStep
<1> QED BY <1>3, <1>4, <1>5, <1>6, <1>7, <1>8, <1>9, <1>10 DEF StorageNext, ToolStep

\* What is kept survives the tool and the server it stopped comes back, for
\* every set of databases and directories, whatever is published, dropped or
\* put in a used directory meanwhile, and also where a removal is forced beside
\* a running server; unless manifests are written in dry runs.
THEOREM CleanupIsSafeCorrect ==
    ASSUME ~DryManifests
    PROVE  StorageSpec => CleanupIsSafe
<1>1. StorageInv => StorageTypeOK
  BY DEF StorageInv, StorageTypes, StorageTypeOK, ToolStates, Anybody
<1>2. StorageInv /\ [StorageNext]_storageVars => StorageInv' /\ StorageStep
  BY StorageKeeps
<1> QED BY <1>1, <1>2, StorageBegins, PTL
        DEF StorageSpec, CleanupIsSafe, RetainedSurvives, StoppedServerReturns, StorageStep

HIDE StorageAssumption

-----------------------------------------------------------------------------
(* The shared session, for every set of launchers.                           *)

USE PlaytestAssumption

\* What a launcher has started and listed by the step it is at.
Processes(l) ==
    /\ step[l] \in {"new", "locked", "starting"} => gateway[l] = "none"
    /\ step[l] \in {"new", "locked", "starting", "spawning", "gateway"}
         => tunnel[l] = "none"
    /\ step[l] \in {"opening", "tunnel", "announce", "ready"}
         => gateway[l] \in {"serving", "gone"}
    /\ step[l] \in {"new", "locked", "starting", "spawning"} => children[l] = {}
    /\ step[l] \in {"gateway", "opening"} => children[l] = {"gateway"}
    /\ step[l] \in {"tunnel", "announce", "ready"} => children[l] = Child

\* What it leaves: in its cleanup every child that runs is listed, unless one
\* was missed; that is the gateway or the tunnel, and never both.
Leaves(l) ==
    /\ step[l] \notin {"closing", "gone"} => fate[l] = "fine"
    /\ step[l] = "closing" => fate[l] \in {"fine", "missed"}
    /\ step[l] \in {"closing", "gone"} /\ fate[l] = "fine" => Runs(l) \subseteq children[l]
    /\ step[l] \in {"closing", "gone"} /\ fate[l] \in {"fine", "missed"}
         => ("gateway" \notin children[l] => tunnel[l] # "running")
    /\ step[l] = "gone" /\ fate[l] \in {"fine", "missed"} => Runs(l) \cap children[l] = {}

\* The lock goes with the life of a launcher, the record with its session.
Owns(l) ==
    /\ Live(l) => lock = l
    /\ Live(l) /\ step[l] # "locked" => session.owner = l

Suits(l) == Processes(l) /\ Leaves(l) /\ Owns(l)

PlaytestInv == PlaytestTypeOK /\ \A l \in Launcher : Suits(l)

-----------------------------------------------------------------------------
LEMMA PlaytestInvIsWhole == PlaytestInv => SessionIsWhole
<1> SUFFICES ASSUME PlaytestInv PROVE SessionIsWhole
  OBVIOUS
<1>1. NothingOutlives
  BY DEF PlaytestInv, PlaytestTypeOK, Suits, Leaves, NothingOutlives, Runs
<1>2. SessionIsOwners  BY DEF PlaytestInv, Suits, Processes, Owns, SessionIsOwners, Live
<1> QED BY <1>1, <1>2 DEF PlaytestInv, SessionIsWhole

LEMMA PlaytestBegins == PlaytestInit => PlaytestInv
<1> SUFFICES ASSUME PlaytestInit PROVE PlaytestInv
  OBVIOUS
<1>1. PlaytestTypeOK  BY DEF PlaytestInit, PlaytestTypeOK, Step
<1>2. \A l \in Launcher : Suits(l)
  BY DEF PlaytestInit, Suits, Processes, Leaves, Owns, Live
<1> QED BY <1>1, <1>2 DEF PlaytestInv

\* At most one launcher is alive: whoever is has the lock.
LEMMA OneIsLive ==
    ASSUME PlaytestInv, NEW l \in Launcher, NEW o \in Launcher, Live(l), Live(o)
    PROVE  o = l
  BY DEF PlaytestInv, Suits, Owns

\* What one launcher does leaves the others as they were.
LEMMA OtherLaunchersKeep ==
    ASSUME PlaytestInv, NEW o \in Launcher,
           step'[o] = step[o], gateway'[o] = gateway[o], tunnel'[o] = tunnel[o],
           children'[o] = children[o], fate'[o] = fate[o],
           Live(o) => UNCHANGED <<lock, session>>
    PROVE  Suits(o)'
<1>1. Runs(o)' = Runs(o) /\ (Live(o)' <=> Live(o))  BY DEF Runs, Live
<1>2. Processes(o)' /\ Leaves(o)'  BY <1>1 DEF PlaytestInv, Suits, Processes, Leaves
<1>3. Owns(o)'  BY <1>1 DEF PlaytestInv, Suits, Owns
<1> QED BY <1>2, <1>3 DEF Suits

\* Moving one launcher changes one step.
LEMMA Moves ==
    ASSUME PlaytestTypeOK, NEW l \in Launcher, NEW s \in Step, Goto(l, s)
    PROVE  /\ step' \in [Launcher -> Step] /\ step'[l] = s
           /\ \A o \in Launcher \ {l} : step'[o] = step[o]
  BY DEF PlaytestTypeOK, Goto

LEMMA StepsAre ==
    /\ Step = {"new", "locked", "starting", "spawning", "gateway", "opening",
               "tunnel", "announce", "ready", "closing", "gone"}
    /\ Child = {"gateway", "tunnel"}
  BY DEF Step, Child

-----------------------------------------------------------------------------
(* One lemma for each group of steps                                         *)

LEMMA TakeLockKeeps ==
    ASSUME PlaytestInv, NEW l \in Launcher, TakeLock(l)
    PROVE  PlaytestInv'
<1>1. "locked" \in Step /\ Goto(l, "locked") /\ lock = NoLauncher
  BY StepsAre DEF TakeLock
<1>2. \A o \in Launcher : ~Live(o)  BY <1>1 DEF PlaytestInv, Suits, Owns
<1>3. PlaytestTypeOK'  BY <1>1, Moves DEF TakeLock, PlaytestInv, PlaytestTypeOK
<1>4. \A o \in Launcher \ {l} : Suits(o)'
  BY <1>1, <1>2, Moves, OtherLaunchersKeep DEF TakeLock, PlaytestInv
<1>5. Suits(l)'  BY <1>1, Moves
  DEF TakeLock, PlaytestInv, Suits, Processes, Leaves, Owns, Live
<1> QED BY <1>3, <1>4, <1>5 DEF PlaytestInv

\* The two records the launcher writes of its session.
LEMMA RecordKeeps ==
    ASSUME PlaytestInv, NEW l \in Launcher, WriteStarting(l) \/ Announce(l)
    PROVE  PlaytestInv'
<1>1. PICK s \in {"starting", "ready"} :
        /\ Goto(l, s) /\ session' = [owner |-> l, status |-> s]
        /\ (s = "starting" /\ step[l] = "locked") \/ (s = "ready" /\ step[l] = "announce")
  BY DEF WriteStarting, Announce
<1>2. /\ s \in Step /\ Live(l)
      /\ UNCHANGED <<installed, gateway, tunnel, children, lock, stopper, fate>>
  BY <1>1, StepsAre DEF WriteStarting, Announce, Live
<1>3. PlaytestTypeOK'  BY <1>1, <1>2, Moves DEF PlaytestInv, PlaytestTypeOK
<1>4. \A o \in Launcher \ {l} : Suits(o)'
  BY <1>1, <1>2, Moves, OneIsLive, OtherLaunchersKeep DEF PlaytestInv
<1>5. Suits(l)'
  BY <1>1, <1>2, Moves DEF PlaytestInv, Suits, Processes, Leaves, Owns, Live
<1> QED BY <1>3, <1>4, <1>5 DEF PlaytestInv

LEMMA SpawnGatewayKeeps ==
    ASSUME PlaytestInv, NEW l \in Launcher, SpawnGateway(l)
    PROVE  PlaytestInv'
<1>1. Goto(l, "spawning") /\ "spawning" \in Step  BY StepsAre DEF SpawnGateway
<1>2. PlaytestTypeOK'  BY <1>1, Moves DEF SpawnGateway, PlaytestInv, PlaytestTypeOK
<1>3. \A o \in Launcher \ {l} : Suits(o)'
  BY <1>1, Moves, OtherLaunchersKeep DEF SpawnGateway, PlaytestInv, PlaytestTypeOK
<1>4. Suits(l)'  BY <1>1, Moves
  DEF SpawnGateway, PlaytestInv, PlaytestTypeOK, Suits, Processes, Leaves, Owns, Live
<1> QED BY <1>2, <1>3, <1>4 DEF PlaytestInv

LEMMA SpawnTunnelKeeps ==
    ASSUME PlaytestInv, NEW l \in Launcher, SpawnTunnel(l)
    PROVE  PlaytestInv'
<1>1. Goto(l, "opening") /\ "opening" \in Step /\ gateway[l] = "serving"
  BY StepsAre DEF SpawnTunnel, GatewayReady
<1>2. PlaytestTypeOK'  BY <1>1, Moves DEF SpawnTunnel, PlaytestInv, PlaytestTypeOK
<1>3. \A o \in Launcher \ {l} : Suits(o)'
  BY <1>1, Moves, OtherLaunchersKeep DEF SpawnTunnel, PlaytestInv, PlaytestTypeOK
<1>4. Suits(l)'  BY <1>1, Moves
  DEF SpawnTunnel, PlaytestInv, PlaytestTypeOK, Suits, Processes, Leaves, Owns, Live
<1> QED BY <1>2, <1>3, <1>4 DEF PlaytestInv

LEMMA ListKeeps ==
    ASSUME PlaytestInv, NEW l \in Launcher, ListGateway(l) \/ ListTunnel(l)
    PROVE  PlaytestInv'
<1>1. PICK c \in Child :
        /\ Goto(l, c) /\ ListChild(l, c)
        /\ (c = "gateway" /\ step[l] = "spawning") \/ (c = "tunnel" /\ step[l] = "opening")
  BY StepsAre DEF ListGateway, ListTunnel
<1>2. /\ c \in Step
      /\ UNCHANGED <<installed, gateway, tunnel, lock, session, stopper, fate>>
  BY <1>1, StepsAre DEF ListGateway, ListTunnel
<1>3. /\ children' \in [Launcher -> SUBSET Child]
      /\ children'[l] = children[l] \cup {c}
      /\ \A o \in Launcher \ {l} : children'[o] = children[o]
  BY <1>1 DEF ListChild, PlaytestInv, PlaytestTypeOK
<1>4. PlaytestTypeOK'  BY <1>1, <1>2, <1>3, Moves DEF PlaytestInv, PlaytestTypeOK
<1>5. \A o \in Launcher \ {l} : Suits(o)'
  BY <1>1, <1>2, <1>3, Moves, OtherLaunchersKeep DEF PlaytestInv
<1>6. Suits(l)'  BY <1>1, <1>2, <1>3, Moves, StepsAre
  DEF PlaytestInv, Suits, Processes, Leaves, Owns, Live
<1> QED BY <1>4, <1>5, <1>6 DEF PlaytestInv

\* Moving without touching a child or the record.
LEMMA MoveKeeps ==
    ASSUME PlaytestInv, NEW l \in Launcher, NEW s \in {"announce", "closing"},
           Goto(l, s), s = "announce" => step[l] = "tunnel" /\ gateway[l] = "serving",
           s = "closing" => step[l] \in {"starting", "gateway", "tunnel", "announce", "ready"},
           UNCHANGED <<gateway, tunnel, children, fate, lock, session>>,
           UNCHANGED <<installed, stopper>>
    PROVE  PlaytestInv'
<1>1. s \in Step  BY StepsAre
<1>2. PlaytestTypeOK'  BY <1>1, Moves DEF PlaytestInv, PlaytestTypeOK
<1>3. \A o \in Launcher \ {l} : Suits(o)'
  BY <1>1, Moves, OtherLaunchersKeep DEF PlaytestInv
<1>4. Runs(l)' = Runs(l) /\ Runs(l) \subseteq Child  BY DEF Runs
<1>5. step[l] \in {"starting", "gateway", "tunnel", "announce", "ready"}
        => /\ Runs(l) \subseteq children[l]
           /\ "gateway" \notin children[l] => tunnel[l] = "none"
  BY StepsAre DEF PlaytestInv, Suits, Processes, Runs
<1>6. Suits(l)'  BY <1>1, <1>4, <1>5, Moves
  DEF PlaytestInv, Suits, Processes, Leaves, Owns, Live
<1> QED BY <1>2, <1>3, <1>6 DEF PlaytestInv

\* A child that ends takes nothing with it.
LEMMA ChildEndsKeeps ==
    ASSUME PlaytestInv, NEW l \in Launcher, CloseChild(l) \/ ChildExits(l)
    PROVE  PlaytestInv'
<1>1. /\ UNCHANGED <<installed, step, children, lock, session, stopper, fate>>
      /\ \/ /\ gateway' = [gateway EXCEPT ![l] = "gone"]
            /\ gateway[l] \in {"loading", "serving"} /\ UNCHANGED tunnel
         \/ /\ tunnel' = [tunnel EXCEPT ![l] = "gone"]
            /\ tunnel[l] = "running" /\ UNCHANGED gateway
  BY DEF CloseChild, ChildExits, Runs
<1>2. PlaytestTypeOK'  BY <1>1 DEF PlaytestInv, PlaytestTypeOK
<1>3. \A o \in Launcher \ {l} : Suits(o)'
  BY <1>1, OtherLaunchersKeep DEF PlaytestInv, PlaytestTypeOK
<1>4. Runs(l)' \subseteq Runs(l)  BY <1>1 DEF Runs, PlaytestInv, PlaytestTypeOK
<1>5. /\ \/ gateway'[l] = gateway[l]
         \/ gateway[l] \in {"loading", "serving"} /\ gateway'[l] = "gone"
      /\ \/ tunnel'[l] = tunnel[l]
         \/ tunnel[l] = "running" /\ tunnel'[l] = "gone"
  BY <1>1 DEF PlaytestInv, PlaytestTypeOK
<1>6. Suits(l)'
  BY <1>1, <1>4, <1>5 DEF PlaytestInv, Suits, Processes, Leaves, Owns, Live
<1> QED BY <1>2, <1>3, <1>6 DEF PlaytestInv

\* The end of a launcher, by itself, by a signal or killed.
LEMMA GoneKeeps ==
    ASSUME PlaytestInv, NEW l \in Launcher, Live(l), Goto(l, "gone"),
           lock' = NoLauncher,
           session' \in {session, [owner |-> l, status |-> "stopped"]},
           UNCHANGED <<installed, gateway, tunnel, children>>,
           stopper' \in {stopper, NoLauncher},
           \/ fate' \in {[fate EXCEPT ![l] = "killed"], [fate EXCEPT ![l] = "cut"]}
           \/ fate' = fate /\ Runs(l) \cap children[l] = {} /\ step[l] = "closing"
           \/ fate' = fate /\ step[l] \in {"locked", "starting"}
    PROVE  PlaytestInv'
<1>1. "gone" \in Step  BY StepsAre
<1>2. PlaytestTypeOK'  BY <1>1, Moves DEF PlaytestInv, PlaytestTypeOK
<1>3. \A o \in Launcher \ {l} : fate'[o] = fate[o]  BY DEF PlaytestInv, PlaytestTypeOK
<1>4. \A o \in Launcher \ {l} : Suits(o)'
  BY <1>1, <1>3, Moves, OneIsLive, OtherLaunchersKeep DEF PlaytestInv
<1>5. fate'[l] \in {"killed", "cut"} \/ fate'[l] = fate[l]
  BY DEF PlaytestInv, PlaytestTypeOK
<1>6. Runs(l)' = Runs(l) /\ children'[l] = children[l] /\ tunnel'[l] = tunnel[l]
  BY DEF Runs
<1>7. step[l] \in {"locked", "starting"} => Runs(l) = {} /\ tunnel[l] = "none"
  BY DEF PlaytestInv, Suits, Processes, Runs, Child
<1>8. Processes(l)' /\ Owns(l)'  BY <1>1, Moves DEF PlaytestInv, Processes, Owns, Live
<1>9. Leaves(l)'
  <2>1. CASE fate'[l] \in {"killed", "cut"}
    BY <1>1, <2>1, Moves DEF PlaytestInv, Leaves
  <2>2. CASE fate'[l] = fate[l] /\ Runs(l) \cap children[l] = {} /\ step[l] = "closing"
    BY <1>1, <1>6, <2>2, Moves DEF PlaytestInv, Suits, Leaves
  <2>3. CASE fate'[l] = fate[l] /\ step[l] \in {"locked", "starting"}
    BY <1>1, <1>6, <1>7, <2>3, Moves DEF PlaytestInv, Suits, Leaves
  <2> QED BY <1>5, <2>1, <2>2, <2>3 DEF PlaytestInv, PlaytestTypeOK
<1> QED BY <1>2, <1>4, <1>8, <1>9 DEF PlaytestInv, Suits

\* Of two gateways on one port the second exits.
LEMMA GatewayBindsKeeps ==
    ASSUME PlaytestInv, NEW l \in Launcher, GatewayBinds(l)
    PROVE  PlaytestInv'
<1>1. PICK g \in {"gone", "serving"} :
        gateway' = [gateway EXCEPT ![l] = g] /\ gateway[l] = "loading"
  BY DEF GatewayBinds
<1>2. PlaytestTypeOK'  BY <1>1 DEF GatewayBinds, PlaytestInv, PlaytestTypeOK
<1>3. \A o \in Launcher \ {l} : Suits(o)'
  BY <1>1, OtherLaunchersKeep DEF GatewayBinds, PlaytestInv, PlaytestTypeOK
<1>4. Runs(l)' \subseteq Runs(l) /\ gateway'[l] = g
  BY <1>1 DEF GatewayBinds, Runs, PlaytestInv, PlaytestTypeOK
<1>5. Suits(l)'
  BY <1>1, <1>4 DEF GatewayBinds, PlaytestInv, Suits, Processes, Leaves, Owns, Live
<1> QED BY <1>2, <1>3, <1>5 DEF PlaytestInv

\* A signal ends a launcher before its first child and in its cleanup; between
\* it starts the cleanup, which misses the child that is being started.
LEMMA InterruptedKeeps ==
    ASSUME PlaytestInv, NEW l \in Launcher, Interrupted(l),
           UNCHANGED <<installed, gateway, tunnel, children, session>>,
           stopper' \in {stopper, NoLauncher}
    PROVE  PlaytestInv'
<1>1. CASE /\ step[l] \in {"locked", "starting"} /\ Goto(l, "gone")
           /\ lock' = NoLauncher /\ UNCHANGED fate
  <2>1. Live(l)  BY <1>1 DEF Live
  <2> QED BY <1>1, <2>1, GoneKeeps
<1>2. CASE /\ step[l] \in {"starting", "gateway", "tunnel", "announce", "ready"}
           /\ Goto(l, "closing") /\ UNCHANGED <<lock, fate>>
  <2>1. "closing" \in Step  BY StepsAre
  <2>2. PlaytestTypeOK'  BY <1>2, <2>1, Moves DEF PlaytestInv, PlaytestTypeOK
  <2>3. \A o \in Launcher \ {l} : Suits(o)'
    BY <1>2, <2>1, Moves, OtherLaunchersKeep DEF PlaytestInv
  <2>4. /\ Runs(l)' = Runs(l) /\ Runs(l) \subseteq children[l]
        /\ "gateway" \notin children[l] => tunnel[l] = "none"
    BY <1>2, StepsAre DEF PlaytestInv, Suits, Processes, Runs
  <2>5. Suits(l)'
    BY <1>2, <2>1, <2>4, Moves DEF PlaytestInv, Suits, Processes, Leaves, Owns, Live
  <2> QED BY <2>2, <2>3, <2>5 DEF PlaytestInv
<1>3. CASE /\ step[l] \in {"spawning", "opening"} /\ Goto(l, "closing")
           /\ Befalls(l, "missed") /\ UNCHANGED lock
  <2>1. "closing" \in Step  BY StepsAre
  <2>2. /\ fate'[l] = "missed" /\ \A o \in Launcher \ {l} : fate'[o] = fate[o]
        /\ fate' \in [Launcher -> {"fine", "missed", "cut", "killed"}]
    BY <1>3 DEF Befalls, PlaytestInv, PlaytestTypeOK
  <2>3. PlaytestTypeOK'  BY <1>3, <2>1, <2>2, Moves DEF PlaytestInv, PlaytestTypeOK
  <2>4. \A o \in Launcher \ {l} : Suits(o)'
    BY <1>3, <2>1, <2>2, Moves, OtherLaunchersKeep DEF PlaytestInv
  <2>5. "gateway" \notin children[l] => tunnel[l] = "none"
    BY <1>3 DEF PlaytestInv, Suits, Processes
  <2>6. Suits(l)'  BY <1>3, <2>1, <2>2, <2>5, Moves
    DEF PlaytestInv, Suits, Processes, Leaves, Owns, Live
  <2> QED BY <2>3, <2>4, <2>6 DEF PlaytestInv
<1>4. CASE /\ step[l] = "closing" /\ Goto(l, "gone")
           /\ lock' = NoLauncher /\ Befalls(l, "cut")
  <2>1. Live(l) /\ fate' = [fate EXCEPT ![l] = "cut"]  BY <1>4 DEF Live, Befalls
  <2> QED BY <1>4, <2>1, GoneKeeps
<1> QED BY <1>1, <1>2, <1>3, <1>4 DEF Interrupted

LEMMA SignalKeeps ==
    ASSUME PlaytestInv, Signal
    PROVE  PlaytestInv'
<1>1. stopper \in Launcher /\ stopper' = NoLauncher
      /\ UNCHANGED <<installed, gateway, tunnel, children, session>>
  BY DEF Signal, PlaytestInv, PlaytestTypeOK
<1>2. CASE Live(stopper)  BY <1>1, <1>2, InterruptedKeeps DEF Signal
<1>3. CASE UNCHANGED <<step, lock, fate>>
  <2>1. PlaytestTypeOK'  BY <1>1, <1>3 DEF PlaytestInv, PlaytestTypeOK
  <2>2. \A o \in Launcher : Suits(o)'  BY <1>1, <1>3, OtherLaunchersKeep
  <2> QED BY <2>1, <2>2 DEF PlaytestInv
<1> QED BY <1>2, <1>3 DEF Signal

\* Installing, and looking at the record, move no launcher.
LEMMA LookKeeps ==
    ASSUME PlaytestInv, Install \/ VerifyStop
    PROVE  PlaytestInv'
<1>1. UNCHANGED <<step, gateway, tunnel, children, lock, session, fate>>
  BY DEF Install, VerifyStop
<1>2. installed' \in {"missing", "damaged", "verified"}
      /\ stopper' \in Launcher \cup {NoLauncher}
  BY DEF Install, VerifyStop, PlaytestInv, PlaytestTypeOK
<1>3. \A o \in Launcher : Suits(o)'  BY <1>1, OtherLaunchersKeep
<1> QED BY <1>1, <1>2, <1>3 DEF PlaytestInv, PlaytestTypeOK

LEMMA LauncherKeeps ==
    ASSUME PlaytestInv, NEW l \in Launcher, LauncherStep(l)
    PROVE  PlaytestInv'
<1>1. CASE SeePublic(l) \/ GiveUp(l)  BY <1>1, MoveKeeps DEF SeePublic, GiveUp
<1>2. CASE CloseSession(l)
  <2>1. Live(l) /\ lock' = NoLauncher  BY <1>2 DEF CloseSession, Live
  <2> QED BY <1>2, <2>1, GoneKeeps DEF CloseSession
<1> QED BY <1>1, <1>2, RecordKeeps, SpawnGatewayKeeps, SpawnTunnelKeeps, ListKeeps,
           ChildEndsKeeps DEF LauncherStep

LEMMA PlaytestStep == PlaytestInv /\ [PlaytestNext]_playtestVars => PlaytestInv'
<1> SUFFICES ASSUME PlaytestInv, [PlaytestNext]_playtestVars PROVE PlaytestInv'
  OBVIOUS
<1>1. CASE UNCHANGED playtestVars
  <2>1. PlaytestTypeOK'  BY <1>1 DEF playtestVars, PlaytestInv, PlaytestTypeOK
  <2>2. \A o \in Launcher : Suits(o)'  BY <1>1, OtherLaunchersKeep DEF playtestVars
  <2> QED BY <2>1, <2>2 DEF PlaytestInv
<1>2. CASE Install \/ VerifyStop \/ Signal  BY <1>2, LookKeeps, SignalKeeps
<1>3. ASSUME NEW l \in Launcher,
             \/ TakeLock(l) \/ LauncherStep(l) \/ Interrupt(l)
             \/ GatewayBinds(l) \/ ChildExits(l) \/ Kill(l)
      PROVE  PlaytestInv'
  <2>1. CASE Interrupt(l)  BY <2>1, InterruptedKeeps DEF Interrupt
  <2>2. CASE Kill(l)
    <3>1. lock' = NoLauncher /\ fate' = [fate EXCEPT ![l] = "killed"]
      BY <2>2 DEF Kill, Befalls, PlaytestInv, Suits, Owns
    <3> QED BY <2>2, <3>1, GoneKeeps DEF Kill
  <2> QED BY <1>3, <2>1, <2>2, TakeLockKeeps, LauncherKeeps, ChildEndsKeeps,
             GatewayBindsKeeps
<1> QED BY <1>1, <1>2, <1>3 DEF PlaytestNext

\* However many launchers meet and whichever child or launcher dies, a session
\* has one owner, and a launcher that ran its cleanup (start and its finally
\* block) leaves no child behind but the one it was just starting when it was
\* interrupted.
THEOREM SessionIsWholeCorrect == PlaytestSpec => []SessionIsWhole
  BY PlaytestStep, PlaytestBegins, PlaytestInvIsWhole, PTL DEF PlaytestSpec

HIDE PlaytestAssumption

-----------------------------------------------------------------------------
(* The gateway, for every set of connections and every limit.                *)

USE GatewayAssumption

Heading == {"response", "upgrade", "error"}

GatewayTypes ==
    /\ closing \in BOOLEAN /\ handlers \subseteq Connection
    /\ stage \in [Connection -> Stage] /\ kind \in [Connection -> Kind]
    /\ upstream \in [Connection -> BOOLEAN]
    /\ said \in [Connection -> SUBSET Heading]
    /\ ended \in [Connection -> SUBSET {"player", "server"}]

\* A finite number of handlers is registered, no more than the limit.
Bounded == IsFiniteSet(handlers) /\ Cardinality(handlers) <= MaxConnections

\* A handler writes its only head in the step that leaves its exchange.
Silent == Stage \ {"relay", "draining", "finally", "closed"}
Answers ==
    \A c \in Connection :
      /\ stage[c] \in Silent => said[c] = {}
      /\ said[c] = {} \/ \E h \in Heading : said[c] = {h}

GatewayInv == GatewayTypes /\ Bounded /\ Answers

-----------------------------------------------------------------------------
(* The operators that the handler is built from                              *)

LEMMA OutcomeIsKind == Outcomes \subseteq Kind \cup {"refused"}
  BY DEF Outcomes, ClassifyRequest, Kind

\* What is said to a player of whom nothing was heard is one head or none.
LEMMA SaysOne ==
    ASSUME GatewayTypes, NEW c \in Connection, said[c] = {}, NEW h \in Heading,
           Says(c, h)
    PROVE  /\ said' \in [Connection -> SUBSET Heading]
           /\ said'[c] = {} \/ said'[c] = {h}
           /\ \A d \in Connection \ {c} : said'[d] = said[d]
  BY DEF GatewayTypes, Says

\* A handler that goes on leaves the stages of the others alone.
LEMMA HandlerGoesOn ==
    ASSUME GatewayTypes, NEW c \in Connection, NEW s \in Stage, Goes(c, s)
    PROVE  /\ stage' \in [Connection -> Stage]
           /\ stage'[c] = s
           /\ \A d \in Connection \ {c} : stage'[d] = stage[d]
  BY DEF GatewayTypes, Goes

\* A step that moves one handler, whose player hears at most one head and had
\* heard nothing if anything is added.
LEMMA AnswersKept ==
    ASSUME GatewayInv, NEW c \in Connection, NEW s \in Stage, Goes(c, s),
           \A d \in Connection \ {c} : said'[d] = said[d],
           s \in Silent => said'[c] = {},
           said'[c] = {} \/ \E h \in Heading : said'[c] = {h}
    PROVE  Answers'
  BY HandlerGoesOn DEF GatewayInv, Answers

\* A failure ends the exchange, with an error unless the player was upgraded.
LEMMA FailsKeeps ==
    ASSUME GatewayInv, NEW c \in Connection, Fails(c),
           stage[c] \notin {"finally", "closed"}
    PROVE  GatewayInv'
<1>1. Goes(c, "finally") /\ "finally" \in Stage \ Silent  BY DEF Fails, Stage, Silent
<1>2. CASE stage[c] \in {"relay", "draining"}
  <2>1. UNCHANGED said  BY <1>2 DEF Fails
  <2>2. Answers'  BY <1>1, <2>1, AnswersKept DEF GatewayInv, Answers
  <2>3. GatewayTypes' /\ Bounded'
    BY <1>1, <2>1, HandlerGoesOn DEF GatewayInv, GatewayTypes, Bounded, Fails
  <2> QED BY <2>2, <2>3 DEF GatewayInv
<1>3. CASE stage[c] \notin {"relay", "draining"}
  <2>1. Says(c, "error") /\ said[c] = {} /\ "error" \in Heading
    BY <1>3 DEF Fails, GatewayInv, Answers, GatewayTypes, Silent, Heading
  <2>2. Answers'  BY <1>1, <2>1, SaysOne, AnswersKept DEF GatewayInv
  <2>3. GatewayTypes' /\ Bounded'
    BY <1>1, <2>1, SaysOne, HandlerGoesOn DEF GatewayInv, GatewayTypes, Bounded, Fails
  <2> QED BY <2>2, <2>3 DEF GatewayInv
<1> QED BY <1>2, <1>3

\* A step of one handler that says nothing and keeps the set of handlers.
LEMMA QuietKeeps ==
    ASSUME GatewayInv, NEW c \in Connection, NEW s \in Stage, Goes(c, s),
           stage[c] \in Silent \/ s \notin Silent,
           UNCHANGED <<closing, handlers, said, ended>>,
           kind' \in [Connection -> Kind],
           upstream' \in [Connection -> BOOLEAN]
    PROVE  GatewayInv'
<1>1. Answers'  BY AnswersKept DEF GatewayInv, Answers
<1>2. GatewayTypes' /\ Bounded'  BY HandlerGoesOn DEF GatewayInv, GatewayTypes, Bounded
<1> QED BY <1>1, <1>2 DEF GatewayInv

\* A step of one handler that answers and leaves its exchange.
LEMMA SpeakingKeeps ==
    ASSUME GatewayInv, NEW c \in Connection, NEW s \in Stage \ Silent, Goes(c, s),
           stage[c] \in Silent, NEW h \in Heading, Says(c, h),
           UNCHANGED <<closing, handlers, kind, ended>>,
           upstream' \in [Connection -> BOOLEAN]
    PROVE  GatewayInv'
<1>1. said[c] = {}  BY DEF GatewayInv, Answers
<1>2. Answers'  BY <1>1, SaysOne, AnswersKept DEF GatewayInv
<1>3. GatewayTypes' /\ Bounded'
  BY <1>1, SaysOne, HandlerGoesOn DEF GatewayInv, GatewayTypes, Bounded
<1> QED BY <1>2, <1>3 DEF GatewayInv

-----------------------------------------------------------------------------
(* The invariant                                                             *)

LEMMA GatewayBegins == GatewayInit => GatewayInv
<1> SUFFICES ASSUME GatewayInit PROVE GatewayInv
  OBVIOUS
<1>1. GatewayTypes /\ Answers  BY DEF GatewayInit, GatewayTypes, Answers, Stage, Kind
<1>2. Bounded  BY FS_EmptySet DEF GatewayInit, Bounded
<1> QED BY <1>1, <1>2 DEF GatewayInv

\* A handler registers only where there is room.
LEMMA BeginKeeps ==
    ASSUME GatewayInv, NEW c \in Connection, Begin(c)
    PROVE  GatewayInv'
<1>1. stage[c] = "accepted" /\ stage[c] \in Silent  BY DEF Begin, Silent, Stage
<1>2. CASE Cardinality(handlers) >= MaxConnections  BY <1>1, <1>2, FailsKeeps DEF Begin
<1>3. CASE ~(Cardinality(handlers) >= MaxConnections)
  <2>1. /\ handlers' = handlers \cup {c} /\ Goes(c, "head")
        /\ UNCHANGED <<closing, kind, upstream, said, ended>>
    BY <1>3 DEF Begin
  <2>2. "head" \in Stage  BY DEF Stage
  <2>3. Answers'  BY <1>1, <2>1, <2>2, AnswersKept DEF GatewayInv, Answers
  <2>4. Cardinality(handlers) \in Nat /\ IsFiniteSet(handlers)
    BY FS_CardinalityType DEF GatewayInv, Bounded
  <2>5. IsFiniteSet(handlers') /\ Cardinality(handlers')
                                    \in {Cardinality(handlers),
                                         Cardinality(handlers) + 1}
    BY <2>1, <2>4, FS_AddElement
  <2>6. Bounded'  BY <1>3, <2>4, <2>5 DEF Bounded
  <2>7. GatewayTypes'  BY <2>1, <2>2, HandlerGoesOn DEF GatewayInv, GatewayTypes
  <2> QED BY <2>3, <2>6, <2>7 DEF GatewayInv
<1> QED BY <1>2, <1>3

\* The request decides the kind, which is none of the refused ones.
LEMMA ReadHeadKeeps ==
    ASSUME GatewayInv, NEW c \in Connection, ReadHead(c) \/ ReadEmptyIdentityBody(c)
    PROVE  GatewayInv'
<1>1. stage[c] \in {"head", "body"} /\ stage[c] \in Silent
  BY DEF ReadHead, ReadEmptyIdentityBody, Silent, Stage
<1>2. CASE Fails(c)  BY <1>1, <1>2, FailsKeeps
<1>3. CASE ~Fails(c)
  <2>1. PICK k \in Kind, s \in {"body", "connect"} :
          /\ kind' = [kind EXCEPT ![c] = k] /\ Goes(c, s)
          /\ UNCHANGED <<closing, handlers, upstream, said, ended>>
    <3>1. "identity" \in Kind  BY DEF Kind
    <3> QED BY <1>3, <3>1, OutcomeIsKind DEF ReadHead,
                                             ReadEmptyIdentityBody
  <2>2. s \in Stage  BY DEF Stage
  <2>3. kind' \in [Connection -> Kind] /\ upstream' \in [Connection -> BOOLEAN]
    BY <2>1 DEF GatewayInv, GatewayTypes
  <2> QED BY <1>1, <2>1, <2>2, <2>3, QuietKeeps
<1> QED BY <1>2, <1>3

LEMMA OpenUpstreamKeeps ==
    ASSUME GatewayInv, NEW c \in Connection, OpenUpstream(c)
    PROVE  GatewayInv'
<1>1. stage[c] = "connect" /\ stage[c] \in Silent  BY DEF OpenUpstream, Silent, Stage
<1>2. CASE Fails(c)  BY <1>1, <1>2, FailsKeeps
<1>3. CASE ~Fails(c)
  <2>1. /\ upstream' \in {[upstream EXCEPT ![c] = b] : b \in BOOLEAN}
        /\ UNCHANGED <<closing, handlers, kind, ended>>
        /\ \/ Says(c, "response") /\ Goes(c, "finally")
           \/ UNCHANGED said /\ Goes(c, "answer")
    BY <1>3 DEF OpenUpstream
  <2>2. upstream' \in [Connection -> BOOLEAN]  BY <2>1 DEF GatewayInv, GatewayTypes
  <2>3. kind' \in [Connection -> Kind]  BY <2>1 DEF GatewayInv, GatewayTypes
  <2>4. "finally" \in Stage \ Silent /\ "answer" \in Stage
        /\ "response" \in Heading
    BY DEF Stage, Silent, Heading
  <2> QED BY <1>1, <2>1, <2>2, <2>3, <2>4, QuietKeeps, SpeakingKeeps
<1> QED BY <1>2, <1>3

LEMMA ReadAnswerKeeps ==
    ASSUME GatewayInv, NEW c \in Connection, ReadAnswer(c) \/ Upgrade(c)
    PROVE  GatewayInv'
<1>1. stage[c] \in {"answer", "upgrade"} /\ stage[c] \in Silent
  BY DEF ReadAnswer, Upgrade, Silent, Stage
<1>2. CASE Fails(c)  BY <1>1, <1>2, FailsKeeps
<1>3. CASE ~Fails(c)
  <2>1. /\ UNCHANGED <<closing, handlers, kind, upstream, ended>>
        /\ \/ Says(c, "response") /\ Goes(c, "finally")
           \/ Says(c, "upgrade") /\ Goes(c, "relay")
           \/ UNCHANGED said /\ Goes(c, "upgrade")
    BY <1>3 DEF ReadAnswer, Upgrade
  <2>2. upstream' \in [Connection -> BOOLEAN] /\ kind' \in [Connection -> Kind]
    BY <2>1 DEF GatewayInv, GatewayTypes
  <2>3. /\ "finally" \in Stage \ Silent /\ "relay" \in Stage \ Silent
        /\ "upgrade" \in Stage /\ "response" \in Heading /\ "upgrade" \in Heading
    BY DEF Stage, Silent, Heading
  <2> QED BY <1>1, <2>1, <2>2, <2>3, QuietKeeps, SpeakingKeeps
<1> QED BY <1>2, <1>3

\* Relaying adds no head, and whatever ends it does not either.
LEMMA RelayKeeps ==
    ASSUME GatewayInv, NEW c \in Connection,
           PumpEnds(c) \/ PumpFails(c) \/ EofTimeout(c)
    PROVE  GatewayInv'
<1>1. CASE PumpFails(c) \/ EofTimeout(c)  BY <1>1, FailsKeeps DEF PumpFails, EofTimeout
<1>2. CASE PumpEnds(c)
  <2>1. "draining" \in Stage \ Silent  BY DEF Stage, Silent
  <2>2. upstream' \in [Connection -> BOOLEAN] /\ kind' \in [Connection -> Kind]
    BY <1>2 DEF PumpEnds, GatewayInv, GatewayTypes
  <2> QED BY <1>2, <2>1, <2>2, QuietKeeps DEF PumpEnds
<1> QED BY <1>1, <1>2

LEMMA CloseStreamsKeeps ==
    ASSUME GatewayInv, NEW c \in Connection, CloseStreams(c)
    PROVE  GatewayInv'
<1>1. Goes(c, "closed") /\ "closed" \in Stage \ Silent
  BY DEF CloseStreams, Stage, Silent
<1>2. Answers'  BY <1>1, AnswersKept DEF CloseStreams, GatewayInv, Answers
<1>3. IsFiniteSet(handlers) /\ Cardinality(handlers) \in Nat
  BY FS_CardinalityType DEF GatewayInv, Bounded
<1>4. IsFiniteSet(handlers') /\ Cardinality(handlers') <= Cardinality(handlers)
      /\ Cardinality(handlers') \in Nat
  BY <1>3, FS_Subset, FS_CardinalityType DEF CloseStreams
<1>5. Bounded'  BY <1>3, <1>4 DEF GatewayInv, Bounded
<1>6. GatewayTypes'  BY <1>1, HandlerGoesOn DEF CloseStreams, GatewayInv, GatewayTypes
<1> QED BY <1>2, <1>5, <1>6 DEF GatewayInv

LEMMA AcceptKeeps ==
    ASSUME GatewayInv, NEW c \in Connection, Accept(c)
    PROVE  GatewayInv'
<1>1. "new" \in Silent /\ "accepted" \in Stage  BY DEF Silent, Stage
<1>2. upstream' \in [Connection -> BOOLEAN] /\ kind' \in [Connection -> Kind]
  BY DEF Accept, GatewayInv, GatewayTypes
<1> QED BY <1>1, <1>2, QuietKeeps DEF Accept

\* An end of a connection, and the closing of the gateway, say nothing.
LEMMA EndsKeeps ==
    ASSUME GatewayInv, NEW c \in Connection, NEW s \in {"player", "server"},
           Ends(c, s)
    PROVE  GatewayInv'
<1>1. ended' \in [Connection -> SUBSET {"player", "server"}]
  BY DEF Ends, GatewayInv, GatewayTypes
<1> QED BY <1>1 DEF Ends, GatewayInv, GatewayTypes, Bounded, Answers

LEMMA CloseKeeps ==
    ASSUME GatewayInv, Close
    PROVE  GatewayInv'
<1>1. "finally" \in Stage \ Silent  BY DEF Stage, Silent
<1>2. stage' = [c \in Connection |->
                  IF c \in handlers THEN "finally" ELSE stage[c]]
  BY DEF Close
<1>3. Answers'  BY <1>1, <1>2 DEF Close, GatewayInv, Answers
<1>4. GatewayTypes' /\ Bounded'
  BY <1>1, <1>2 DEF Close, GatewayInv, GatewayTypes, Bounded
<1> QED BY <1>3, <1>4 DEF GatewayInv

LEMMA GatewayStep == GatewayInv /\ [GatewayNext]_gatewayVars => GatewayInv'
<1> SUFFICES ASSUME GatewayInv, [GatewayNext]_gatewayVars PROVE GatewayInv'
  OBVIOUS
<1>1. CASE UNCHANGED gatewayVars
  BY <1>1 DEF gatewayVars, GatewayInv, GatewayTypes, Bounded, Answers
<1>2. CASE Close  BY <1>2, CloseKeeps
<1>3. ASSUME NEW c \in Connection,
             \/ Accept(c) \/ Handle(c) \/ PumpFails(c)
             \/ \E s \in {"player", "server"} : Ends(c, s)
      PROVE  GatewayInv'
  BY <1>3, AcceptKeeps, BeginKeeps, ReadHeadKeeps, OpenUpstreamKeeps,
     ReadAnswerKeeps, RelayKeeps, CloseStreamsKeeps, EndsKeeps DEF Handle
<1> QED BY <1>1, <1>2, <1>3 DEF GatewayNext

\* The inductive invariant: a handler that is still in its exchange has said
\* nothing, and only registered handlers take places.
THEOREM GatewayInvCorrect == GatewaySpec => []GatewayInv
  BY GatewayBegins, GatewayStep, PTL DEF GatewaySpec

\* One head is counted as one.
LEMMA InvAnswersOnce == GatewayInv => AnsweredOnce
<1> SUFFICES ASSUME GatewayInv PROVE AnsweredOnce
  OBVIOUS
<1>1. GatewayTypeOK  BY DEF GatewayInv, GatewayTypes, Bounded, GatewayTypeOK, Heading
<1>2. ASSUME NEW c \in Connection PROVE Cardinality(said[c]) <= 1
  <2>1. CASE said[c] = {}  BY <2>1, FS_EmptySet
  <2>2. ASSUME NEW h \in Heading, said[c] = {h} PROVE Cardinality(said[c]) <= 1
    <3>1. Cardinality({h}) = 1  BY FS_Singleton
    <3> QED BY <2>2, <3>1
  <2> QED BY <2>1, <2>2 DEF GatewayInv, Answers
<1> QED BY <1>1, <1>2 DEF AnsweredOnce, OneHead

\* However many connections there are and wherever they break off, a player
\* is answered once (Gateway.handle) and the limit of handlers holds.
THEOREM AnsweredOnceCorrect == GatewaySpec => []AnsweredOnce
  BY GatewayInvCorrect, InvAnswersOnce, PTL

HIDE GatewayAssumption

-----------------------------------------------------------------------------
(* Deployment.  While one is under way, its phase says how far the host has  *)
(* moved from what it was when the lock was taken, which the attempt keeps;  *)
(* between deployments the tag of a service is the image of its container,   *)
(* without which putting a tag back would not put back what ran.             *)

Maybe == Release \cup {NoRelease}
Host == [image : [Service -> Maybe],
         container : [Service -> [image : Maybe, running : BOOLEAN]],
         runtime : Maybe, conf : Maybe, published : [Databases -> Maybe],
         web : Maybe, proxy : Maybe]
Attempt == [release : Maybe, old : Host, changed : BOOLEAN,
            stopped : SUBSET Service, recover : BOOLEAN, switched : BOOLEAN]

HostTypes ==
    /\ phase \in [Release -> Phase] /\ deploying \in Maybe
    /\ HostNow \in Host /\ attempt \in Attempt

Unchanged == {"preflight", "validating", "backing-up", "stopped", "installing"}
Shown == {"switched", "announcing"}
Forward == {"publishing", "activating-web"} \cup Shown
Steps == Unchanged \cup {"starting-database", "starting-auth"} \cup Forward

Tagged(p) == IF p = "preflight" THEN {} ELSE IF p = "validating" THEN {"db"} ELSE Service
Halted(p) == CASE p = "stopped" -> {"db"}
               [] p \in {"installing", "starting-database"} -> Service
               [] p = "starting-auth" -> {"auth"}
               [] OTHER -> {}
Started(p) == IF p = "starting-auth" THEN {"db"}
              ELSE IF p \in Forward THEN Service ELSE {}
HostWhole(h) ==
    /\ \A s \in Service : h.container[s] # Absent => h.image[s] = h.container[s].image
    /\ h.runtime = NoRelease => \A s \in Service : h.container[s] = Absent

UnderWay(r, p) ==
    LET old == attempt.old
    IN /\ attempt.release = r /\ HostWhole(old)
       /\ attempt.changed = (p \notin Unchanged)
       /\ attempt.recover = (p \notin Forward) /\ attempt.switched = (p = "switched")
       /\ attempt.stopped = {s \in Halted(p) : old.container[s] # Absent}
       /\ \A s \in Service :
            /\ image[s] = IF s \in Tagged(p) THEN r ELSE old.image[s]
            /\ container[s] = IF s \in Started(p) THEN [image |-> r, running |-> TRUE]
                              ELSE IF s \in attempt.stopped
                              THEN [image |-> old.container[s].image, running |-> FALSE]
                              ELSE old.container[s]
       /\ runtime = (IF p \in Unchanged THEN old.runtime ELSE r)
       /\ conf = (IF p \in Unchanged THEN old.conf ELSE r)
       /\ published = IF p \in {"activating-web"} \cup Shown
                      THEN [old.published EXCEPT ![DatabaseOf(r)] = r] ELSE old.published
       /\ web = (IF p \in Shown THEN r ELSE old.web)
       /\ p \in Shown => proxy = r

Resting == {"local", "staged", "ready", "failed"}

DeployInv ==
    /\ HostTypes
    /\ \A r \in Release : /\ phase[r] # "local" => Build[r].packaged = DatabaseOf(r)
                          /\ r # deploying => phase[r] \in Resting
                          /\ r = deploying => phase[r] \in Steps /\ UnderWay(r, phase[r])
    /\ deploying = NoRelease => HostWhole(HostNow)
    /\ Latest # NoRelease => phase[Latest] \notin {"local", "staged"}
    /\ FailureRestores /\ ReadyIsOneRelease

USE DeployAssumption

LEMMA DeployInvIsWhole == DeployInv => DeployIsWhole
  BY DEF DeployInv, HostTypes, HostNow, Host, Attempt, Maybe, DeployIsWhole, DeployTypeOK

LEMMA DeployBegins == DeployInit => DeployInv
<1> SUFFICES ASSUME DeployInit PROVE DeployInv
  OBVIOUS
<1>1. HostNow \in Host  BY DEF DeployInit, HostNow, Host, Maybe, Absent
<1>2. attempt = NoAttempt  BY DEF DeployInit
<1>3. attempt \in Attempt /\ Latest = NoRelease
  BY <1>1, <1>2 DEF NoAttempt, Attempt, Maybe, Latest
<1>4. HostWhole(HostNow)  BY DEF DeployInit, HostWhole, HostNow, Absent
<1> QED BY <1>1, <1>3, <1>4
        DEF DeployInit, DeployInv, HostTypes, Maybe, Phase, Resting, FailureRestores,
            ReadyIsOneRelease

\* The variables of a host, from the record of them.
LEMMA HostFields ==
    ASSUME HostTypes
    PROVE  /\ image \in [Service -> Maybe]
           /\ container \in [Service -> [image : Maybe, running : BOOLEAN]]
           /\ runtime \in Maybe /\ conf \in Maybe /\ web \in Maybe /\ proxy \in Maybe
           /\ published \in [Databases -> Maybe]
  BY DEF HostTypes, HostNow, Host

LEMMA OldFields ==
    ASSUME HostTypes
    PROVE  LET old == attempt.old
           IN /\ old.image \in [Service -> Maybe]
              /\ old.container \in [Service -> [image : Maybe, running : BOOLEAN]]
              /\ old.runtime \in Maybe /\ old.conf \in Maybe /\ old.web \in Maybe
              /\ old.proxy \in Maybe /\ old.published \in [Databases -> Maybe]
  BY DEF HostTypes, Attempt, Host

\* A deployment that stays under way and reaches the phase q.
LEMMA GoesOn ==
    ASSUME DeployInv, NEW r \in Release, deploying = r, NEW q \in Steps,
           Enters(r, q), deploying' = deploying,
           HostNow' \in Host, attempt' \in Attempt, UnderWay(r, q)'
    PROVE  DeployInv'
<1>1. /\ phase \in [Release -> Phase] /\ deploying \in Maybe /\ r # NoRelease
      /\ phase[r] \in Steps
  BY DEF DeployInv, HostTypes
<1>2. phase' = [phase EXCEPT ![r] = q] /\ q \in Phase
  BY DEF Enters, Steps, Unchanged, Forward, Shown, Phase
<1>3. phase' \in [Release -> Phase] /\ phase'[r] = q
      /\ \A o \in Release \ {r} : phase'[o] = phase[o]
  BY <1>1, <1>2
<1>4. HostTypes'  BY <1>1, <1>3 DEF HostTypes
<1>5. Build[r].packaged = DatabaseOf(r)
  BY <1>1 DEF DeployInv, Steps, Unchanged, Forward, Shown
<1>6. Latest' = r  BY DEF UnderWay, Latest
<1>7. FailureRestores' /\ ReadyIsOneRelease'  BY <1>1, <1>3, <1>6
  DEF FailureRestores, ReadyIsOneRelease, Steps, Unchanged, Forward, Shown
<1>8. q \notin {"local", "staged"}  BY DEF Steps, Unchanged, Forward, Shown
<1>9. (DatabaseOf(r))' = DatabaseOf(r)  BY DEF DatabaseOf
<1> QED BY <1>1, <1>3, <1>4, <1>5, <1>6, <1>7, <1>8, <1>9 DEF DeployInv, DatabaseOf

LEMMA MainKeeps ==
    ASSUME DeployInv, NEW r \in Release, Main(r)
    PROVE  DeployInv'
<1>1. /\ phase[r] = "local" /\ Build[r].packaged = Build[r].database
      /\ phase' = [phase EXCEPT ![r] = "staged"] /\ UNCHANGED <<deploying, host, attempt>>
  BY DEF Main, ReadPackConfig
<1>2. UNCHANGED <<image, container, runtime, conf, published, web, proxy>>
  BY <1>1 DEF host
<1>3. phase \in [Release -> Phase] /\ r # deploying /\ r # Latest
  BY <1>1 DEF DeployInv, HostTypes, Steps, Unchanged, Forward, Shown
<1>4. phase' \in [Release -> Phase] /\ phase'[r] = "staged"
      /\ \A o \in Release \ {r} : phase'[o] = phase[o]
  BY <1>1, <1>3 DEF Phase
<1>5. HostTypes' /\ HostNow' = HostNow
  BY <1>1, <1>2, <1>4 DEF DeployInv, HostTypes, HostNow
<1>6. Latest' = Latest /\ Latest \in Maybe
  BY <1>1 DEF Latest, DeployInv, HostTypes, Attempt
<1>7. FailureRestores'
  BY <1>1, <1>2, <1>3, <1>4, <1>6 DEF DeployInv, FailureRestores, Maybe, Serves, DatabaseOf
<1>8. ReadyIsOneRelease'
  BY <1>1, <1>2, <1>3, <1>4, <1>6 DEF DeployInv, ReadyIsOneRelease, Maybe, DatabaseOf, Serves
<1>9. \A o \in Release : /\ phase'[o] # "local" => Build[o].packaged = DatabaseOf(o)
                         /\ o # deploying => phase'[o] \in Resting
  BY <1>1, <1>4 DEF DeployInv, DatabaseOf, Resting
<1>10. ASSUME NEW o \in Release, o = deploying
       PROVE  phase'[o] \in Steps /\ UnderWay(o, phase[o])'
  <2>1. phase'[o] = phase[o] /\ phase[o] \in Steps /\ UnderWay(o, phase[o])
    BY <1>3, <1>4, <1>10 DEF DeployInv
  <2>2. UnderWay(o, phase[o])'  BY <1>1, <1>2, <2>1 DEF UnderWay
  <2> QED BY <2>1, <2>2
<1>11. Latest' # NoRelease => phase'[Latest'] \notin {"local", "staged"}
  BY <1>3, <1>4, <1>6 DEF DeployInv, Maybe
<1>12. deploying' = NoRelease => HostWhole(HostNow')  BY <1>1, <1>5 DEF DeployInv
<1> QED BY <1>1, <1>5, <1>7, <1>8, <1>9, <1>10, <1>11, <1>12 DEF DeployInv, DatabaseOf, HostWhole

LEMMA LockKeeps ==
    ASSUME DeployInv, NEW r \in Release, LockDeployment(r)
    PROVE  DeployInv'
<1>1. /\ deploying = NoRelease /\ phase[r] = "staged" /\ deploying' = r
      /\ Enters(r, "preflight") /\ attempt' = [NoAttempt EXCEPT !.release = r]
      /\ UNCHANGED host
  BY DEF LockDeployment
<1>2. UNCHANGED <<image, container, runtime, conf, published, web, proxy>>
  BY <1>1 DEF host
<1>3. HostNow' = HostNow /\ HostNow \in Host /\ HostWhole(HostNow)
  BY <1>1, <1>2 DEF HostNow, DeployInv, HostTypes
<1>4. attempt' = [release |-> r, old |-> HostNow, changed |-> FALSE,
                  stopped |-> {}, recover |-> TRUE, switched |-> FALSE]
  BY <1>1 DEF NoAttempt
<1>5. attempt' \in Attempt  BY <1>3, <1>4 DEF Attempt, Maybe
<1>6. /\ HostNow.image = image /\ HostNow.container = container
      /\ HostNow.runtime = runtime /\ HostNow.conf = conf
      /\ HostNow.published = published /\ HostNow.web = web
  BY DEF HostNow
<1>7. UnderWay(r, "preflight")'
  <2>1. HostWhole(attempt'.old)  BY <1>3, <1>4
  <2> QED BY <1>2, <1>4, <1>6, <2>1
          DEF UnderWay, Unchanged, Forward, Shown, Halted, Tagged, Started, HostWhole
<1>8. /\ phase \in [Release -> Phase] /\ phase' = [phase EXCEPT ![r] = "preflight"]
      /\ r # NoRelease
  BY <1>1 DEF DeployInv, HostTypes, Enters
<1>9. phase' \in [Release -> Phase] /\ phase'[r] = "preflight"
      /\ \A o \in Release \ {r} : phase'[o] = phase[o]
  BY <1>8 DEF Phase
<1>10. HostTypes'  BY <1>1, <1>3, <1>5, <1>9 DEF HostTypes, Maybe
<1>11. Latest' = r  BY <1>4 DEF Latest
<1>12. FailureRestores' /\ ReadyIsOneRelease'
  BY <1>9, <1>11 DEF FailureRestores, ReadyIsOneRelease
<1>13. \A o \in Release : /\ phase'[o] # "local" => Build[o].packaged = DatabaseOf(o)
                          /\ o # r => phase'[o] \in Resting
  BY <1>1, <1>9 DEF DeployInv, DatabaseOf
<1> QED BY <1>1, <1>7, <1>8, <1>9, <1>10, <1>11, <1>12, <1>13
        DEF DeployInv, DatabaseOf, Steps, Unchanged

LEMMA RebootKeeps ==
    ASSUME DeployInv, Reboot
    PROVE  DeployInv'
<1>1. /\ deploying = NoRelease /\ proxy' = conf
      /\ UNCHANGED <<phase, deploying, image, container, runtime, conf,
                     published, web, attempt>>
  BY DEF Reboot
<1>2. HostNow' \in Host  BY <1>1, HostFields DEF DeployInv, HostNow, Host
<1>3. HostTypes'  BY <1>1, <1>2 DEF DeployInv, HostTypes
<1>4. HostWhole(HostNow)'  BY <1>1 DEF DeployInv, HostWhole, HostNow
<1>5. FailureRestores'
  BY <1>1 DEF DeployInv, FailureRestores, Latest, Serves, DatabaseOf
<1>6. ReadyIsOneRelease'
  BY <1>1 DEF DeployInv, ReadyIsOneRelease, Latest, Serves, DatabaseOf
<1>7. \A r \in Release : r # deploying  BY <1>1
<1> QED BY <1>1, <1>3, <1>4, <1>5, <1>6, <1>7 DEF DeployInv, Latest

\* What the phase of the deployment under way says.
LEMMA UnderWayHere ==
    ASSUME DeployInv, NEW r \in Release, deploying = r
    PROVE  /\ phase[r] \in Steps /\ UnderWay(r, phase[r]) /\ r # NoRelease
           /\ HostTypes
  BY DEF DeployInv

LEMMA BuildKeeps ==
    ASSUME DeployInv, NEW r \in Release, BuildImages(r)
    PROVE  DeployInv'
<1>1. /\ deploying = r
      /\ UNCHANGED <<deploying, container, runtime, conf, published, web, proxy, attempt>>
  BY DEF BuildImages
<1>2. HostTypes /\ UnderWay(r, phase[r])  BY <1>1, UnderWayHere
<1>3. attempt' \in Attempt  BY <1>1, <1>2 DEF HostTypes
<1>4. ASSUME NEW s \in Service, image' = [image EXCEPT ![s] = r]
      PROVE  HostNow' \in Host /\ \A t \in Service : image'[t] = IF t = s THEN r ELSE image[t]
  <2>1. image' \in [Service -> Maybe]  BY <1>2, <1>4, HostFields DEF Maybe
  <2>2. HostNow' \in Host  BY <1>1, <1>2, <2>1, HostFields DEF HostNow, Host
  <2> QED BY <1>2, <1>4, <2>2, HostFields
<1>5. CASE phase[r] = "preflight" /\ Enters(r, "validating")
           /\ image' = [image EXCEPT !["db"] = r]
  <2>1. UnderWay(r, "validating")'
    BY <1>1, <1>2, <1>4, <1>5 DEF UnderWay, Service, Tagged, Halted, Started, Unchanged, Forward, Shown
  <2> QED BY <1>1, <1>3, <1>4, <1>5, <2>1, GoesOn DEF Service, Steps, Unchanged
<1>6. CASE phase[r] = "validating" /\ Enters(r, "backing-up")
           /\ image' = [image EXCEPT !["auth"] = r]
  <2>1. UnderWay(r, "backing-up")'
    BY <1>1, <1>2, <1>4, <1>6 DEF UnderWay, Service, Tagged, Halted, Started, Unchanged, Forward, Shown
  <2> QED BY <1>1, <1>3, <1>4, <1>6, <2>1, GoesOn DEF Service, Steps, Unchanged
<1> QED BY <1>5, <1>6 DEF BuildImages

LEMMA StopKeeps ==
    ASSUME DeployInv, NEW r \in Release, NEW s \in Service, StopService(r, s)
    PROVE  DeployInv'
<1> DEFINE exists == attempt.old.container[s] # Absent
           q == IF s = "db" THEN "stopped" ELSE "installing"
<1>1. /\ deploying = r /\ Enters(r, q)
      /\ phase[r] = IF s = "db" THEN "backing-up" ELSE "stopped"
      /\ container' = [container EXCEPT ![s].running = @ /\ ~exists]
      /\ attempt' = [attempt EXCEPT !.stopped = IF exists THEN @ \cup {s} ELSE @]
      /\ UNCHANGED <<deploying, image, runtime, conf, published, web, proxy>>
  BY DEF StopService
<1>2. HostTypes /\ UnderWay(r, phase[r])  BY <1>1, UnderWayHere
<1>3. /\ container \in [Service -> [image : Maybe, running : BOOLEAN]]
      /\ attempt.old.container \in [Service -> [image : Maybe, running : BOOLEAN]]
  BY <1>2, HostFields, OldFields
<1>4. /\ container'[s] = [image |-> container[s].image,
                          running |-> container[s].running /\ ~exists]
      /\ \A t \in Service : t # s => container'[t] = container[t]
      /\ container' \in [Service -> [image : Maybe, running : BOOLEAN]]
  <2>1. container[s].image \in Maybe /\ container[s].running \in BOOLEAN  BY <1>3
  <2>2. container[s] = [image |-> container[s].image, running |-> container[s].running]
    BY <1>3
  <2>3. container'[s] = [image |-> container[s].image,
                         running |-> container[s].running /\ ~exists]
    BY <1>1, <1>3, <2>2
  <2> HIDE DEF exists
  <2>4. container'[s] \in [image : Maybe, running : BOOLEAN]  BY <2>1, <2>3
  <2> QED BY <1>1, <1>3, <2>3, <2>4
<1>5. /\ attempt' \in Attempt /\ attempt'.old = attempt.old
      /\ attempt'.release = attempt.release /\ attempt'.changed = attempt.changed
      /\ attempt'.recover = attempt.recover /\ attempt'.switched = attempt.switched
      /\ attempt'.stopped = IF exists THEN attempt.stopped \cup {s} ELSE attempt.stopped
  <2>1. attempt \in Attempt  BY <1>2 DEF HostTypes
  <2> QED BY <1>1, <2>1 DEF Attempt
<1>6. HostNow' \in Host  BY <1>1, <1>2, <1>4, HostFields DEF HostNow, Host
<1>7. attempt.stopped = {t \in Halted(phase[r]) : attempt.old.container[t] # Absent}
  BY <1>2 DEF UnderWay
<1>8. Halted(q) = Halted(phase[r]) \cup {s} /\ s \notin Halted(phase[r])
  BY <1>1 DEF Halted, Service
<1>9. attempt'.stopped = {t \in Halted(q) : attempt'.old.container[t] # Absent}
  BY <1>5, <1>7, <1>8
<1>10. ASSUME NEW t \in Service
       PROVE  container'[t] = IF t \in attempt'.stopped
                              THEN [image |-> attempt.old.container[t].image, running |-> FALSE]
                              ELSE attempt.old.container[t]
  <2>1. container[t] = IF t \in attempt.stopped
                       THEN [image |-> attempt.old.container[t].image, running |-> FALSE]
                       ELSE attempt.old.container[t]
    BY <1>1, <1>2 DEF UnderWay, Started, Forward, Shown
  <2>2. CASE t # s  BY <1>4, <1>5, <2>1, <2>2
  <2>3. CASE t = s
    <3>1. container[s] = attempt.old.container[s]  BY <1>7, <1>8, <2>1, <2>3
    <3>2. CASE exists  BY <1>4, <1>5, <2>3, <3>1, <3>2
    <3>3. CASE ~exists
      <4>1. s \notin attempt'.stopped  BY <1>5, <1>7, <1>8, <3>3
      <4>2. container'[s] = Absent
        <5>1. container[s] = Absent /\ ~exists  BY <3>1, <3>3
        <5>2. container[s].image = NoRelease /\ container[s].running = FALSE
          BY <5>1 DEF Absent
        <5>3. (container[s].running /\ ~exists) = FALSE  BY <5>2
        <5> HIDE DEF exists
        <5> QED BY <1>4, <5>2, <5>3 DEF Absent
      <4> QED BY <2>3, <3>3, <4>1, <4>2
    <3> QED BY <3>2, <3>3
  <2> QED BY <2>2, <2>3
<1>11. UnderWay(r, q)'
  <2>1. /\ phase[r] \in {"backing-up", "stopped"} /\ q \in {"stopped", "installing"}
    BY <1>1
  <2>2. /\ attempt.release = r /\ HostWhole(attempt.old)
        /\ attempt.changed = FALSE /\ attempt.recover = TRUE /\ attempt.switched = FALSE
        /\ (\A t \in Service : image[t] = r)
        /\ runtime = attempt.old.runtime /\ conf = attempt.old.conf
        /\ published = attempt.old.published /\ web = attempt.old.web
    BY <1>2, <2>1 DEF UnderWay, Unchanged, Forward, Shown, Tagged
  <2>3. HostWhole(attempt'.old)  BY <1>5, <2>2
  <2> HIDE DEF q
  <2>4. /\ attempt'.changed = (q \notin Unchanged) /\ attempt'.recover = (q \notin Forward)
        /\ attempt'.switched = (q = "switched")
    BY <1>5, <2>1, <2>2 DEF Unchanged, Forward, Shown
  <2>5. Tagged(q) = Service /\ Started(q) = {} /\ q \in Unchanged
    BY <2>1 DEF Unchanged, Forward, Shown, Tagged, Started
  <2>6. /\ runtime' = attempt'.old.runtime /\ conf' = attempt'.old.conf
        /\ published' = attempt'.old.published /\ web' = attempt'.old.web
        /\ \A t \in Service : image'[t] = r
    BY <1>1, <1>5, <2>2
  <2> QED BY <1>5, <1>9, <1>10, <2>1, <2>2, <2>3, <2>4, <2>5, <2>6
          DEF UnderWay, Shown, Unchanged, HostWhole
<1>12. q \in Steps  BY DEF Steps, Unchanged
<1> HIDE DEF q, exists
<1> QED BY <1>1, <1>5, <1>6, <1>11, <1>12, GoesOn

LEMMA InstallKeeps ==
    ASSUME DeployInv, NEW r \in Release, InstallRuntime(r)
    PROVE  DeployInv'
<1>1. /\ deploying = r /\ phase[r] = "installing" /\ Enters(r, "starting-database")
      /\ runtime' = r /\ conf' = r /\ attempt' = [attempt EXCEPT !.changed = TRUE]
      /\ UNCHANGED <<deploying, image, container, published, web, proxy>>
  BY DEF InstallRuntime
<1>2. HostTypes /\ UnderWay(r, "installing")  BY <1>1, UnderWayHere
<1>3. /\ attempt' \in Attempt /\ attempt'.old = attempt.old
      /\ attempt'.release = attempt.release /\ attempt'.changed = TRUE
      /\ attempt'.recover = attempt.recover /\ attempt'.switched = attempt.switched
      /\ attempt'.stopped = attempt.stopped
  <2>1. attempt \in Attempt  BY <1>2 DEF HostTypes
  <2> QED BY <1>1, <2>1 DEF Attempt
<1>4. HostNow' \in Host  BY <1>1, <1>2, HostFields DEF HostNow, Host, Maybe
<1>5. UnderWay(r, "starting-database")'
  <2>1. /\ attempt.release = r /\ HostWhole(attempt.old)
        /\ attempt.recover = TRUE /\ attempt.switched = FALSE
        /\ attempt.stopped = {t \in Service : attempt.old.container[t] # Absent}
        /\ published = attempt.old.published /\ web = attempt.old.web
        /\ \A t \in Service :
             /\ image[t] = r
             /\ container[t] = IF t \in attempt.stopped
                               THEN [image |-> attempt.old.container[t].image, running |-> FALSE]
                               ELSE attempt.old.container[t]
    BY <1>2 DEF UnderWay, Unchanged, Forward, Shown, Tagged, Started, Halted
  <2>2. HostWhole(attempt'.old)  BY <1>3, <2>1
  <2> DEFINE q == "starting-database"
  <2>3. /\ attempt'.changed = (q \notin Unchanged) /\ attempt'.recover = (q \notin Forward)
        /\ attempt'.switched = (q = "switched")
    BY <1>3, <2>1 DEF Unchanged, Forward, Shown
  <2>4. Tagged(q) = Service /\ Started(q) = {} /\ q \notin Unchanged /\ Halted(q) = Service
    BY DEF Unchanged, Forward, Shown, Tagged, Started, Halted
  <2>5. q \notin {"activating-web"} \cup Shown  BY DEF Shown
  <2> HIDE DEF q
  <2>6. UnderWay(r, q)'
    <3>1. /\ attempt'.release = r
          /\ attempt'.stopped = {t \in Halted(q) : attempt'.old.container[t] # Absent}
      BY <1>3, <2>1, <2>4
    <3>2. /\ published' = attempt'.old.published /\ web' = attempt'.old.web
          /\ runtime' = r /\ conf' = r
      BY <1>1, <1>3, <2>1
    <3>3. \A t \in Service :
             /\ image'[t] = r
             /\ container'[t] = IF t \in attempt'.stopped
                                THEN [image |-> attempt'.old.container[t].image,
                                      running |-> FALSE]
                                ELSE attempt'.old.container[t]
      BY <1>1, <1>3, <2>1
    <3> QED BY <2>2, <2>3, <2>4, <2>5, <3>1, <3>2, <3>3 DEF UnderWay, HostWhole
  <2> QED BY <2>6 DEF q
<1> QED BY <1>1, <1>3, <1>4, <1>5, GoesOn DEF Steps

LEMMA StartKeeps ==
    ASSUME DeployInv, NEW r \in Release, NEW s \in Service, StartService(r, s)
    PROVE  DeployInv'
<1> DEFINE p == IF s = "db" THEN "starting-database" ELSE "starting-auth"
           q == IF s = "db" THEN "starting-auth" ELSE "publishing"
<1>1. /\ deploying = r /\ phase[r] = p /\ Enters(r, q)
      /\ container' = [container EXCEPT ![s] = [image |-> image[s], running |-> TRUE]]
      /\ attempt' = [attempt EXCEPT !.stopped = @ \ {s}, !.recover = s = "db"]
      /\ UNCHANGED <<deploying, image, runtime, conf, published, web, proxy>>
  BY DEF StartService
<1>2. HostTypes /\ UnderWay(r, p)  BY <1>1, UnderWayHere
<1>3. /\ attempt' \in Attempt /\ attempt'.old = attempt.old
      /\ attempt'.release = attempt.release /\ attempt'.changed = attempt.changed
      /\ attempt'.recover = (s = "db") /\ attempt'.switched = attempt.switched
      /\ attempt'.stopped = attempt.stopped \ {s}
  <2>1. attempt \in Attempt  BY <1>2 DEF HostTypes
  <2> QED BY <1>1, <2>1 DEF Attempt
<1>4. image[s] = r  BY <1>2 DEF UnderWay, Tagged
<1>5. /\ container'[s] = [image |-> r, running |-> TRUE]
      /\ \A t \in Service : t # s => container'[t] = container[t]
      /\ container' \in [Service -> [image : Maybe, running : BOOLEAN]]
  <2>1. container \in [Service -> [image : Maybe, running : BOOLEAN]]
    BY <1>2, HostFields
  <2>2. [image |-> r, running |-> TRUE] \in [image : Maybe, running : BOOLEAN]
    BY DEF Maybe
  <2> QED BY <1>1, <1>4, <2>1, <2>2
<1>6. HostNow' \in Host  BY <1>1, <1>2, <1>5, HostFields DEF HostNow, Host
<1>7. CASE s = "db"
  <2>1. attempt'.stopped = {t \in Halted(q) : attempt.old.container[t] # Absent}
    BY <1>2, <1>3, <1>7 DEF UnderWay, Halted, Service
  <2>2. UnderWay(r, "starting-auth")'  BY <1>1, <1>2, <1>3, <1>5, <1>7, <2>1
    DEF UnderWay, Unchanged, Forward, Shown, Tagged, Started, HostWhole, Service
  <2> QED BY <1>1, <1>3, <1>6, <1>7, <2>2, GoesOn DEF Steps
<1>8. CASE s = "auth"
  <2>1. attempt'.stopped = {t \in Halted(q) : attempt.old.container[t] # Absent}
    BY <1>2, <1>3, <1>8 DEF UnderWay, Halted, Service
  <2>2. UnderWay(r, "publishing")'  BY <1>1, <1>2, <1>3, <1>5, <1>8, <2>1
    DEF UnderWay, Unchanged, Forward, Shown, Tagged, Started, HostWhole, Service
  <2> QED BY <1>1, <1>3, <1>6, <1>8, <2>2, GoesOn DEF Steps, Forward, Shown
<1> QED BY <1>7, <1>8 DEF Service

LEMMA PublishKeeps ==
    ASSUME DeployInv, NEW r \in Release, PublishModule(r)
    PROVE  DeployInv'
<1>1. /\ deploying = r /\ phase[r] = "publishing" /\ Enters(r, "activating-web")
      /\ published' = [published EXCEPT ![DatabaseOf(r)] = runtime]
      /\ UNCHANGED <<deploying, image, container, runtime, conf, web, proxy, attempt>>
  BY DEF PublishModule
<1>2. HostTypes /\ UnderWay(r, "publishing")  BY <1>1, UnderWayHere
<1>3. attempt' \in Attempt  BY <1>1, <1>2 DEF HostTypes
<1>4. HostNow' \in Host
  <2>1. published' \in [Databases -> Maybe]  BY <1>1, <1>2, HostFields
  <2> QED BY <1>1, <1>2, <2>1, HostFields DEF HostNow, Host, Databases, DatabaseOf
<1>5. runtime = r  BY <1>2 DEF UnderWay, Unchanged
<1>6. UnderWay(r, "activating-web")'
  <2>1. published' = [attempt.old.published EXCEPT ![DatabaseOf(r)] = r]
    BY <1>1, <1>2, <1>5 DEF UnderWay
  <2> QED BY <1>1, <1>2, <1>5, <2>1
  DEF UnderWay, Unchanged, Forward, Shown, Tagged, Started, Halted, HostWhole, DatabaseOf
<1> QED BY <1>1, <1>3, <1>4, <1>6, GoesOn DEF Steps, Forward, Shown

LEMMA WebKeeps ==
    ASSUME DeployInv, NEW r \in Release, ActivateWeb(r)
    PROVE  DeployInv'
<1>1. /\ deploying = r /\ phase[r] = "activating-web" /\ Enters(r, "switched")
      /\ web' = r /\ proxy' = conf /\ attempt' = [attempt EXCEPT !.switched = TRUE]
      /\ UNCHANGED <<deploying, image, container, runtime, conf, published>>
  BY DEF ActivateWeb
<1>2. HostTypes /\ UnderWay(r, "activating-web")  BY <1>1, UnderWayHere
<1>3. /\ attempt' \in Attempt /\ attempt'.old = attempt.old
      /\ attempt'.release = attempt.release /\ attempt'.changed = attempt.changed
      /\ attempt'.recover = attempt.recover /\ attempt'.switched = TRUE
      /\ attempt'.stopped = attempt.stopped
  <2>1. attempt \in Attempt  BY <1>2 DEF HostTypes
  <2> QED BY <1>1, <2>1 DEF Attempt
<1>4. conf = r  BY <1>2 DEF UnderWay, Unchanged
<1>5. HostNow' \in Host  BY <1>1, <1>2, <1>4, HostFields DEF HostNow, Host, Maybe
<1>6. UnderWay(r, "switched")'
  <2>1. /\ attempt.release = r /\ HostWhole(attempt.old)
        /\ attempt.changed = TRUE /\ attempt.recover = FALSE
        /\ attempt.stopped = {}
        /\ published = [attempt.old.published EXCEPT ![DatabaseOf(r)] = r]
        /\ runtime = r
        /\ \A t \in Service : image[t] = r /\ container[t] = [image |-> r, running |-> TRUE]
    BY <1>2 DEF UnderWay, Unchanged, Forward, Shown, Tagged, Started, Halted
  <2>2. HostWhole(attempt'.old)  BY <1>3, <2>1
  <2>3. published' = [attempt'.old.published EXCEPT ![DatabaseOf(r)] = r]
    BY <1>1, <1>3, <2>1
  <2> QED BY <1>1, <1>3, <1>4, <2>1, <2>2, <2>3
          DEF UnderWay, Unchanged, Forward, Shown, Tagged, Started, Halted, HostWhole, DatabaseOf
<1> QED BY <1>1, <1>3, <1>5, <1>6, GoesOn DEF Steps, Forward, Shown

\* A deployment that is over.
LEMMA DeploymentEnds ==
    ASSUME DeployInv, NEW r \in Release, deploying = r, NEW q \in {"ready", "failed"},
           Enters(r, q), deploying' = NoRelease, HostNow' \in Host, attempt' = attempt,
           HostWhole(HostNow)', FailureRestores', ReadyIsOneRelease'
    PROVE  DeployInv'
<1>1. /\ phase[r] \in Steps /\ Latest = r /\ HostTypes /\ r # NoRelease
  BY UnderWayHere DEF UnderWay, Latest
<1>2. phase' = [phase EXCEPT ![r] = q] /\ phase \in [Release -> Phase]
  BY <1>1 DEF Enters, HostTypes
<1>3. phase' \in [Release -> Phase] /\ phase'[r] = q
      /\ \A o \in Release \ {r} : phase'[o] = phase[o]
  BY <1>2 DEF Phase
<1>4. HostTypes'  BY <1>1, <1>3 DEF HostTypes, Maybe
<1>5. \A o \in Release : /\ phase'[o] # "local" => Build[o].packaged = DatabaseOf(o)
                         /\ phase'[o] \in Resting
  BY <1>1, <1>3 DEF DeployInv, DatabaseOf, Resting, Steps, Unchanged, Forward, Shown
<1>6. Latest' = r  BY <1>1 DEF Latest
<1>7. \A o \in Release : o # deploying'
  OBVIOUS
<1>8. Latest' # NoRelease => phase'[Latest'] \notin {"local", "staged"}  BY <1>3, <1>6
<1> QED BY <1>4, <1>5, <1>7, <1>8 DEF DeployInv, DatabaseOf

\* A release that is shown and checked is served as a whole.
LEMMA ShownIsServed ==
    ASSUME DeployInv, NEW r \in Release, deploying = r, phase[r] \in Shown
    PROVE  Serves(r) /\ attempt.stopped = {}
<1>1. HostTypes /\ UnderWay(r, phase[r]) /\ phase[r] \in Shown  BY UnderWayHere
<1>2. /\ \A s \in Service : container[s] = [image |-> r, running |-> TRUE]
      /\ runtime = r /\ conf = r /\ web = r /\ proxy = r
      /\ published = [attempt.old.published EXCEPT ![DatabaseOf(r)] = r]
      /\ attempt.stopped = {}
  BY <1>1 DEF UnderWay, Unchanged, Forward, Shown, Tagged, Started, Halted
<1>3. published[DatabaseOf(r)] = r  BY <1>1, <1>2, OldFields DEF Databases
<1>4. Build[r].packaged = DatabaseOf(r)  BY <1>1 DEF DeployInv, Shown
<1> QED BY <1>2, <1>3, <1>4 DEF Serves

LEMMA KeepWebKeeps ==
    ASSUME DeployInv, NEW r \in Release, KeepWeb(r)
    PROVE  DeployInv'
<1>1. /\ deploying = r /\ phase[r] = "switched" /\ Enters(r, "announcing")
      /\ attempt' = [attempt EXCEPT !.switched = FALSE]
      /\ UNCHANGED <<deploying, image, container, runtime, conf, published, web, proxy>>
  BY DEF KeepWeb, host
<1>2. HostTypes /\ UnderWay(r, "switched")  BY <1>1, UnderWayHere
<1>3. /\ attempt' \in Attempt /\ attempt'.old = attempt.old
      /\ attempt'.release = attempt.release /\ attempt'.changed = attempt.changed
      /\ attempt'.recover = attempt.recover /\ attempt'.switched = FALSE
      /\ attempt'.stopped = attempt.stopped
  <2>1. attempt \in Attempt  BY <1>2 DEF HostTypes
  <2> QED BY <1>1, <2>1 DEF Attempt
<1>4. HostNow' \in Host  BY <1>1, <1>2, HostFields DEF HostNow, Host
<1>5. UnderWay(r, "announcing")'
  <2>1. /\ attempt.release = r /\ HostWhole(attempt.old)
        /\ attempt.changed = TRUE /\ attempt.recover = FALSE
        /\ attempt.stopped = {}
        /\ published = [attempt.old.published EXCEPT ![DatabaseOf(r)] = r]
        /\ runtime = r /\ conf = r /\ web = r /\ proxy = r
        /\ \A t \in Service : image[t] = r /\ container[t] = [image |-> r, running |-> TRUE]
    BY <1>2 DEF UnderWay, Unchanged, Forward, Shown, Tagged, Started, Halted
  <2>2. HostWhole(attempt'.old)  BY <1>3, <2>1
  <2>3. published' = [attempt'.old.published EXCEPT ![DatabaseOf(r)] = r]
    BY <1>1, <1>3, <2>1
  <2> QED BY <1>1, <1>3, <2>1, <2>2, <2>3
          DEF UnderWay, Unchanged, Forward, Shown, Tagged, Started, Halted, HostWhole,
              DatabaseOf
<1> QED BY <1>1, <1>3, <1>4, <1>5, GoesOn DEF Steps, Forward, Shown

LEMMA ReadyKeeps ==
    ASSUME DeployInv, NEW r \in Release, Ready(r)
    PROVE  DeployInv'
<1>1. /\ deploying = r /\ phase[r] = "announcing" /\ Enters(r, "ready")
      /\ deploying' = NoRelease /\ UNCHANGED attempt
      /\ UNCHANGED <<image, container, runtime, conf, published, web, proxy>>
  BY DEF Ready, host
<1>2. HostTypes /\ UnderWay(r, "announcing") /\ r # NoRelease  BY <1>1, UnderWayHere
<1>3. HostNow' = HostNow /\ HostNow \in Host  BY <1>1, <1>2 DEF HostNow, HostTypes
<1>4. /\ \A s \in Service : image[s] = r /\ container[s] = [image |-> r, running |-> TRUE]
      /\ runtime = r /\ Latest = r
  BY <1>2 DEF UnderWay, Unchanged, Forward, Shown, Tagged, Started, Latest
<1>5. Serves(r)'
  <2>1. Serves(r)  BY <1>1, ShownIsServed DEF Shown
  <2> QED BY <1>1, <2>1 DEF Serves, DatabaseOf
<1>6. HostWhole(HostNow)'  BY <1>1, <1>2, <1>4 DEF HostWhole, HostNow
<1>7. phase'[r] = "ready" /\ Latest' = r
  BY <1>1, <1>2, <1>4 DEF HostTypes, Enters, Latest
<1>8. FailureRestores'  BY <1>7 DEF FailureRestores
<1>9. ReadyIsOneRelease'  BY <1>5, <1>7 DEF ReadyIsOneRelease, Serves, DatabaseOf
<1> QED BY <1>1, <1>3, <1>6, <1>8, <1>9, DeploymentEnds

\* What finish brings back, service by service.
LEMMA Restores ==
    ASSUME DeployInv, NEW r \in Release, deploying = r, NEW s \in Service
    PROVE  LET old == attempt.old
           IN /\ RestoredContainers[s] # Absent => RestoredImages[s] = RestoredContainers[s].image
              /\ runtime = NoRelease => RestoredContainers[s] = Absent
              /\ attempt.recover /\ old.container[s].running /\ (\E t \in Service : t # s /\ old.container[t].running)
                   => /\ RestoredContainers[s] = old.container[s]
                      /\ RestoredImages[s] = old.image[s]
                      /\ runtime # old.runtime => RestoresRuntime
              /\ RestoredImages[s] \in Maybe
              /\ RestoredContainers[s] \in [image : Maybe, running : BOOLEAN]
<1> DEFINE old == attempt.old
           was == old.container[s]
           p == phase[r]
<1>1. /\ p \in Steps /\ UnderWay(r, p) /\ r # NoRelease /\ HostTypes  BY UnderWayHere
<1>2. /\ was \in [image : Maybe, running : BOOLEAN] /\ old.image[s] \in Maybe
      /\ container[s] \in [image : Maybe, running : BOOLEAN] /\ image[s] \in Maybe
  BY <1>1, OldFields, HostFields
<1>3. /\ was # Absent => old.image[s] = was.image
      /\ old.runtime = NoRelease => was = Absent
  BY <1>1 DEF UnderWay, HostWhole
<1>4. was.running => was # Absent  BY DEF Absent
<1>5. RestoredImages[s] = IF p \notin Forward /\ was # Absent THEN was.image ELSE image[s]
  BY <1>1 DEF RestoredImages, UnderWay
<1>6. RestoresRuntime = (p \notin Unchanged \cup Forward /\ old.runtime # NoRelease)
  BY <1>1 DEF RestoresRuntime, UnderWay
<1>7. /\ RestoresRuntime /\ (s = "db" \/ was # Absent)
           => RestoredContainers[s] = [image |-> RestoredImages[s], running |-> TRUE]
      /\ RestoresRuntime /\ ~(s = "db" \/ was # Absent)
           => RestoredContainers[s] = [image |-> container[s].image, running |-> FALSE]
      /\ ~RestoresRuntime /\ s \in attempt.stopped
           => RestoredContainers[s] = [image |-> container[s].image, running |-> TRUE]
      /\ ~RestoresRuntime /\ s \notin attempt.stopped
           => RestoredContainers[s] = container[s]
  <2> DEFINE set(b) == [container[s] EXCEPT !.running = b]
  <2>1. RestoredContainers[s]
          = IF ~RestoresRuntime THEN set(container[s].running \/ s \in attempt.stopped)
            ELSE IF s = "db" \/ was # Absent
            THEN [image |-> RestoredImages[s], running |-> TRUE]
            ELSE set(FALSE)
    BY DEF RestoredContainers
  <2>2. \A b \in BOOLEAN : set(b) = [image |-> container[s].image, running |-> b]
    BY <1>2
  <2>3. container[s] = [image |-> container[s].image, running |-> container[s].running]
        /\ container[s].running \in BOOLEAN
    BY <1>2
  <2> HIDE DEF set, was
  <2>4. CASE RestoresRuntime /\ (s = "db" \/ was # Absent)  BY <2>1, <2>4
  <2>5. CASE RestoresRuntime /\ ~(s = "db" \/ was # Absent)  BY <2>1, <2>2, <2>5
  <2>6. CASE ~RestoresRuntime /\ s \in attempt.stopped
    <3>1. (container[s].running \/ s \in attempt.stopped) = TRUE  BY <2>6
    <3> QED BY <2>1, <2>2, <2>6, <3>1
  <2>7. CASE ~RestoresRuntime /\ s \notin attempt.stopped
    <3>1. (container[s].running \/ s \in attempt.stopped) = container[s].running
      BY <2>3, <2>7
    <3>2. RestoredContainers[s] = set(container[s].running)  BY <2>1, <2>7, <3>1
    <3> QED BY <2>2, <2>3, <2>7, <3>2
  <2> QED BY <2>4, <2>5, <2>6, <2>7
<1>8. /\ s \in attempt.stopped <=> s \in Halted(p) /\ was # Absent
      /\ s \in Started(p) => container[s] = [image |-> r, running |-> TRUE] /\ image[s] = r
      /\ s \notin Started(p) /\ s \in attempt.stopped
            => container[s] = [image |-> was.image, running |-> FALSE]
      /\ s \notin Started(p) /\ s \notin attempt.stopped => container[s] = was
      /\ runtime = IF p \in Unchanged THEN old.runtime ELSE r
  BY <1>1 DEF UnderWay, Tagged, Started, Forward, Shown
<1>9. /\ s \in Started(p) => p \notin Unchanged /\ s \notin Halted(p)
      /\ p \in Forward => s \in Started(p)
      /\ s = "auth" /\ s \in Started(p) => p \in Forward
  BY <1>1 DEF Started, Halted, Unchanged, Forward, Shown, Service, Steps
<1>10. RestoredImages[s] \in Maybe  BY <1>2, <1>5
<1> HIDE DEF old, was, p
<1>11. CASE RestoresRuntime /\ (s = "db" \/ was # Absent)
  <2>1. RestoredContainers[s] = [image |-> RestoredImages[s], running |-> TRUE]
    BY <1>7, <1>11
  <2>2. runtime # NoRelease  BY <1>1, <1>6, <1>8, <1>11
  <2>3. attempt.recover /\ was.running => RestoredContainers[s] = was /\ RestoredImages[s] = old.image[s]
    <3> SUFFICES ASSUME attempt.recover, was.running
                 PROVE  RestoredContainers[s] = was /\ RestoredImages[s] = old.image[s]
      OBVIOUS
    <3>1. RestoredImages[s] = was.image  BY <1>4, <1>5, <1>6, <1>11
    <3>2. was = [image |-> was.image, running |-> TRUE]  BY <1>2
    <3> QED BY <1>3, <1>4, <2>1, <3>1, <3>2
  <2> QED BY <1>10, <1>11, <2>1, <2>2, <2>3 DEF old, was
<1>12. CASE RestoresRuntime /\ ~(s = "db" \/ was # Absent)
  <2>1. container[s] = Absent  BY <1>6, <1>8, <1>9, <1>12 DEF Service
  <2>2. RestoredContainers[s] = Absent  BY <1>7, <1>12, <2>1 DEF Absent
  <2>3. Absent \in [image : Maybe, running : BOOLEAN]  BY DEF Absent, Maybe
  <2> QED BY <1>4, <1>10, <1>12, <2>2, <2>3 DEF old, was
<1>13. CASE ~RestoresRuntime /\ s \in attempt.stopped
  <2>1. /\ was # Absent /\ s \notin Started(p) /\ old.runtime # NoRelease
        /\ p \notin Forward
    BY <1>3, <1>8, <1>9, <1>13
  <2>2. container[s] = [image |-> was.image, running |-> FALSE]  BY <1>8, <1>13, <2>1
  <2>3. RestoredContainers[s] = [image |-> was.image, running |-> TRUE]
    BY <1>7, <1>13, <2>2
  <2>4. RestoredImages[s] = was.image  BY <1>5, <2>1
  <2>5. runtime = old.runtime  BY <1>6, <1>8, <1>13, <2>1
  <2>6. was.running => was = [image |-> was.image, running |-> TRUE]  BY <1>2
  <2> QED BY <1>2, <1>3, <1>10, <1>13, <2>1, <2>3, <2>4, <2>5, <2>6 DEF old, was
<1>14. CASE ~RestoresRuntime /\ s \notin attempt.stopped
  <2>1. RestoredContainers[s] = container[s]  BY <1>7, <1>14
  <2>2. CASE s \in Started(p)
    <3>1. container[s] = [image |-> r, running |-> TRUE] /\ image[s] = r /\ runtime = r
      BY <1>8, <1>9, <2>2
    <3>2. p \notin Forward => was = Absent  BY <1>3, <1>6, <1>9, <1>14, <2>2
    <3>3. RestoredImages[s] = r  BY <1>5, <3>1, <3>2
    <3>4. attempt.recover = (p \notin Forward)  BY <1>1 DEF UnderWay, p
    <3>5. ~(attempt.recover /\ was.running)  BY <1>4, <3>2, <3>4
    <3> QED BY <1>1, <1>2, <1>10, <2>1, <3>1, <3>3, <3>5 DEF old, was
  <2>3. CASE s \notin Started(p)
    <3>1. container[s] = was /\ p \notin Forward  BY <1>8, <1>9, <1>14, <2>3
    <3>2. was # Absent => RestoredImages[s] = was.image  BY <1>5, <3>1
    <3>3. runtime = NoRelease => was = Absent  BY <1>1, <1>3, <1>8
    <3>4. was.running => runtime = old.runtime  BY <1>3, <1>4, <1>6, <1>8, <1>14, <3>1
    <3> QED BY <1>2, <1>3, <1>4, <1>10, <1>14, <2>1, <3>1, <3>2, <3>3, <3>4 DEF old, was
  <2> QED BY <2>2, <2>3
<1> QED BY <1>11, <1>12, <1>13, <1>14

LEMMA FailedKeeps ==
    ASSUME DeployInv, NEW r \in Release, FinishFailed(r)
    PROVE  DeployInv'
<1> DEFINE old == attempt.old
           p == phase[r]
<1>1. /\ deploying = r /\ deploying' = NoRelease /\ Enters(r, "failed")
      /\ image' = RestoredImages /\ container' = RestoredContainers
      /\ runtime' = IF RestoresRuntime THEN old.runtime ELSE runtime
      /\ conf' = IF RestoresRuntime \/ RollsWebBack THEN old.conf ELSE conf
      /\ web' = IF RollsWebBack THEN old.web ELSE web
      /\ proxy' = IF RollsWebBack THEN old.conf ELSE proxy
      /\ published' = published /\ attempt' = attempt
  BY DEF FinishFailed
<1>2. p \in Steps /\ UnderWay(r, p) /\ r # NoRelease /\ HostTypes  BY <1>1, UnderWayHere
<1>3. HostNow' \in Host
  <2>1. image' \in [Service -> Maybe]  BY <1>1, Restores DEF RestoredImages
  <2>2. container' \in [Service -> [image : Maybe, running : BOOLEAN]]
    <3> DEFINE Row == [image : Maybe, running : BOOLEAN]
    <3>1. \A s \in Service : RestoredContainers[s] \in Row  BY <1>1, Restores
    <3>2. DOMAIN RestoredContainers = Service
          /\ RestoredContainers = [s \in Service |-> RestoredContainers[s]]
      BY DEF RestoredContainers
    <3> HIDE DEF Row
    <3>3. RestoredContainers \in [Service -> Row]  BY <3>1, <3>2
    <3> QED BY <1>1, <3>3 DEF Row
  <2>3. runtime' \in Maybe /\ conf' \in Maybe /\ web' \in Maybe /\ proxy' \in Maybe
    BY <1>1, <1>2, HostFields, OldFields
  <2>4. published' \in [Databases -> Maybe]  BY <1>1, <1>2, HostFields
  <2> QED BY <2>1, <2>2, <2>3, <2>4 DEF HostNow, Host
<1>4. HostWhole(HostNow)'
  <2>1. ASSUME NEW s \in Service, container'[s] # Absent
        PROVE  image'[s] = container'[s].image
    BY <1>1, <2>1, Restores
  <2>2. ASSUME runtime' = NoRelease, NEW s \in Service PROVE container'[s] = Absent
    <3>1. ~RestoresRuntime  BY <1>1, <2>2 DEF RestoresRuntime
    <3> QED BY <1>1, <2>2, <3>1, Restores
  <2> QED BY <2>1, <2>2 DEF HostWhole, HostNow, Absent
<1>5. phase'[r] = "failed" /\ Latest' = r
  BY <1>1, <1>2 DEF HostTypes, Enters, Latest, UnderWay
<1>6. ReadyIsOneRelease'  BY <1>5 DEF ReadyIsOneRelease
<1>7. FailureRestores'
  <2> SUFFICES /\ (attempt.recover /\ \A s \in Service : old.container[s].running) =>
                    /\ image' = old.image /\ container' = old.container
                    /\ runtime' = old.runtime /\ conf' = old.conf
                    /\ published' = old.published
               /\ old.web # NoRelease => web' = old.web \/ Serves(r)'
    BY <1>1, <1>5 DEF FailureRestores, Serves, DatabaseOf
  <2>1. ASSUME old.web # NoRelease PROVE web' = old.web \/ Serves(r)'
    <3>1. CASE p # "announcing"
      BY <1>1, <1>2, <2>1, <3>1 DEF UnderWay, RollsWebBack, Shown
    <3>2. CASE p = "announcing"
      <4>1. Serves(r) /\ attempt.stopped = {}  BY <1>1, <3>2, ShownIsServed DEF Shown
      <4>2. ~RestoresRuntime /\ ~RollsWebBack
        BY <1>2, <3>2 DEF UnderWay, RestoresRuntime, RollsWebBack, Forward, Shown
      <4>3. \A s \in Service : container'[s] = [image |-> r, running |-> TRUE]
        <5>1. \A s \in Service : container[s] = [image |-> r, running |-> TRUE]
          BY <4>1 DEF Serves
        <5> SUFFICES ASSUME NEW s \in Service
                     PROVE  container'[s] = [image |-> r, running |-> TRUE]
          OBVIOUS
        <5> DEFINE set(b) == [container[s] EXCEPT !.running = b]
        <5>2. container'[s] = set(container[s].running \/ s \in attempt.stopped)
          BY <1>1, <4>2 DEF RestoredContainers
        <5>3. container[s] = [image |-> r, running |-> TRUE] /\ s \notin attempt.stopped
          BY <4>1, <5>1
        <5>4. (container[s].running \/ s \in attempt.stopped) = TRUE  BY <5>3
        <5>5. container[s] \in [image : Maybe, running : BOOLEAN]  BY <1>2, HostFields
        <5>6. \A b \in BOOLEAN : set(b) = [image |-> container[s].image, running |-> b]
          BY <5>5
        <5> HIDE DEF set
        <5> QED BY <5>2, <5>3, <5>4, <5>6
      <4> QED BY <1>1, <4>1, <4>2, <4>3 DEF Serves, DatabaseOf
    <3> QED BY <3>1, <3>2
  <2>2. ASSUME attempt.recover, \A s \in Service : old.container[s].running
        PROVE  /\ image' = old.image /\ container' = old.container
               /\ runtime' = old.runtime /\ conf' = old.conf
               /\ published' = old.published
    <3>1. ASSUME NEW s \in Service
          PROVE  /\ RestoredContainers[s] = old.container[s]
                 /\ RestoredImages[s] = old.image[s]
                 /\ runtime # old.runtime => RestoresRuntime
      <4>1. \E t \in Service : t # s /\ old.container[t].running  BY <2>2 DEF Service
      <4> QED BY <1>1, <2>2, <4>1, Restores
    <3>2. /\ old.image \in [Service -> Maybe]
          /\ old.container \in [Service -> [image : Maybe, running : BOOLEAN]]
      BY <1>2, OldFields
    <3>3. image' = old.image  BY <1>1, <3>1, <3>2 DEF RestoredImages
    <3>4. container' = old.container
      <4>1. DOMAIN RestoredContainers = Service
            /\ RestoredContainers = [s \in Service |-> RestoredContainers[s]]
        BY DEF RestoredContainers
      <4> QED BY <1>1, <3>1, <3>2, <4>1
    <3>5. runtime' = old.runtime  BY <1>1, <3>1 DEF Service
    <3>6. p \notin Forward /\ published = old.published /\ ~RollsWebBack
      BY <1>2, <2>2 DEF UnderWay, Forward, Shown, RollsWebBack
    <3>7. conf' = old.conf
      <4>1. CASE RestoresRuntime  BY <1>1, <4>1
      <4>2. CASE ~RestoresRuntime
        <5>1. \A s \in Service : old.container[s] # Absent  BY <2>2 DEF Absent
        <5>2. old.runtime # NoRelease  BY <1>2, <5>1 DEF UnderWay, HostWhole, Service
        <5>3. p \in Unchanged  BY <1>2, <2>2, <4>2, <5>2 DEF RestoresRuntime, UnderWay
        <5> QED BY <1>1, <1>2, <3>6, <4>2, <5>3 DEF UnderWay
      <4> QED BY <4>1, <4>2
    <3> QED BY <1>1, <3>3, <3>4, <3>5, <3>6, <3>7
  <2> QED BY <2>1, <2>2
<1> QED BY <1>1, <1>3, <1>4, <1>6, <1>7, DeploymentEnds

LEMMA DeployStep == DeployInv /\ [DeployNext]_deployVars => DeployInv'
<1> SUFFICES ASSUME DeployInv, [DeployNext]_deployVars PROVE DeployInv'
  OBVIOUS
<1>1. CASE UNCHANGED deployVars
  <2>1. UNCHANGED <<phase, deploying, image, container, runtime, conf, published, web,
                    proxy, attempt>>
    BY <1>1 DEF deployVars, host
  <2>2. HostTypes' /\ (deploying = NoRelease => HostWhole(HostNow))'
        /\ FailureRestores' /\ ReadyIsOneRelease'
    BY <2>1 DEF DeployInv, HostTypes, HostNow, HostWhole, FailureRestores,
                ReadyIsOneRelease, Latest, Serves
  <2>3. \A r \in Release : r = deploying => UnderWay(r, phase[r])'
    BY <2>1 DEF DeployInv, UnderWay
  <2> QED BY <2>1, <2>2, <2>3 DEF DeployInv, Latest
<1>2. CASE DeployNext
  BY <1>2, RebootKeeps, MainKeeps, LockKeeps, BuildKeeps, InstallKeeps, PublishKeeps,
     WebKeeps, KeepWebKeeps, ReadyKeeps, FailedKeeps, StopKeeps, StartKeeps DEF DeployNext
<1> QED BY <1>1, <1>2

\* Wherever a deployment fails and whatever it has changed by then, a failure
\* before the publication puts back the images, the containers, the runtime and
\* the configuration that were there, a later one leaves the old Web client or
\* the whole new release, and a release that is ready is what the host runs, for
\* every set of releases and of builds (deploy/apply.sh and its finish).
THEOREM DeployIsWholeCorrect == DeploySpec => []DeployIsWhole
  BY DeployBegins, DeployStep, DeployInvIsWhole, PTL DEF DeploySpec

HIDE DeployAssumption

-----------------------------------------------------------------------------
(* Drop tables.  Numbers in their order, and the elements of a list that are *)
(* kept, as Nth and Those give them.                                         *)
Listed(s) == \E T : s \in Seq(T)

LEMMA NthInOrder ==
    ASSUME NEW P \in SUBSET Nat, IsFiniteSet(P)
    PROVE  /\ Cardinality(P) \in Nat
           /\ \A i \in 1 .. Cardinality(P) : Nth(P, i) \in P
           /\ \A p \in P : \E i \in 1 .. Cardinality(P) : Nth(P, i) = p
           /\ \A i, j \in 1 .. Cardinality(P) :
                i < j => Nth(P, i) < Nth(P, j)
           /\ \A i \in 1 .. Cardinality(P) :
                Cardinality({q \in P : q <= Nth(P, i)}) = i
<1> DEFINE n == Cardinality(P)
           Upto(p) == {q \in P : q <= p}
           rank == [p \in P |-> Cardinality(Upto(p))]
<1>1. n \in Nat BY FS_CardinalityType
<1>2. ASSUME NEW p \in P
      PROVE  IsFiniteSet(Upto(p)) /\ rank[p] \in 1 .. n
  <2>1. Upto(p) \subseteq P /\ p \in Upto(p) OBVIOUS
  <2>2. /\ IsFiniteSet(Upto(p)) /\ Cardinality(Upto(p)) \in Nat
        /\ Cardinality(Upto(p)) <= n
    BY <2>1, FS_Subset, FS_CardinalityType
  <2>3. Cardinality(Upto(p)) # 0 BY <2>1, <2>2, FS_EmptySet
  <2> QED BY <1>1, <2>2, <2>3
<1>3. ASSUME NEW p \in P, NEW q \in P, p < q PROVE rank[p] < rank[q]
  <2>0. \A r \in P : r <= p => r <= q BY <1>3
  <2>5. ~(q <= p) /\ q <= q BY <1>3
  <2>1. Upto(p) \cup {q} \subseteq Upto(q) /\ q \notin Upto(p)  BY <2>0, <2>5
  <2>2. Cardinality(Upto(p) \cup {q}) = Cardinality(Upto(p)) + 1
    BY <1>2, <2>1, FS_AddElement
  <2>3. Cardinality(Upto(p) \cup {q}) <= Cardinality(Upto(q))  BY <1>2, <2>1, FS_Subset
  <2>4. rank[p] \in Nat /\ rank[q] \in Nat /\ rank[p] = Cardinality(Upto(p))
          /\ rank[q] = Cardinality(Upto(q))
    BY <1>1, <1>2
  <2> QED BY <2>2, <2>3, <2>4
<1>4. \A p, q \in P : p # q => p < q \/ q < p OBVIOUS
<1>5. \A p \in P : rank[p] \in 1 .. n BY <1>2
<1>6. \A p \in P : rank[p] = Cardinality({q \in P : q <= p}) OBVIOUS
<1>7. rank \in [P -> 1 .. n] BY <1>5
<1> HIDE DEF rank, Upto
<1>8. rank \in Injection(P, 1 .. n)
  BY <1>1, <1>3, <1>4, <1>5, <1>7 DEF Injection, IsInjective
<1>9. rank \in Surjection(P, 1 .. n)
  <2>1. \A k \in Nat : IsFiniteSet(1 .. k) /\ Cardinality(1 .. k) = k  BY FS_Interval
  <2>2. IsFiniteSet(1 .. n) /\ Cardinality(1 .. n) = n BY <1>1, <2>1
  <2> HIDE DEF n
  <2>3. Cardinality(P) = Cardinality(1 .. n) BY <2>2 DEF n
  <2> QED BY <1>8, <2>2, <2>3, FS_Injection
<1>10. ASSUME NEW i \in 1 .. n PROVE Nth(P, i) \in P /\ rank[Nth(P, i)] = i
  <2>1. \E p \in P : rank[p] = i BY <1>9 DEF Surjection
  <2>2. \E p \in P : Cardinality({q \in P : q <= p}) = i BY <1>6, <2>1
  <2> QED BY <1>6, <2>2 DEF Nth
<1>11. ASSUME NEW p \in P PROVE \E i \in 1 .. n : Nth(P, i) = p
  <2>1. rank[p] \in 1 .. n BY <1>5
  <2>2. Nth(P, rank[p]) \in P /\ rank[Nth(P, rank[p])] = rank[p]  BY <1>10, <2>1
  <2>3. Nth(P, rank[p]) = p BY <1>8, <2>2 DEF Injection, IsInjective
  <2> QED BY <2>1, <2>3
<1>12. ASSUME NEW i \in 1 .. n, NEW j \in 1 .. n, i < j
       PROVE  Nth(P, i) < Nth(P, j)
  <2>1. /\ Nth(P, i) \in P /\ rank[Nth(P, i)] = i
        /\ Nth(P, j) \in P /\ rank[Nth(P, j)] = j
    BY <1>10
  <2>2. Nth(P, i) # Nth(P, j) BY <2>1, <1>12
  <2>3. ~(Nth(P, j) < Nth(P, i))
    <3>1. i \in Nat /\ j \in Nat /\ ~(j < i) BY <1>1, <1>12
    <3> QED BY <2>1, <1>3, <3>1
  <2> QED BY <1>4, <2>1, <2>2, <2>3
<1>13. \A i \in 1 .. n : Cardinality({q \in P : q <= Nth(P, i)}) = i  BY <1>6, <1>10
<1> QED BY <1>1, <1>10, <1>11, <1>12, <1>13

LEMMA ThoseAreThePlaces ==
    ASSUME NEW s, Listed(s), NEW places \in SUBSET DOMAIN s
    PROVE  /\ places \in SUBSET Nat /\ IsFiniteSet(places)
           /\ Cardinality(places) \in Nat
           /\ Listed(Those(s, places))
           /\ DOMAIN Those(s, places) = 1 .. Cardinality(places)
           /\ Len(Those(s, places)) = Cardinality(places)
           /\ \A i \in 1 .. Cardinality(places) :
                /\ Nth(places, i) \in places
                /\ Those(s, places)[i] = s[Nth(places, i)]
<1>1. PICK T : s \in Seq(T) BY DEF Listed
<1>2. Len(s) \in Nat /\ DOMAIN s = 1 .. Len(s) BY <1>1
<1>3. places \in SUBSET Nat /\ places \subseteq 1 .. Len(s) BY <1>2
<1>4. \A k \in Nat : IsFiniteSet(1 .. k) BY FS_Interval
<1>5. IsFiniteSet(places)
  <2>1. IsFiniteSet(1 .. Len(s)) BY <1>2, <1>4
  <2> QED BY ONLY <1>3, <2>1, FS_Subset
<1>6. /\ Cardinality(places) \in Nat
      /\ \A i \in 1 .. Cardinality(places) : Nth(places, i) \in places
  BY <1>3, <1>5, NthInOrder
<1> DEFINE n == Cardinality(places)
           t == [i \in 1 .. n |-> s[Nth(places, i)]]
<1>7. Those(s, places) = t BY DEF Those
<1>8. \A i \in 1 .. n : s[Nth(places, i)] \in T  BY <1>1, <1>2, <1>3, <1>6
<1> HIDE DEF n
<1>9. t \in Seq(T) /\ DOMAIN t = 1 .. n /\ Len(t) = n
  <2>1. n \in Nat BY <1>6 DEF n
  <2> QED BY <1>8, <2>1
<1>10. \A i \in 1 .. n : t[i] = s[Nth(places, i)] OBVIOUS
<1> HIDE DEF t
<1> QED BY <1>3, <1>5, <1>6, <1>7, <1>9, <1>10 DEF Listed, n

\* A list made of a number of elements.
LEMMA CountedIsListed ==
    ASSUME NEW n \in Nat, NEW t, DOMAIN t = 1 .. n, t = [i \in 1 .. n |-> t[i]]
    PROVE  Listed(t) /\ Len(t) = n /\ t \in Seq(Range(t))
<1>1. t \in [1 .. n -> Range(t)] BY DEF Range
<1>2. t \in Seq(Range(t)) /\ Len(t) = n BY <1>1
<1> QED BY <1>2 DEF Listed

LEMMA ListedHas ==
    ASSUME NEW s, Listed(s)
    PROVE  /\ Len(s) \in Nat /\ DOMAIN s = 1 .. Len(s) /\ s \in Seq(Range(s))
           /\ s = [i \in 1 .. Len(s) |-> s[i]]
           /\ s = <<>> <=> Len(s) = 0
<1>1. PICK T : s \in Seq(T) BY DEF Listed
<1> QED BY <1>1 DEF Range

LEMMA JoinedIsListed ==
    ASSUME NEW s, Listed(s), NEW t, Listed(t)
    PROVE  /\ Listed(s \o t) /\ Len(s \o t) = Len(s) + Len(t)
           /\ DOMAIN (s \o t) = 1 .. Len(s) + Len(t)
           /\ \A i \in 1 .. Len(s) : (s \o t)[i] = s[i]
           /\ \A i \in 1 .. Len(t) : (s \o t)[Len(s) + i] = t[i]
<1> DEFINE S == Range(s) T == Range(t) U == S \cup T
<1>1. s \in Seq(S) /\ t \in Seq(T) BY ListedHas
<1>2. s \in Seq(U) /\ t \in Seq(U) BY <1>1, ListedHas
<1> HIDE DEF U
<1>3. s \o t \in Seq(U) BY ONLY <1>2
<1>4. /\ Len(s \o t) = Len(s) + Len(t) /\ DOMAIN (s \o t) = 1 .. Len(s \o t)
      /\ \A i \in 1 .. Len(s) : (s \o t)[i] = s[i]
      /\ \A i \in 1 .. Len(t) : (s \o t)[Len(s) + i] = t[i]
  BY <1>2, <1>3
<1> QED BY <1>3, <1>4 DEF Listed

-----------------------------------------------------------------------------
(* Rolls.  What the rows of the corpus hold, what is left of them in the     *)
(* catalogue, and why the game finds the row the original would have found.  *)
USE DropsAssumption

CommonFields == {"from", "to", "percent", "vnum", "reachable"}
ItemFields == {"vnum", "count", "percent", "part", "upto", "rare"}
GroupFields == {"items", "kill_drop", "level_limit"}
Shaped(s, fields) == Listed(s) /\ \A i \in DOMAIN s : DOMAIN s[i] = fields

GroupsHold(groups) ==
    /\ DOMAIN groups = Range(Kinds)
    /\ \A sort \in Range(Kinds) : \A mob \in DOMAIN groups[sort] :
         /\ DOMAIN groups[sort][mob] = GroupFields
         /\ Shaped(groups[sort][mob].items, ItemFields)
         /\ sort = "kill" => AddsUp(groups[sort][mob].items)

CorpusHolds ==
    /\ DOMAIN corpus = {"items", "common", "groups"}
    /\ \A r \in Ranks : Shaped(corpus.common[r], CommonFields)
    /\ GroupsHold(corpus.groups)

\* The kinds whose groups are compiled, and what the catalogue holds of them.
Done == IF dropStage = "installed" THEN Range(Kinds)
        ELSE {Kinds[k] : k \in {j \in DOMAIN Kinds : j < at}}

SlotHolds(slot, mob, done) ==
    /\ DOMAIN slot = {"kill_drop", "level_limit", "rows"}
    /\ DOMAIN slot.rows = Range(Kinds)
    /\ \A sort \in Range(Kinds) :
         slot.rows[sort] = IF sort \in done THEN Entries(ItemsOf(sort, mob))
                           ELSE <<>>
    /\ "kill" \in done /\ Offers("kill", mob) =>
         slot.kill_drop = corpus.groups["kill"][mob].kill_drop
    /\ "limit" \in done /\ Offers("limit", mob) =>
         slot.level_limit = corpus.groups["limit"][mob].level_limit

SlotsHold(done) ==
    /\ DOMAIN catalog.groups
         = {mob \in Selected : \E sort \in done : Offers(sort, mob)}
    /\ \A mob \in DOMAIN catalog.groups :
         SlotHolds(catalog.groups[mob], mob, done)

CommonHolds ==
    \A r \in Ranks :
      /\ catalog.common[r] = CommonEntries(corpus.common[r])
      /\ \A i \in DOMAIN corpus.common[r] :
           CommonRowIsSound(corpus.common[r][i])

RollsInv ==
    /\ CorpusHolds /\ DOMAIN catalog = {"common", "groups"}
    /\ dropStage \in {"kinds", "installed"} => CommonHolds /\ SlotsHold(Done)
    /\ dropStage = "kinds" => at \in Nat \ {0}
    /\ dropStage \notin {"kinds", "installed", "refused"} =>
         catalog.groups = Nothing

LEMMA KindsAre == Range(Kinds) = {"drop", "kill", "limit", "thiefgloves"}
<1>1. DOMAIN Kinds = 1 .. 4 /\ Len(Kinds) = 4 BY DEF Kinds
<1>2. 1 .. 4 = {1, 2, 3, 4} OBVIOUS
<1>3. /\ Kinds[1] = "drop" /\ Kinds[2] = "kill" /\ Kinds[3] = "limit"
      /\ Kinds[4] = "thiefgloves"
  BY DEF Kinds
<1> QED BY <1>1, <1>2, <1>3 DEF Range

LEMMA NothingIsListed == Listed(<<>>) /\ DOMAIN <<>> = {} /\ Len(<<>>) = 0
  BY DEF Listed

\* An element that is kept stands where its place among those kept says.
LEMMA ThoseStand ==
    ASSUME NEW s, Listed(s), NEW kept \in SUBSET DOMAIN s
    PROVE  \A p \in kept : /\ PlaceIn(kept, p) \in 1 .. Cardinality(kept)
                          /\ Those(s, kept)[PlaceIn(kept, p)] = s[p]
                          /\ Nth(kept, PlaceIn(kept, p)) = p
<1>1. /\ kept \in SUBSET Nat /\ IsFiniteSet(kept)
      /\ \A i \in 1 .. Cardinality(kept) : Those(s, kept)[i] = s[Nth(kept, i)]
  BY ThoseAreThePlaces
<1> SUFFICES ASSUME NEW p \in kept
             PROVE  /\ PlaceIn(kept, p) \in 1 .. Cardinality(kept)
                    /\ Those(s, kept)[PlaceIn(kept, p)] = s[p]
                    /\ Nth(kept, PlaceIn(kept, p)) = p
  OBVIOUS
<1>2. PICK i \in 1 .. Cardinality(kept) : Nth(kept, i) = p  BY <1>1, NthInOrder
<1>3. Cardinality({q \in kept : q <= Nth(kept, i)}) = i  BY <1>1, NthInOrder
<1>4. PlaceIn(kept, p) = i BY <1>2, <1>3 DEF PlaceIn
<1> QED BY <1>1, <1>2, <1>4

\* The rows of a rank that are offered are those somebody can meet.
LEMMA CommonIsKept ==
    ASSUME NEW rows, Shaped(rows, CommonFields),
           \A i \in DOMAIN rows : /\ CommonRowIsSound(rows[i])
                                   /\ rows[i].from # 0
    PROVE  KeepsCommon(CommonEntries(rows), rows)
<1> DEFINE kept == {i \in DOMAIN rows :
                      rows[i].reachable /\ Registered(rows[i].vnum)}
           those == Those(rows, kept)
           made == [i \in DOMAIN those |->
                      [those[i] EXCEPT !.to = Min({@, LevelCap})]]
<1>1. CommonEntries(rows) = made BY DEF CommonEntries, Offered
<1>2. kept = {i \in DOMAIN rows :
                AtSomeLevel(rows[i]) /\ Registered(rows[i].vnum)}
  <2> SUFFICES ASSUME NEW i \in DOMAIN rows
               PROVE  rows[i].reachable <=> AtSomeLevel(rows[i])
    OBVIOUS
  <2> DEFINE from == rows[i].from to == rows[i].to
  <2>1. /\ from \in Nat \ {0} /\ to \in Nat
        /\ rows[i].reachable <=> (from <= LevelCap /\ from <= to)
    <3>1. CommonRowIsSound(rows[i]) /\ from # 0 OBVIOUS
    <3>2. /\ from \in Nat /\ to \in Nat
          /\ rows[i].reachable = (1 <= from /\ from <= LevelCap /\ from <= to)
      BY <3>1 DEF CommonRowIsSound, Reachable
    <3> HIDE DEF from, to
    <3>3. 1 <= from BY <3>1, <3>2
    <3> QED BY <3>1, <3>2, <3>3
  <2>2. AtSomeLevel(rows[i]) <=>
          \E level \in 1 .. LevelCap : from <= level /\ level <= to
    BY DEF AtSomeLevel
  <2> HIDE DEF from, to
  <2>3. ASSUME from <= LevelCap, from <= to
        PROVE  \E level \in 1 .. LevelCap : from <= level /\ level <= to
    <3>1. from \in 1 .. LevelCap /\ from <= from BY <2>1, <2>3
    <3> QED BY <2>3, <3>1
  <2>4. ASSUME NEW level \in 1 .. LevelCap, from <= level, level <= to
        PROVE  from <= LevelCap /\ from <= to
    BY <2>1, <2>4
  <2> QED BY <2>1, <2>2, <2>3, <2>4
<1>3. Listed(rows) /\ kept \in SUBSET DOMAIN rows BY DEF Shaped
<1> HIDE DEF kept
<1>4. DOMAIN those = 1 .. Cardinality(kept) BY <1>3, ThoseAreThePlaces
<1>5. \A i \in kept : /\ PlaceIn(kept, i) \in 1 .. Cardinality(kept)
                      /\ those[PlaceIn(kept, i)] = rows[i]
  BY <1>3, ThoseStand
<1> HIDE DEF those
<1>6. DOMAIN made = 1 .. Cardinality(kept) BY <1>4
<1>7. \A i \in kept : made[PlaceIn(kept, i)]
                      = [rows[i] EXCEPT !.to = Min({@, LevelCap})]
  BY <1>4, <1>5
<1> HIDE DEF made
<1> QED BY <1>1, <1>2, <1>6, <1>7 DEF KeepsCommon

\* The items of a group that are kept.
LEMMA EntriesAre ==
    ASSUME NEW items, Listed(items)
    PROVE  LET kept == {i \in DOMAIN items : Registered(items[i].vnum)}
               made == Entries(items)
           IN /\ kept \in SUBSET DOMAIN items
              /\ Cardinality(kept) \in Nat
              /\ DOMAIN made = 1 .. Cardinality(kept)
              /\ Listed(made) /\ Len(made) = Cardinality(kept)
              /\ \A i \in 1 .. Cardinality(kept) :
                   /\ Nth(kept, i) \in kept
                   /\ made[i] = Capped(items[Nth(kept, i)])
              /\ KeepsItems(made, items)
              /\ made = <<>> <=> kept = {}
<1> DEFINE kept == {i \in DOMAIN items : Registered(items[i].vnum)}
           those == Those(items, kept)
           made == [i \in DOMAIN those |-> Capped(those[i])]
           n == Cardinality(kept)
<1>1. Entries(items) = made BY DEF Entries, Capped
<1>2. kept \in SUBSET DOMAIN items OBVIOUS
<1> HIDE DEF kept
<1>3. /\ n \in Nat /\ DOMAIN those = 1 .. n /\ IsFiniteSet(kept)
      /\ \A i \in 1 .. n : Nth(kept, i) \in kept
                           /\ those[i] = items[Nth(kept, i)]
  BY <1>2, ThoseAreThePlaces
<1>4. \A i \in kept : /\ PlaceIn(kept, i) \in 1 .. n
                      /\ those[PlaceIn(kept, i)] = items[i]
  BY <1>2, ThoseStand
<1>5. n = 0 <=> kept = {} BY <1>3, FS_EmptySet
<1> HIDE DEF those, n
<1>6. /\ DOMAIN made = 1 .. n
      /\ made = [i \in 1 .. n |-> made[i]]
      /\ \A i \in 1 .. n : made[i] = Capped(items[Nth(kept, i)])
      /\ \A i \in kept : made[PlaceIn(kept, i)] = Capped(items[i])
  BY <1>3, <1>4
<1> HIDE DEF made
<1>7. Listed(made) /\ Len(made) = n BY ONLY <1>3, <1>6, CountedIsListed
<1>8. made = <<>> <=> kept = {} BY <1>5, <1>7, ListedHas
<1>9. KeepsItems(made, items) BY <1>6 DEF KeepsItems, kept, n
<1> QED BY <1>1, <1>2, <1>3, <1>6, <1>7, <1>8, <1>9 DEF kept, n

\* A roll within the last percentage finds the first kept row it reaches.
LEMMA RollFinds ==
    ASSUME NEW items, Shaped(items, ItemFields), Entries(items) # <<>>,
           NEW roll \in 1 .. Last(Entries(items)).upto
    PROVE  Picked(Entries(items), roll)
             = Capped(items[Min({i \in DOMAIN items :
                                   /\ Registered(items[i].vnum)
                                   /\ items[i].upto >= roll})])
<1> DEFINE kept == {i \in DOMAIN items : Registered(items[i].vnum)}
           made == Entries(items)
           n == Cardinality(kept)
           T == {i \in DOMAIN made : made[i].upto >= roll}
           U == {i \in DOMAIN items : /\ Registered(items[i].vnum)
                                      /\ items[i].upto >= roll}
<1>0. Listed(items) BY DEF Shaped
<1>1. /\ kept \in SUBSET DOMAIN items /\ n \in Nat
      /\ DOMAIN made = 1 .. n /\ Len(made) = n
      /\ \A i \in 1 .. n : /\ Nth(kept, i) \in kept
                           /\ made[i] = Capped(items[Nth(kept, i)])
      /\ made = <<>> <=> kept = {}
  BY <1>0, EntriesAre
<1>2. kept # {} BY <1>1
<1>3. kept \in SUBSET Nat /\ IsFiniteSet(kept)
  <2> HIDE DEF kept
  <2> QED BY <1>0, <1>1, ThoseAreThePlaces
<1>4. U = {i \in kept : items[i].upto >= roll} OBVIOUS
<1>5. n \in Nat \ {0} BY <1>1, <1>2, <1>3, FS_EmptySet
<1>6. \A i \in kept : Capped(items[i]).upto = items[i].upto
  <2> TAKE i \in kept
  <2>1. DOMAIN items[i] = ItemFields BY DEF Shaped
  <2> QED BY <2>1 DEF Capped, ItemFields
<1> HIDE DEF kept, made
<1>7. /\ \A p \in kept : \E k \in 1 .. n : Nth(kept, k) = p
      /\ \A k, j \in 1 .. n : k < j => Nth(kept, k) < Nth(kept, j)
  BY <1>3, NthInOrder
<1> HIDE DEF n
<1>8. \A k \in 1 .. n : k \in T <=> Nth(kept, k) \in U  BY <1>1, <1>4, <1>6
<1>9. T \in SUBSET Nat /\ T \subseteq 1 .. n /\ U \in SUBSET Nat
      /\ U \subseteq kept
  BY <1>1, <1>3, <1>4
<1>10. n \in T
  <2>1. Last(made) = made[n] BY <1>1 DEF Last
  <2>2. made[n].upto >= roll BY <2>1 DEF made
  <2> QED BY <1>1, <1>5, <2>2
<1> HIDE DEF T, U
<1> DEFINE k == Min(T) p == Min(U)
<1>11. k \in T /\ \A j \in T : k <= j
  <2>1. T # {} BY <1>10
  <2> QED BY <1>9, <2>1, MinIsLeast
<1>12. k \in 1 .. n BY <1>9, <1>11
<1>13. Nth(kept, k) \in U BY <1>8, <1>11, <1>12
<1>14. p \in U /\ \A q \in U : p <= q
  <2>1. U # {} BY <1>13
  <2> QED BY <1>9, <2>1, MinIsLeast
<1> HIDE DEF k, p
<1>15. p = Nth(kept, k)
  <2>1. PICK j \in 1 .. n : Nth(kept, j) = p BY <1>7, <1>9, <1>14
  <2>2. j \in T BY <1>8, <1>14, <2>1
  <2>3. k <= j BY <1>11, <2>2
  <2>4. k < j => Nth(kept, k) < p BY <1>7, <1>12, <2>1
  <2>5. p <= Nth(kept, k) BY <1>13, <1>14
  <2>6. p \in Nat /\ Nth(kept, k) \in Nat /\ j \in Nat /\ k \in Nat
    <3>1. p \in U /\ Nth(kept, k) \in U BY <1>13, <1>14
    <3>2. p \in Nat /\ Nth(kept, k) \in Nat BY ONLY <1>9, <3>1
    <3> QED BY <1>5, <1>12, <3>2
  <2> QED BY <2>1, <2>3, <2>4, <2>5, <2>6
<1>16. made[k] = Capped(items[p]) BY <1>1, <1>12, <1>15
<1>17. Picked(made, roll) = made[k] BY DEF Picked, k, T
<1> QED BY <1>16, <1>17 DEF made, p, U

LEMMA ItemsAre ==
    ASSUME CorpusHolds, NEW sort \in Range(Kinds), NEW mob
    PROVE  /\ Shaped(ItemsOf(sort, mob), ItemFields)
           /\ Offers(sort, mob) <=> Entries(ItemsOf(sort, mob)) # <<>>
           /\ Offers(sort, mob) => mob \in DOMAIN corpus.groups[sort]
<1>1. Shaped(ItemsOf(sort, mob), ItemFields)
  BY NothingIsListed DEF CorpusHolds, GroupsHold, ItemsOf, Shaped
<1>2. Offers(sort, mob) <=> Entries(ItemsOf(sort, mob)) # <<>>
  <2> DEFINE items == ItemsOf(sort, mob)
  <2>1. Listed(items) BY <1>1 DEF Shaped
  <2> HIDE DEF items
  <2>2. Entries(items) # <<>> <=> \E i \in DOMAIN items : Registered(items[i].vnum)
    BY <2>1, EntriesAre
  <2> QED BY <2>2 DEF items, Offers
<1>3. Offers(sort, mob) => mob \in DOMAIN corpus.groups[sort]
  BY NothingIsListed DEF Offers, ItemsOf
<1> QED BY <1>1, <1>2, <1>3

LEMMA RollsAreShown ==
    ASSUME RollsInv, dropStage = "installed" => \A r \in Ranks : CommonIsRead(r)
    PROVE  RollsAreOriginal
<1> SUFFICES ASSUME dropStage = "installed" PROVE RollsAreOriginal
  BY DEF RollsAreOriginal
<1>1. CorpusHolds /\ CommonHolds /\ SlotsHold(Range(Kinds))  BY DEF RollsInv, Done
<1>2. \A r \in Ranks : KeepsCommon(catalog.common[r], corpus.common[r])
  <2> TAKE r \in Ranks
  <2> DEFINE rows == corpus.common[r]
  <2>1. /\ Shaped(rows, CommonFields)
        /\ \A i \in DOMAIN rows : CommonRowIsSound(rows[i])
        /\ catalog.common[r] = CommonEntries(rows)
    BY <1>1 DEF CorpusHolds, CommonHolds
  <2>2. \A i \in DOMAIN rows : rows[i].from # 0
    <3>1. CommonIsRead(r) OBVIOUS
    <3>2. PICK line \in [DOMAIN rows -> CommonLines(r)] :
            \A i \in DOMAIN rows :
              rows[i] = CommonRow(Block(tables.common[line[i]], r))
      BY <3>1 DEF CommonIsRead
    <3> TAKE i \in DOMAIN rows
    <3>3. line[i] \in CommonLines(r) BY <3>2
    <3>4. Block(tables.common[line[i]], r).from # 0 BY <3>3 DEF CommonLines
    <3>5. \A b : CommonRow(b).from = b.from BY DEF CommonRow
    <3> HIDE DEF rows
    <3> QED BY <3>2, <3>4, <3>5
  <2> HIDE DEF rows
  <2>3. KeepsCommon(CommonEntries(rows), rows) BY <2>1, <2>2, CommonIsKept
  <2> QED BY <2>1, <2>3 DEF rows
<1>3. DOMAIN catalog.groups
        = {mob \in Selected : \E sort \in Range(Kinds) : Offers(sort, mob)}
  BY <1>1 DEF SlotsHold
<1>4. ASSUME NEW mob \in DOMAIN catalog.groups
      PROVE  LET slot == catalog.groups[mob]
                 kills == slot.rows["kill"]
                 items == ItemsOf("kill", mob)
             IN /\ \A sort \in Range(Kinds) :
                     KeepsItems(slot.rows[sort], ItemsOf(sort, mob))
                /\ Offers("kill", mob) =>
                     slot.kill_drop = corpus.groups["kill"][mob].kill_drop
                /\ Offers("limit", mob) =>
                     slot.level_limit = corpus.groups["limit"][mob].level_limit
                /\ kills # <<>> => \A roll \in 1 .. Last(kills).upto :
                     Picked(kills, roll) =
                       Capped(items[Min({i \in DOMAIN items :
                                           /\ Registered(items[i].vnum)
                                           /\ items[i].upto >= roll})])
  <2> DEFINE slot == catalog.groups[mob]
             items == ItemsOf("kill", mob)
  <2>1. \A sort \in Range(Kinds) : slot.rows[sort] = Entries(ItemsOf(sort, mob))
    BY <1>1 DEF SlotsHold, SlotHolds
  <2>2. "kill" \in Range(Kinds) /\ "limit" \in Range(Kinds) BY KindsAre
  <2>3. /\ Offers("kill", mob) =>
             slot.kill_drop = corpus.groups["kill"][mob].kill_drop
        /\ Offers("limit", mob) =>
             slot.level_limit = corpus.groups["limit"][mob].level_limit
    BY <1>1, <2>2 DEF SlotsHold, SlotHolds
  <2> HIDE DEF slot
  <2>4. ASSUME NEW sort \in Range(Kinds)
        PROVE  KeepsItems(slot.rows[sort], ItemsOf(sort, mob))
    <3> DEFINE these == ItemsOf(sort, mob)
    <3>1. Listed(these) BY <1>1, ItemsAre DEF Shaped
    <3> HIDE DEF these
    <3>2. KeepsItems(Entries(these), these) BY <3>1, EntriesAre
    <3> QED BY <2>1, <3>2 DEF these
  <2>5. Shaped(items, ItemFields) BY <1>1, <2>2, ItemsAre
  <2> HIDE DEF items
  <2>6. Entries(items) # <<>> => \A roll \in 1 .. Last(Entries(items)).upto :
          Picked(Entries(items), roll) =
            Capped(items[Min({i \in DOMAIN items :
                                /\ Registered(items[i].vnum)
                                /\ items[i].upto >= roll})])
    BY <2>5, RollFinds
  <2>7. slot.rows["kill"] = Entries(items) BY <2>1, <2>2 DEF items
  <2> QED BY <2>3, <2>4, <2>6, <2>7 DEF slot, items
<1> QED BY <1>2, <1>3, <1>4 DEF RollsAreOriginal

LEMMA GapIsThere ==
    ASSUME NEW node
    PROVE  /\ FirstGap(node) \in 1 .. RowKeyLimit + 1
           /\ FirstGap(node) = RowKeyLimit + 1
                \/ RowKey(FirstGap(node)) \notin DOMAIN node.rows
           /\ \A k \in 1 .. FirstGap(node) - 1 :
                RowKey(k) \in DOMAIN node.rows
<1> DEFINE T == {k \in 1 .. RowKeyLimit + 1 :
                   k = RowKeyLimit + 1 \/ RowKey(k) \notin DOMAIN node.rows}
<1>1. FirstGap(node) = Min(T) BY DEF FirstGap
<1>2. T \in SUBSET Nat /\ RowKeyLimit + 1 \in T OBVIOUS
<1>3. Min(T) \in T /\ \A k \in T : Min(T) <= k
  <2> HIDE DEF T
  <2>1. T # {} BY <1>2
  <2> QED BY <1>2, <2>1, MinIsLeast
<1>4. ASSUME NEW k \in 1 .. Min(T) - 1
      PROVE  RowKey(k) \in DOMAIN node.rows
  <2>1. Min(T) \in 1 .. RowKeyLimit + 1 BY <1>3
  <2>2. k \in 1 .. RowKeyLimit + 1 /\ ~(Min(T) <= k) BY <2>1
  <2>3. k \notin T BY <1>3, <2>2
  <2> QED BY <2>2, <2>3
<1>5. Min(T) \in 1 .. RowKeyLimit + 1 BY <1>3
<1>6. Min(T) = RowKeyLimit + 1 \/ RowKey(Min(T)) \notin DOMAIN node.rows  BY <1>3
<1> HIDE DEF T
<1> QED BY <1>1, <1>4, <1>5, <1>6

LEMMA NumberIsInt == \A t : Number(t) \in Int
  BY DEF Number

\* The parts of a group add up.
LEMMA PartsAddUp ==
    ASSUME NEW node
    PROVE  /\ PartsUpto(node)[0] = 0
           /\ \A k \in 1 .. FirstGap(node) - 1 :
                PartsUpto(node)[k]
                  = PartsUpto(node)[k - 1] + Number(RowOf(node, k)[3])
<1> DEFINE n == FirstGap(node) - 1
           Part(k) == Number(RowOf(node, k)[3])
           F == [i \in 0 .. n |-> Int]
           D == [k \in 1 .. n |-> [v \in Int |-> v + Part(k)]]
           Is(g) == g = [i \in 0 .. n |-> IF i = 0 THEN 0 ELSE g[i - 1] + Part(i)]
<1>1. n \in Nat BY GapIsThere
<1>2. PartsUpto(node) = CHOOSE g : Is(g) BY DEF PartsUpto
<1>3. \A k : Part(k) \in Int BY NumberIsInt
<1> HIDE DEF n, Part
<1>4. \A k \in 1 .. n : \A v \in F[k - 1] : D[k][v] \in F[k]
  <2> SUFFICES ASSUME NEW k \in 1 .. n, NEW v \in F[k - 1] PROVE D[k][v] \in F[k]
    OBVIOUS
  <2>1. k - 1 \in 0 .. n /\ k \in 0 .. n BY <1>1
  <2>2. v \in Int /\ F[k] = Int BY <2>1
  <2>3. D[k][v] = v + Part(k) BY <2>2
  <2> QED BY <1>3, <2>2, <2>3
<1>5. 0 \in F[0] BY <1>1
<1> HIDE DEF F, D
<1>6. LeftFolds(n, F, 0, D) BY <1>1, <1>4, <1>5, LeftFoldExists
<1>7. PICK g : /\ g = [i \in 0 .. n |-> IF i = 0 THEN 0 ELSE D[i][g[i - 1]]]
               /\ \A i \in 0 .. n : g[i] \in F[i]
  BY <1>6 DEF LeftFolds
<1>8. ASSUME NEW i \in 0 .. n
      PROVE  g[i] = IF i = 0 THEN 0 ELSE g[i - 1] + Part(i)
  <2>1. CASE i = 0 BY <1>7, <2>1
  <2>2. CASE i # 0
    <3>1. i \in 1 .. n /\ i - 1 \in 0 .. n BY <1>1, <2>2
    <3>2. g[i - 1] \in Int BY <1>7, <3>1 DEF F
    <3>3. g[i] = D[i][g[i - 1]] BY <1>7, <2>2
    <3> QED BY <2>2, <3>1, <3>2, <3>3 DEF D
  <2> QED BY <2>1, <2>2
<1>9. Is(g)
  <2>1. g = [i \in 0 .. n |-> g[i]] BY <1>7
  <2> QED BY <1>8, <2>1
<1> DEFINE up == PartsUpto(node)
<1>10. Is(up)
  <2> HIDE DEF Is
  <2> QED BY <1>2, <1>9
<1> HIDE DEF up
<1>11. \A i \in 0 .. n : up[i] = IF i = 0 THEN 0 ELSE up[i - 1] + Part(i)  BY <1>10
<1>12. up[0] = 0 BY <1>1, <1>11
<1>13. \A k \in 1 .. n : up[k] = up[k - 1] + Part(k)
  <2>1. \A k \in 1 .. n : k \in 0 .. n /\ k # 0 BY <1>1
  <2> QED BY <1>11, <2>1
<1> QED BY <1>12, <1>13 DEF up, n, Part

LEMMA GroupItemsAre ==
    ASSUME NEW node
    PROVE  LET items == GroupItems(node)
           IN /\ Shaped(items, ItemFields)
              /\ DOMAIN items = 1 .. FirstGap(node) - 1
              /\ Len(items) = FirstGap(node) - 1
              /\ \A k \in 1 .. FirstGap(node) - 1 :
                   ItemSays(KindOf(node), items[k])
                     = RowSays(KindOf(node), corpus.items, RowOf(node, k))
              /\ KindOf(node) = "kill" => AddsUp(items)
<1> DEFINE items == GroupItems(node)
           n == FirstGap(node) - 1
           kill == KindOf(node) = "kill"
           up == PartsUpto(node)
<1>1. n \in Nat BY GapIsThere
<1>2. /\ up[0] = 0
      /\ \A k \in 1 .. n : up[k] = up[k - 1] + Number(RowOf(node, k)[3])
  BY PartsAddUp
<1> HIDE DEF n, up
<1>3. /\ DOMAIN items = 1 .. n
      /\ \A k \in 1 .. n :
           /\ DOMAIN items[k] = ItemFields
           /\ items[k].vnum = Resolve(corpus.items, RowOf(node, k)[1])
           /\ items[k].count = Number(RowOf(node, k)[2])
           /\ ~kill => items[k].percent = Percent10k(RowOf(node, k)[3])
           /\ kill => /\ items[k].part = Number(RowOf(node, k)[3])
                      /\ items[k].upto = up[k]
                      /\ items[k].rare
                           = Max({0, Min({Number(RowOf(node, k)[4]), 100})})
  BY DEF GroupItems, n, up, ItemFields
<1>4. items = [k \in 1 .. n |-> items[k]] BY DEF GroupItems, n
<1> HIDE DEF items
<1>5. Listed(items) /\ Len(items) = n BY <1>1, <1>3, <1>4, CountedIsListed
<1>6. \A k \in 1 .. n :
        ItemSays(KindOf(node), items[k])
          = RowSays(KindOf(node), corpus.items, RowOf(node, k))
  BY <1>3 DEF ItemSays, RowSays
<1>7. ASSUME kill PROVE AddsUp(items)
  <2> SUFFICES ASSUME NEW i \in 1 .. n
               PROVE  items[i].upto
                        = (IF i = 1 THEN 0 ELSE items[i - 1].upto) + items[i].part
    BY <1>3 DEF AddsUp
  <2>1. items[i].upto = up[i] /\ up[i] = up[i - 1] + items[i].part  BY <1>2, <1>3, <1>7
  <2>2. i = 1 => up[i - 1] = 0 BY <1>2
  <2>3. i # 1 => i - 1 \in 1 .. n BY <1>1
  <2>4. i # 1 => items[i - 1].upto = up[i - 1] BY <1>3, <1>7, <2>3
  <2> QED BY <2>1, <2>2, <2>4
<1> QED BY <1>3, <1>5, <1>6, <1>7 DEF Shaped, items, n

LEMMA JoinedIsShaped ==
    ASSUME NEW f, NEW s, Shaped(s, f), NEW t, Shaped(t, f)
    PROVE  Shaped(s \o t, f)
<1>1. Listed(s) /\ Listed(t) BY DEF Shaped
<1>2. /\ Listed(s \o t) /\ DOMAIN (s \o t) = 1 .. Len(s) + Len(t)
      /\ \A i \in 1 .. Len(s) : (s \o t)[i] = s[i]
      /\ \A i \in 1 .. Len(t) : (s \o t)[Len(s) + i] = t[i]
      /\ Len(s) \in Nat /\ DOMAIN s = 1 .. Len(s)
      /\ Len(t) \in Nat /\ DOMAIN t = 1 .. Len(t)
  <2>1. /\ Len(s) \in Nat /\ DOMAIN s = 1 .. Len(s)
        /\ Len(t) \in Nat /\ DOMAIN t = 1 .. Len(t)
    BY <1>1, ListedHas
  <2>2. /\ Listed(s \o t) /\ DOMAIN (s \o t) = 1 .. Len(s) + Len(t)
        /\ \A i \in 1 .. Len(s) : (s \o t)[i] = s[i]
        /\ \A i \in 1 .. Len(t) : (s \o t)[Len(s) + i] = t[i]
    BY <1>1, JoinedIsListed
  <2> QED BY <2>1, <2>2
<1>3. ASSUME NEW i \in 1 .. Len(s) + Len(t) PROVE DOMAIN (s \o t)[i] = f
  <2>1. CASE i <= Len(s)
    <3>1. i \in 1 .. Len(s) BY <1>2, <2>1
    <3> QED BY <1>2, <3>1 DEF Shaped
  <2>2. CASE i > Len(s)
    <3> DEFINE k == i - Len(s)
    <3>1. k \in 1 .. Len(t) /\ i = Len(s) + k BY <1>2, <2>2
    <3> HIDE DEF k
    <3>2. DOMAIN t[k] = f BY <1>2, <3>1 DEF Shaped
    <3> QED BY <1>2, <3>1, <3>2
  <2> QED BY <1>2, <2>1, <2>2
<1> QED BY <1>2, <1>3 DEF Shaped

\* What a group that is installed leaves: of its kind and monster the items
\* it had with those of the group, of every other the group it had.
LEMMA InstalledIs ==
    ASSUME NEW groups, GroupsHold(groups), NEW node,
           KindOf(node) \in Range(Kinds)
    PROVE  LET sort == KindOf(node)
               mob == Number(Field(node, "mob"))
               next == Installed(groups, node)
           IN /\ GroupsHold(next)
              /\ \A k \in Range(Kinds) : k # sort => next[k] = groups[k]
              /\ DOMAIN next[sort] = DOMAIN groups[sort] \cup {mob}
              /\ \A m \in DOMAIN groups[sort] : m # mob =>
                   next[sort][m] = groups[sort][m]
              /\ mob \notin DOMAIN groups[sort] =>
                   next[sort][mob] = NewGroup(node)
              /\ mob \in DOMAIN groups[sort] /\ sort = "drop" =>
                   next[sort][mob].items = groups[sort][mob].items \o GroupItems(node)
              /\ mob \in DOMAIN groups[sort] /\ sort # "drop" =>
                   next[sort][mob] = groups[sort][mob]
<1> DEFINE sort == KindOf(node)
           mob == Number(Field(node, "mob"))
           next == Installed(groups, node)
           new == GroupItems(node)
<1>1. Shaped(new, ItemFields) /\ (sort = "kill" => AddsUp(new))  BY GroupItemsAre
<1>2. NewGroup(node).items = new /\ DOMAIN NewGroup(node) = GroupFields
  BY DEF NewGroup, GroupFields
<1> HIDE DEF new, sort, mob
<1>3. sort \in Range(Kinds) /\ sort \in DOMAIN groups  BY DEF sort, GroupsHold
<1>4. CASE sort = "drop" /\ mob \in DOMAIN groups[sort]
  <2> DEFINE group == [groups[sort][mob] EXCEPT !.items = @ \o new]
             table == [groups[sort] EXCEPT ![mob] = group]
  <2>1. next = [groups EXCEPT ![sort] = table]
    BY <1>3, <1>4 DEF Installed, sort, mob, new
  <2>2. /\ DOMAIN groups[sort][mob] = GroupFields
        /\ Shaped(groups[sort][mob].items, ItemFields)
    BY <1>3, <1>4 DEF GroupsHold
  <2>3. DOMAIN group = GroupFields
          /\ group.items = groups[sort][mob].items \o new
    BY <2>2 DEF GroupFields
  <2> HIDE DEF group
  <2>4. Shaped(group.items, ItemFields)  BY <1>1, <2>2, <2>3, JoinedIsShaped
  <2>5. /\ DOMAIN table = DOMAIN groups[sort] /\ table[mob] = group
        /\ \A m \in DOMAIN groups[sort] : m # mob => table[m] = groups[sort][m]
    BY <1>4
  <2> HIDE DEF table
  <2>6. /\ DOMAIN next = DOMAIN groups /\ next[sort] = table
        /\ \A k \in Range(Kinds) : k # sort => next[k] = groups[k]
    BY <1>3, <2>1 DEF GroupsHold
  <2> HIDE DEF next
  <2>7. GroupsHold(next)
    <3>1. ASSUME NEW k \in Range(Kinds), NEW m \in DOMAIN next[k]
          PROVE  /\ DOMAIN next[k][m] = GroupFields
                 /\ Shaped(next[k][m].items, ItemFields)
                 /\ k = "kill" => AddsUp(next[k][m].items)
      <4>1. CASE k = sort /\ m = mob  BY <1>4, <2>3, <2>4, <2>5, <2>6, <4>1
      <4>2. CASE k = sort /\ m # mob  BY <1>3, <2>5, <2>6, <4>2 DEF GroupsHold
      <4>3. CASE k # sort  BY <2>6, <4>3 DEF GroupsHold
      <4> QED BY <4>1, <4>2, <4>3
    <3> QED BY <2>6, <3>1 DEF GroupsHold
  <2>8. DOMAIN next[sort] = DOMAIN groups[sort] \cup {mob}  BY <1>4, <2>5, <2>6
  <2>9. next[sort][mob].items = groups[sort][mob].items \o new  BY <2>3, <2>5, <2>6
  <2> QED BY <1>4, <2>5, <2>6, <2>7, <2>8, <2>9 DEF next, sort, mob, new
<1>5. CASE ~(sort = "drop" /\ mob \in DOMAIN groups[sort])
  <2> DEFINE table == Added(groups[sort], mob, NewGroup(node))
  <2>1. next = [groups EXCEPT ![sort] = table]  BY <1>3, <1>5 DEF Installed, sort, mob
  <2>2. /\ DOMAIN table = DOMAIN groups[sort] \cup {mob}
        /\ \A m \in DOMAIN groups[sort] : table[m] = groups[sort][m]
        /\ mob \notin DOMAIN groups[sort] => table[mob] = NewGroup(node)
    BY DEF Added
  <2> HIDE DEF table
  <2>3. /\ DOMAIN next = DOMAIN groups /\ next[sort] = table
        /\ \A k \in Range(Kinds) : k # sort => next[k] = groups[k]
    BY <1>3, <2>1 DEF GroupsHold
  <2> HIDE DEF next
  <2>4. GroupsHold(next)  BY <1>1, <1>2, <1>3, <2>2, <2>3 DEF GroupsHold
  <2>5. mob \notin DOMAIN groups[sort] => next[sort][mob] = NewGroup(node)
    BY <2>2, <2>3
  <2>6. mob \in DOMAIN groups[sort] =>
          next[sort][mob] = groups[sort][mob] /\ sort # "drop"
    BY <1>5, <2>2, <2>3
  <2> QED BY <2>2, <2>3, <2>4, <2>5, <2>6 DEF next, sort, mob, new
<1> QED BY <1>4, <1>5

\* What these say is the tables', the registry's and the corpus's.
LEMMA SaysStands ==
    ASSUME tables' = tables
    PROVE  /\ \A items : Entries(items)' = Entries(items)
           /\ \A rows : CommonEntries(rows)' = CommonEntries(rows)
           /\ Selected' = Selected
           /\ corpus' = corpus =>
                /\ \A sort, mob : ItemsOf(sort, mob)' = ItemsOf(sort, mob)
                /\ \A sort, mob : Offers(sort, mob)' <=> Offers(sort, mob)
                /\ \A row : CommonRowIsSound(row) => CommonRowIsSound(row)'
                /\ \A slot, mob, done :
                     SlotHolds(slot, mob, done)' <=> SlotHolds(slot, mob, done)
<1>1. \A v : Registered(v)' <=> Registered(v) BY DEF Registered
<1>2. \A items : Entries(items)' = Entries(items) BY <1>1 DEF Entries
<1>3. \A rows : CommonEntries(rows)' = CommonEntries(rows)
  BY <1>1 DEF CommonEntries, Offered
<1>4. Selected' = Selected BY DEF Selected
<1>5. ASSUME corpus' = corpus
      PROVE  /\ \A sort, mob : ItemsOf(sort, mob)' = ItemsOf(sort, mob)
             /\ \A sort, mob : Offers(sort, mob)' <=> Offers(sort, mob)
             /\ \A row : CommonRowIsSound(row) => CommonRowIsSound(row)'
  <2>1. \A sort, mob : ItemsOf(sort, mob)' = ItemsOf(sort, mob)  BY <1>5 DEF ItemsOf
  <2>2. \A sort, mob : Offers(sort, mob)' <=> Offers(sort, mob)
    BY <1>1, <2>1 DEF Offers
  <2>3. \A row : CommonRowIsSound(row) => CommonRowIsSound(row)'
    BY <1>5 DEF CommonRowIsSound, IsPrototype
  <2> QED BY <2>1, <2>2, <2>3
<1>6. ASSUME corpus' = corpus, NEW slot, NEW mob, NEW done
      PROVE  SlotHolds(slot, mob, done)' <=> SlotHolds(slot, mob, done)
  BY <1>2, <1>5, <1>6 DEF SlotHolds
<1> QED BY <1>2, <1>3, <1>4, <1>5, <1>6

LEMMA SlotsStand ==
    ASSUME tables' = tables, corpus' = corpus, catalog' = catalog, NEW done
    PROVE  /\ CommonHolds => CommonHolds'
           /\ SlotsHold(done) => SlotsHold(done)'
<1>1. CommonHolds => CommonHolds' BY SaysStands DEF CommonHolds
<1>2. SlotsHold(done) => SlotsHold(done)' BY SaysStands DEF SlotsHold
<1> QED BY <1>1, <1>2

\* What the catalogue comes to hold of the corpus it is made of.
LEMMA SlotsArrive ==
    ASSUME tables' = tables, corpus' = corpus, NEW done, Done' = done,
           DOMAIN (catalog').groups
             = {mob \in Selected : \E sort \in done : Offers(sort, mob)},
           \A mob \in DOMAIN (catalog').groups :
             SlotHolds((catalog').groups[mob], mob, done)
    PROVE  SlotsHold(Done)'
<1>1. /\ Selected' = Selected
      /\ \A sort, mob : Offers(sort, mob)' <=> Offers(sort, mob)
      /\ \A slot, mob, d : SlotHolds(slot, mob, d)' <=> SlotHolds(slot, mob, d)
  BY SaysStands
<1>2. DOMAIN (catalog').groups
        = {mob \in Selected' : \E sort \in Done' : Offers(sort, mob)'}
  BY <1>1
<1>3. \A mob \in DOMAIN (catalog').groups :
        SlotHolds((catalog').groups[mob], mob, Done')
  OBVIOUS
<1> QED BY <1>1, <1>2, <1>3 DEF SlotsHold

\* Steps that touch neither the corpus nor the catalogue.
LEMMA RollsStand ==
    ASSUME RollsInv, UNCHANGED <<tables, corpus, catalog>>,
           dropStage' \in {"kinds", "installed"} =>
             dropStage \in {"kinds", "installed"} /\ Done' = Done,
           dropStage' \notin {"kinds", "installed", "refused"} =>
             dropStage \notin {"kinds", "installed", "refused"},
           dropStage' = "kinds" => at' \in Nat \ {0}
    PROVE  RollsInv'
<1>1. CorpusHolds' BY DEF RollsInv, CorpusHolds
<1>2. ASSUME dropStage' \in {"kinds", "installed"}
      PROVE  CommonHolds' /\ SlotsHold(Done)'
  <2> DEFINE done == Done
  <2>1. CommonHolds /\ SlotsHold(done) BY <1>2 DEF RollsInv
  <2>2. Done' = done BY <1>2
  <2> HIDE DEF done
  <2>3. \A d : /\ CommonHolds => CommonHolds'
               /\ SlotsHold(d) => SlotsHold(d)'
    BY SlotsStand
  <2>4. CommonHolds' BY <2>1, <2>3
  <2>5. /\ DOMAIN (catalog').groups
             = {mob \in Selected : \E sort \in done : Offers(sort, mob)}
        /\ \A mob \in DOMAIN (catalog').groups :
             SlotHolds((catalog').groups[mob], mob, done)
    BY <2>1 DEF SlotsHold
  <2>6. SlotsHold(Done)' BY <2>2, <2>5, SlotsArrive
  <2> QED BY <2>4, <2>6
<1> QED BY <1>1, <1>2 DEF RollsInv

\* Steps that read, before the catalogue.
LEMMA RollsRead ==
    ASSUME RollsInv, UNCHANGED <<tables, catalog>>, CorpusHolds',
           dropStage' \notin {"kinds", "installed"},
           dropStage \notin {"kinds", "installed", "refused"}
    PROVE  RollsInv'
  BY DEF RollsInv

LEMMA InsertKeeps ==
    ASSUME NEW rows, Shaped(rows, CommonFields),
           NEW row, DOMAIN row = CommonFields
    PROVE  Shaped(Insert(rows, row), CommonFields)
<1> DEFINE before == {i \in DOMAIN rows : rows[i].to <= row.to}
           after == {i \in DOMAIN rows : rows[i].to > row.to}
           S(p) == Those(rows, p)
<1>1. before \in SUBSET DOMAIN rows /\ after \in SUBSET DOMAIN rows
  OBVIOUS
<1>2. Insert(rows, row) = (S(before) \o <<row>>) \o S(after)  BY DEF Insert
<1> HIDE DEF before, after
<1>3. ASSUME NEW p \in SUBSET DOMAIN rows
      PROVE  Shaped(Those(rows, p), CommonFields)
  <2>1. Listed(rows) BY DEF Shaped
  <2>2. /\ Listed(Those(rows, p))
        /\ DOMAIN Those(rows, p) = 1 .. Cardinality(p)
        /\ \A i \in 1 .. Cardinality(p) :
             Nth(p, i) \in p /\ Those(rows, p)[i] = rows[Nth(p, i)]
    BY <2>1, ThoseAreThePlaces
  <2> QED BY <2>2 DEF Shaped
<1>4. Shaped(<<row>>, CommonFields)
  <2>1. <<row>> \in Seq({row}) /\ DOMAIN <<row>> = 1 .. 1 OBVIOUS
  <2>2. \A i \in 1 .. 1 : <<row>>[i] = row OBVIOUS
  <2> QED BY <2>1, <2>2 DEF Shaped, Listed
<1>5. Shaped(S(before), CommonFields) /\ Shaped(S(after), CommonFields)  BY <1>1, <1>3
<1> HIDE DEF S
<1>6. Shaped(S(before) \o <<row>>, CommonFields)  BY <1>4, <1>5, JoinedIsShaped
<1>7. Shaped((S(before) \o <<row>>) \o S(after), CommonFields)
  BY <1>5, <1>6, JoinedIsShaped
<1> QED BY <1>2, <1>7

LEMMA CommonLineRolls == ASSUME RollsInv, ReadCommonLine PROVE RollsInv'
<1> DEFINE line == tables.common[at]
           blocks == [r \in Ranks |-> Block(line, r)]
           made(r) == IF line = <<>> \/ blocks[r].from = 0
                      THEN corpus.common[r]
                      ELSE Insert(corpus.common[r], CommonRow(blocks[r]))
           refuses == line # <<>> /\ \E r \in Ranks :
                        Resolve(corpus.items, blocks[r].name) = NoItem
<1>1. CASE refuses
  <2>1. Refuse BY <1>1 DEF ReadCommonLine
  <2> QED BY <2>1, RollsStand DEF Refuse
<1>2. CASE ~refuses
  <2>1. /\ corpus' = [corpus EXCEPT !.common = [r \in Ranks |-> made(r)]]
        /\ UNCHANGED <<tables, dropStage, catalog>> /\ dropStage = "common"
    BY <1>2 DEF ReadCommonLine
  <2>2. ASSUME NEW r \in Ranks PROVE Shaped(made(r), CommonFields)
    <3>1. Shaped(corpus.common[r], CommonFields)  BY DEF RollsInv, CorpusHolds
    <3>2. \A b : DOMAIN CommonRow(b) = CommonFields  BY DEF CommonRow, CommonFields
    <3>3. Shaped(Insert(corpus.common[r], CommonRow(blocks[r])), CommonFields)
      BY <3>1, <3>2, InsertKeeps
    <3> QED BY <3>1, <3>3
  <2> HIDE DEF made
  <2>3. /\ DOMAIN corpus' = DOMAIN corpus
        /\ (corpus').groups = corpus.groups
        /\ (corpus').common = [r \in Ranks |-> made(r)]
    BY <2>1 DEF RollsInv, CorpusHolds
  <2>4. CorpusHolds'  BY <2>2, <2>3 DEF RollsInv, CorpusHolds
  <2> QED BY <2>1, <2>4, RollsRead
<1> QED BY <1>1, <1>2

LEMMA ItemsRolls == ASSUME RollsInv, ReadItems PROVE RollsInv'
<1>1. CASE ~ItemTableIsSound(tables.proto)
  <2>1. Refuse BY <1>1 DEF ReadItems
  <2> QED BY <2>1, RollsStand DEF Refuse
<1>2. CASE ItemTableIsSound(tables.proto)
  <2>1. /\ corpus' = [corpus EXCEPT !.items =
                        {ItemRow(r) : r \in Range(tables.proto)}]
        /\ UNCHANGED <<tables, catalog>> /\ dropStage' = "common"
        /\ dropStage = "items"
    BY <1>2 DEF ReadItems, Arrives
  <2>2. /\ DOMAIN corpus' = DOMAIN corpus
        /\ (corpus').groups = corpus.groups
        /\ (corpus').common = corpus.common
    BY <2>1 DEF RollsInv, CorpusHolds
  <2>3. CorpusHolds' BY <2>2 DEF RollsInv, CorpusHolds
  <2> QED BY <2>1, <2>3, RollsRead
<1> QED BY <1>1, <1>2

LEMMA GroupRolls == ASSUME RollsInv, ReadGroup PROVE RollsInv'
<1> DEFINE node == Children[at]
           refuses == \/ ~GroupIsSound(node)
                      \/ /\ ~SkippedGroup(node)
                         /\ \E k \in 1 .. FirstGap(node) - 1 :
                              ~RowIsSound(node, RowOf(node, k))
<1>1. CASE refuses
  <2>1. Refuse BY <1>1 DEF ReadGroup
  <2> QED BY <2>1, RollsStand DEF Refuse
<1>2. CASE ~refuses
  <2>1. /\ corpus' = IF SkippedGroup(node) THEN corpus
                     ELSE [corpus EXCEPT !.groups =
                             Installed(corpus.groups, node)]
        /\ UNCHANGED <<tables, dropStage, catalog>> /\ dropStage = "groups"
        /\ GroupIsSound(node)
    BY <1>2 DEF ReadGroup
  <2>2. CASE SkippedGroup(node)
    <3>1. corpus' = corpus BY <2>1, <2>2
    <3> QED BY <2>1, <3>1, RollsStand
  <2>3. CASE ~SkippedGroup(node)
    <3>1. GroupsHold(corpus.groups) /\ KindOf(node) \in Range(Kinds)
      BY <2>1 DEF RollsInv, CorpusHolds, GroupIsSound
    <3>2. GroupsHold(Installed(corpus.groups, node))
      <4> HIDE DEF node
      <4> QED BY <3>1, InstalledIs
    <3>3. /\ DOMAIN corpus' = DOMAIN corpus
          /\ (corpus').common = corpus.common
          /\ (corpus').groups = Installed(corpus.groups, node)
      BY <2>1, <2>3 DEF RollsInv, CorpusHolds
    <3> HIDE DEF node
    <3>4. CorpusHolds' BY <3>2, <3>3 DEF RollsInv, CorpusHolds
    <3> QED BY <2>1, <3>4, RollsRead
  <2> QED BY <2>2, <2>3
<1> QED BY <1>1, <1>2

LEMMA RanksRolls == ASSUME RollsInv, CompileRanks PROVE RollsInv'
<1> DEFINE sound == /\ MobRanksAreSound(tables.mobs)
                    /\ LevelDeltaIsSound(tables.delta)
                    /\ RegistryIsSound(tables.registry)
                    /\ \A r \in Ranks :
                         /\ \A i \in DOMAIN corpus.common[r] :
                              CommonRowIsSound(corpus.common[r][i])
                         /\ CommonEntries(corpus.common[r]) # <<>>
<1>1. CASE ~sound
  <2>1. Refuse BY <1>1 DEF CompileRanks
  <2> QED BY <2>1, RollsStand DEF Refuse
<1>2. CASE sound
  <2>1. /\ catalog' = [catalog EXCEPT !.common =
                         [r \in Ranks |-> CommonEntries(corpus.common[r])]]
        /\ UNCHANGED <<tables, corpus>> /\ at' = 1 /\ dropStage' = "kinds"
        /\ dropStage = "ranks"
    BY <1>2 DEF CompileRanks, Arrives
  <2>2. /\ DOMAIN catalog' = DOMAIN catalog
        /\ (catalog').groups = catalog.groups
        /\ \A r \in Ranks :
             (catalog').common[r] = CommonEntries(corpus.common[r])
    BY <2>1 DEF RollsInv
  <2>3. CorpusHolds' BY <2>1 DEF RollsInv, CorpusHolds
  <2>4. CommonHolds'  BY <1>2, <2>1, <2>2, SaysStands DEF CommonHolds
  <2>5. Done' = {}
    <3>1. DOMAIN Kinds = 1 .. 4 BY DEF Kinds
    <3>2. {j \in DOMAIN Kinds : j < 1} = {} BY <3>1
    <3> QED BY <2>1, <3>2 DEF Done
  <2>6. DOMAIN (catalog').groups = {} BY <2>1, <2>2 DEF RollsInv, Nothing
  <2>7. SlotsHold(Done)' BY <2>5, <2>6 DEF SlotsHold
  <2> QED BY <2>1, <2>2, <2>3, <2>4, <2>7 DEF RollsInv
<1> QED BY <1>1, <1>2

\* What is filled of a group holds with those filled before.
LEMMA FilledHolds ==
    ASSUME CorpusHolds, NEW sort \in Range(Kinds), NEW done, sort \notin done,
           NEW mob \in DOMAIN corpus.groups[sort],
           NEW slot, SlotHolds(slot, mob, done)
    PROVE  SlotHolds(Fill(slot, sort, corpus.groups[sort][mob]), mob,
                     done \cup {sort})
<1> DEFINE g == corpus.groups[sort][mob]
           rows == Entries(g.items)
           next == Fill(slot, sort, g)
<1>1. rows = Entries(ItemsOf(sort, mob)) BY DEF ItemsOf
<1> HIDE DEF rows
<1>2. /\ DOMAIN next = {"kill_drop", "level_limit", "rows"}
      /\ next.rows = [slot.rows EXCEPT ![sort] = rows]
      /\ next.kill_drop = IF sort = "kill" THEN g.kill_drop
                          ELSE slot.kill_drop
      /\ next.level_limit = IF sort = "limit" THEN g.level_limit
                            ELSE slot.level_limit
  BY DEF Fill, rows
<1> HIDE DEF next
<1>3. /\ DOMAIN next.rows = Range(Kinds) /\ next.rows[sort] = rows
      /\ \A k \in Range(Kinds) : k # sort => next.rows[k] = slot.rows[k]
  BY <1>2 DEF SlotHolds
<1>4. ASSUME NEW k \in Range(Kinds)
      PROVE  next.rows[k] = IF k \in done \cup {sort}
                            THEN Entries(ItemsOf(k, mob)) ELSE <<>>
  <2>1. CASE k = sort BY <1>1, <1>3, <2>1
  <2>2. CASE k # sort BY <1>3, <2>2 DEF SlotHolds
  <2> QED BY <2>1, <2>2
<1>5. "kill" \in done \cup {sort} /\ Offers("kill", mob) =>
        next.kill_drop = corpus.groups["kill"][mob].kill_drop
  <2>1. CASE sort = "kill" BY <1>2, <2>1
  <2>2. CASE sort # "kill" BY <1>2, <2>2 DEF SlotHolds
  <2> QED BY <2>1, <2>2
<1>6. "limit" \in done \cup {sort} /\ Offers("limit", mob) =>
        next.level_limit = corpus.groups["limit"][mob].level_limit
  <2>1. CASE sort = "limit" BY <1>2, <2>1
  <2>2. CASE sort # "limit" BY <1>2, <2>2 DEF SlotHolds
  <2> QED BY <2>1, <2>2
<1> QED BY <1>2, <1>3, <1>4, <1>5, <1>6 DEF SlotHolds, next

\* A monster that nothing is offered for has no slot yet.
LEMMA EmptyHolds ==
    ASSUME CorpusHolds, NEW done \in SUBSET Range(Kinds), NEW mob,
           \A sort \in done : ~Offers(sort, mob)
    PROVE  SlotHolds([kill_drop |-> 0, level_limit |-> 0,
                      rows |-> [k \in Range(Kinds) |-> <<>>]], mob, done)
<1> DEFINE slot == [kill_drop |-> 0, level_limit |-> 0,
                    rows |-> [k \in Range(Kinds) |-> <<>>]]
<1>1. \A sort \in done : Entries(ItemsOf(sort, mob)) = <<>> BY ItemsAre
<1>2. /\ DOMAIN slot = {"kill_drop", "level_limit", "rows"}
      /\ DOMAIN slot.rows = Range(Kinds)
      /\ \A sort \in Range(Kinds) : slot.rows[sort] = <<>>
  OBVIOUS
<1> HIDE DEF slot
<1>3. SlotHolds(slot, mob, done) BY <1>1, <1>2 DEF SlotHolds
<1> QED BY <1>3 DEF slot

\* A kind nothing of which is offered changes nothing.
LEMMA PassedHolds ==
    ASSUME CorpusHolds, NEW sort \in Range(Kinds), NEW done, sort \notin done,
           NEW mob, ~Offers(sort, mob), NEW slot, SlotHolds(slot, mob, done)
    PROVE  SlotHolds(slot, mob, done \cup {sort})
<1>1. Entries(ItemsOf(sort, mob)) = <<>> BY ItemsAre
<1> QED BY <1>1 DEF SlotHolds

LEMMA KindRolls == ASSUME RollsInv, CompileKind PROVE RollsInv'
<1> DEFINE sort == Kinds[at]
           groups == corpus.groups[sort]
           mobs == DOMAIN groups \cap Selected
           filled == {m \in mobs : Entries(groups[m].items) # <<>>}
           slots == [m \in filled \cup DOMAIN catalog.groups |->
                       IF m \in filled
                       THEN Fill(Slot(catalog.groups, m), sort, groups[m])
                       ELSE catalog.groups[m]]
           done == Done
<1>1. CASE \E m \in mobs : ~GroupCompiles(sort, groups[m])
  <2>1. Refuse BY <1>1 DEF CompileKind
  <2> QED BY <2>1, RollsStand DEF Refuse
<1>2. CASE \A m \in mobs : GroupCompiles(sort, groups[m])
  <2>1. /\ catalog' = [catalog EXCEPT !.groups = slots]
        /\ UNCHANGED <<tables, dropStage, corpus>> /\ at' = at + 1
        /\ dropStage = "kinds" /\ at <= Len(Kinds)
    BY <1>2 DEF CompileKind
  <2>2. /\ sort \in Range(Kinds) /\ sort \notin done
        /\ done \in SUBSET Range(Kinds) /\ Done' = done \cup {sort}
        /\ at' \in Nat \ {0}
    <3>1. at \in 1 .. 4 /\ at' = at + 1 BY <2>1 DEF RollsInv, Kinds
    <3>2. /\ DOMAIN Kinds = 1 .. 4
          /\ \A i, j \in 1 .. 4 : Kinds[i] = Kinds[j] => i = j
      BY DEF Kinds
    <3>3. done = {Kinds[k] : k \in {j \in 1 .. 4 : j < at}}  BY <2>1, <3>2 DEF Done
    <3>4. Done' = {Kinds[k] : k \in {j \in 1 .. 4 : j < at'}}  BY <2>1, <3>2 DEF Done
    <3>5. {j \in 1 .. 4 : j < at'} = {j \in 1 .. 4 : j < at} \cup {at}  BY <3>1
    <3> HIDE DEF done
    <3>6. sort \notin done BY <3>1, <3>2, <3>3
    <3>7. Done' = done \cup {sort} BY <3>3, <3>4, <3>5
    <3>8. done \subseteq Range(Kinds) /\ sort \in Range(Kinds)
      BY <3>1, <3>2, <3>3 DEF Range
    <3> QED BY <3>1, <3>6, <3>7, <3>8
  <2>3. /\ CorpusHolds /\ CommonHolds /\ SlotsHold(done)
        /\ DOMAIN catalog = {"common", "groups"}
    BY <2>1 DEF RollsInv
  <2> HIDE DEF done, sort
  <2>4. \A m : m \in filled <=> m \in Selected /\ Offers(sort, m)
    BY <2>2, <2>3, ItemsAre DEF ItemsOf
  <2>5. DOMAIN slots
          = {m \in Selected : \E k \in done \cup {sort} : Offers(k, m)}
    BY <2>3, <2>4 DEF SlotsHold
  <2>6. ASSUME NEW m \in DOMAIN slots
        PROVE  SlotHolds(slots[m], m, done \cup {sort})
    <3> DEFINE slot == Slot(catalog.groups, m)
    <3>1. CASE m \notin filled
      <4>1. m \in DOMAIN catalog.groups /\ m \in Selected  BY <2>3, <3>1 DEF SlotsHold
      <4>2. ~Offers(sort, m) BY <2>4, <3>1, <4>1
      <4>3. slots[m] = catalog.groups[m] BY <3>1
      <4>4. SlotHolds(catalog.groups[m], m, done)  BY <2>3, <4>1 DEF SlotsHold
      <4> QED BY <2>2, <2>3, <4>2, <4>3, <4>4, PassedHolds
    <3>2. CASE m \in filled
      <4>1. m \in DOMAIN groups /\ m \in Selected BY <3>2
      <4>2. SlotHolds(slot, m, done)
        <5>1. CASE m \in DOMAIN catalog.groups  BY <2>3, <5>1 DEF Slot, SlotsHold
        <5>2. CASE m \notin DOMAIN catalog.groups
          <6>1. \A k \in done : ~Offers(k, m)  BY <2>3, <4>1, <5>2 DEF SlotsHold
          <6>2. slot = [kill_drop |-> 0, level_limit |-> 0,
                        rows |-> [k \in Range(Kinds) |-> <<>>]]
            BY <5>2 DEF Slot
          <6> HIDE DEF slot
          <6> QED BY <2>2, <2>3, <6>1, <6>2, EmptyHolds
        <5> QED BY <5>1, <5>2
      <4>3. slots[m] = Fill(slot, sort, corpus.groups[sort][m]) BY <3>2
      <4>4. m \in DOMAIN corpus.groups[sort] BY <4>1
      <4> HIDE DEF slot, slots, groups, mobs, filled
      <4>5. SlotHolds(Fill(slot, sort, corpus.groups[sort][m]), m,
                      done \cup {sort})
        BY <2>2, <2>3, <4>2, <4>4, FilledHolds
      <4> QED BY <4>3, <4>5
    <3> QED BY <3>1, <3>2
  <2> HIDE DEF slots, filled, mobs, groups
  <2>7. /\ DOMAIN catalog' = DOMAIN catalog
        /\ (catalog').groups = slots
        /\ (catalog').common = catalog.common
    BY <2>1, <2>3
  <2>8. CorpusHolds' BY <2>1, <2>3 DEF CorpusHolds
  <2>9. CommonHolds' BY <2>1, <2>3, <2>7, SaysStands DEF CommonHolds
  <2>10. SlotsHold(Done)'
    <3> DEFINE now == done \cup {sort}
    <3>1. /\ DOMAIN (catalog').groups
               = {m \in Selected : \E k \in now : Offers(k, m)}
          /\ \A m \in DOMAIN (catalog').groups :
               SlotHolds((catalog').groups[m], m, now)
      BY <2>5, <2>6, <2>7
    <3>2. Done' = now /\ tables' = tables /\ corpus' = corpus BY <2>1, <2>2
    <3> HIDE DEF now
    <3> QED BY <3>1, <3>2, SlotsArrive
  <2> QED BY <2>1, <2>2, <2>3, <2>7, <2>8, <2>9, <2>10 DEF RollsInv
<1> QED BY <1>1, <1>2

LEMMA RollsBegin == ASSUME DropsInit PROVE RollsInv
<1>1. CorpusHolds
  BY NothingIsListed DEF DropsInit, DropsStart, CorpusHolds, GroupsHold,
     Shaped, Nothing
<1>2. DOMAIN catalog = {"common", "groups"} /\ catalog.groups = Nothing
  BY DEF DropsInit, DropsStart
<1> QED BY <1>1, <1>2 DEF RollsInv, DropsInit, DropsStart

LEMMA RollsStep == ASSUME RollsInv, [DropsNext]_dropVars PROVE RollsInv'
<1>1. CASE UNCHANGED dropVars  BY <1>1, RollsStand DEF dropVars, RollsInv, Done
<1>2. CASE EndCommon \/ EndLines \/ EndGroups
  BY <1>2, RollsStand DEF EndCommon, EndLines, EndGroups, Arrives
<1>3. CASE SkipLine \/ ReadList  BY <1>3, RollsStand DEF SkipLine, ReadList, Loading
<1>4. CASE CloseGroup  BY <1>4, RollsStand DEF CloseGroup, Loading, Arrives
<1>5. CASE OpenGroup \/ ReadRow
  BY <1>5, RollsStand DEF OpenGroup, ReadRow, Refuse, Loading
<1>6. CASE BuildDrops
  <2>1. CASE catalog.groups = Nothing
    <3>1. Refuse BY <1>6, <2>1 DEF BuildDrops
    <3> QED BY <3>1, RollsStand DEF Refuse
  <2>2. CASE catalog.groups # Nothing
    <3>1. /\ dropStage = "kinds" /\ at > Len(Kinds) /\ dropStage' = "installed"
          /\ UNCHANGED <<tables, corpus, catalog>>
      BY <1>6, <2>2 DEF BuildDrops, Arrives
    <3>2. DOMAIN Kinds = 1 .. 4 /\ Len(Kinds) = 4 BY DEF Kinds
    <3>3. {j \in DOMAIN Kinds : j < at} = DOMAIN Kinds  BY <3>1, <3>2 DEF RollsInv
    <3>4. Done = {Kinds[k] : k \in DOMAIN Kinds} BY <3>1, <3>3 DEF Done
    <3>5. Done = Range(Kinds) BY <3>4 DEF Range
    <3>6. Done' = Range(Kinds) BY <3>1 DEF Done
    <3> QED BY <3>1, <3>5, <3>6, RollsStand
  <2> QED BY <2>1, <2>2
<1> QED BY <1>1, <1>2, <1>3, <1>4, <1>5, <1>6, ItemsRolls, CommonLineRolls,
           GroupRolls, RanksRolls, KindRolls DEF DropsNext

-----------------------------------------------------------------------------
(* The text.                                                                 *)

N == Len(tables.mob)
Opens(k) == tables.mob[k].head = "group" /\ ~InList[k]
Shuts(k) == tables.mob[k].head = "}" /\ ~InList[k]

LEMMA TextIs ==
    ASSUME tables \in DropSources
    PROVE  N \in Nat /\ DOMAIN tables.mob = 1 .. N
<1>1. tables.mob \in Seq(Range(tables.mob)) OBVIOUS
<1> QED BY <1>1 DEF N

\* Whether the line below is in a list.
Lists(k, above) ==
    IF above THEN tables.mob[k].head # "}"
    ELSE tables.mob[k].head = "list" /\ Len(tables.mob[k].values) = 1

LEMMA InListIs ==
    ASSUME tables \in DropSources
    PROVE  \A i \in 0 .. N + 1 :
             InList[i] <=> i > 1 /\ Lists(i - 1, InList[i - 1])
<1> DEFINE n == N + 1
           F == [i \in 0 .. n |-> BOOLEAN]
           D == [k \in 1 .. n |-> [v \in BOOLEAN |-> k > 1 /\ Lists(k - 1, v)]]
           Is(g) == g = [i \in 0 .. n |-> i > 1 /\ Lists(i - 1, g[i - 1])]
<1>1. n \in Nat BY TextIs
<1>2. \A k \in 1 .. n : \A v \in F[k - 1] : D[k][v] \in F[k]
  <2>1. ASSUME NEW k \in 1 .. n, NEW v \in BOOLEAN
        PROVE  D[k][v] \in BOOLEAN
    <3>1. D[k][v] = (k > 1 /\ Lists(k - 1, v)) OBVIOUS
    <3>2. (k > 1 /\ Lists(k - 1, v)) \in BOOLEAN OBVIOUS
    <3> QED BY ONLY <3>1, <3>2
  <2>2. \A k \in 1 .. n : k - 1 \in 0 .. n /\ k \in 0 .. n BY <1>1
  <2>3. \A k \in 0 .. n : F[k] = BOOLEAN OBVIOUS
  <2> HIDE DEF F, D, n
  <2> QED BY <2>1, <2>2, <2>3
<1>3. LeftFolds(n, F, FALSE, D)
  <2>1. FALSE \in F[0] BY <1>1
  <2> HIDE DEF n, F, D
  <2> QED BY <1>1, <1>2, <2>1, LeftFoldExists
<1>4. PICK g : /\ g = [i \in 0 .. n |-> IF i = 0 THEN FALSE ELSE D[i][g[i - 1]]]
               /\ \A i \in 0 .. n : g[i] \in F[i]
  BY <1>3 DEF LeftFolds
<1>5. ASSUME NEW i \in 0 .. n
      PROVE  g[i] = (i > 1 /\ Lists(i - 1, g[i - 1]))
  <2>1. CASE i = 0
    <3>1. g[i] = FALSE BY <1>1, <1>4, <2>1
    <3>2. ~(i > 1) BY <2>1
    <3> QED BY <3>1, <3>2
  <2>2. CASE i # 0
    <3>1. i \in 1 .. n /\ i - 1 \in 0 .. n BY <1>1, <2>2
    <3>2. g[i - 1] \in BOOLEAN BY <1>4, <3>1
    <3>3. g[i] = D[i][g[i - 1]] BY <1>4, <2>2
    <3> QED BY <3>1, <3>2, <3>3
  <2> QED BY <2>1, <2>2
<1>6. Is(g)
  <2>1. g = [i \in 0 .. n |-> g[i]] BY <1>4
  <2> HIDE DEF n, F, D
  <2> QED BY <1>5, <2>1
<1>7. InList = CHOOSE f : Is(f) BY DEF InList, Lists, N
<1>8. Is(InList)
  <2> HIDE DEF Is
  <2> QED BY <1>6, <1>7
<1>9. InList = [i \in 0 .. n |-> i > 1 /\ Lists(i - 1, InList[i - 1])]  BY <1>8
<1> HIDE DEF Is, n, F, D
<1>10. \A i \in 0 .. n : InList[i] = (i > 1 /\ Lists(i - 1, InList[i - 1]))  BY <1>9
<1> QED BY <1>10 DEF n

LEMMA SpansAreFinite ==
    ASSUME NEW i \in Int, NEW j \in Int
    PROVE  /\ Heads(i, j) \subseteq i .. j /\ Closes(i, j) \subseteq i .. j
           /\ IsFiniteSet(Heads(i, j)) /\ IsFiniteSet(Closes(i, j))
           /\ Cardinality(Heads(i, j)) \in Nat
           /\ Cardinality(Closes(i, j)) \in Nat
           /\ Balance(i, j) \in Int
<1>1. Heads(i, j) \subseteq i .. j /\ Closes(i, j) \subseteq i .. j
  BY DEF Heads, Closes
<1>2. IsFiniteSet(i .. j) BY FS_Interval
<1>3. /\ IsFiniteSet(Heads(i, j)) /\ IsFiniteSet(Closes(i, j))
      /\ Cardinality(Heads(i, j)) \in Nat
      /\ Cardinality(Closes(i, j)) \in Nat
  BY <1>1, <1>2, FS_Subset, FS_CardinalityType
<1> QED BY <1>1, <1>3 DEF Balance

LEMMA BalanceStarts ==
    ASSUME NEW i \in Int, NEW j \in Int, j < i PROVE Balance(i, j) = 0
<1>2. \A k : k \notin i .. j OBVIOUS
<1>1. Heads(i, j) = {} /\ Closes(i, j) = {} BY <1>2 DEF Heads, Closes
<1> QED BY <1>1, FS_EmptySet DEF Balance

\* Lines that neither open nor close a group leave the balance.
LEMMA BalanceStands ==
    ASSUME NEW i \in Int, NEW m \in Int, NEW k \in Int, m <= k,
           \A l \in m + 1 .. k : ~Opens(l) /\ ~Shuts(l)
    PROVE  i <= m + 1 => Balance(i, k) = Balance(i, m)
<1> SUFFICES ASSUME i <= m + 1 PROVE Balance(i, k) = Balance(i, m)
  OBVIOUS
<1>1. \A l \in i .. k : l \in i .. m \/ l \in m + 1 .. k OBVIOUS
<1>2. \A l \in i .. m : l \in i .. k OBVIOUS
<1>3. Heads(i, k) = Heads(i, m) /\ Closes(i, k) = Closes(i, m)
  BY <1>1, <1>2 DEF Heads, Closes, Opens, Shuts
<1> QED BY <1>3 DEF Balance

LEMMA BalanceOpens ==
    ASSUME NEW i \in Int, NEW j \in Int, i <= j, Opens(j)
    PROVE  Balance(i, j) = Balance(i, j - 1) + 1
<1>1. \A l \in i .. j : l \in i .. j - 1 \/ l = j OBVIOUS
<1>2. \A l \in i .. j - 1 : l \in i .. j /\ l # j OBVIOUS
<1>3. j \in i .. j OBVIOUS
<1>4. /\ Heads(i, j) = Heads(i, j - 1) \cup {j} /\ j \notin Heads(i, j - 1)
      /\ Closes(i, j) = Closes(i, j - 1)
  BY <1>1, <1>2, <1>3 DEF Heads, Closes, Opens
<1>5. /\ IsFiniteSet(Heads(i, j - 1)) /\ Cardinality(Heads(i, j - 1)) \in Nat
      /\ Cardinality(Closes(i, j - 1)) \in Nat
  <2>1. j - 1 \in Int OBVIOUS
  <2> QED BY ONLY <2>1, i \in Int, SpansAreFinite
<1>6. Cardinality(Heads(i, j)) = Cardinality(Heads(i, j - 1)) + 1
  BY <1>4, <1>5, FS_AddElement
<1> QED BY <1>4, <1>5, <1>6 DEF Balance

LEMMA BalanceCloses ==
    ASSUME NEW i \in Int, NEW j \in Int, i <= j, Shuts(j)
    PROVE  Balance(i, j) = Balance(i, j - 1) - 1
<1>1. \A l \in i .. j : l \in i .. j - 1 \/ l = j OBVIOUS
<1>2. \A l \in i .. j - 1 : l \in i .. j /\ l # j OBVIOUS
<1>3. j \in i .. j OBVIOUS
<1>4. /\ Closes(i, j) = Closes(i, j - 1) \cup {j} /\ j \notin Closes(i, j - 1)
      /\ Heads(i, j) = Heads(i, j - 1)
  BY <1>1, <1>2, <1>3 DEF Heads, Closes, Shuts
<1>5. /\ IsFiniteSet(Closes(i, j - 1)) /\ Cardinality(Heads(i, j - 1)) \in Nat
      /\ Cardinality(Closes(i, j - 1)) \in Nat
  <2>1. j - 1 \in Int OBVIOUS
  <2> QED BY ONLY <2>1, i \in Int, SpansAreFinite
<1>6. Cardinality(Closes(i, j)) = Cardinality(Closes(i, j - 1)) + 1
  BY <1>4, <1>5, FS_AddElement
<1> QED BY <1>4, <1>5, <1>6 DEF Balance

-----------------------------------------------------------------------------
(* What is read of the text up to a line.                                    *)

\* The lines that give the values of a key of a group.
Told(h, key, m) == {i \in h + 1 .. m : Gives(i, key) /\ OwnerOf(i) = h}

\* ns are the groups read up to line m, and line[j] is the heading of group j;
\* that of the global group is 0.
NodeHolds(ns, j, m, line) ==
    /\ ns[j].parent \in 1 .. j - 1
    /\ line[ns[j].parent] = OwnerOf(line[j])
    /\ \A key : key \in DOMAIN ns[j].rows <=> Told(line[j], key, m) # {}
    /\ \A key : key \in DOMAIN ns[j].rows =>
         ns[j].rows[key] = ValuesAt(Min(Told(line[j], key, m)))

NodeFields == {"name", "parent", "rows"}
ReadUpto(ns, m, line) ==
    /\ Listed(ns) /\ Len(ns) >= 1 /\ ns[1].parent = 0
    /\ \A j \in DOMAIN ns : DOMAIN ns[j] = NodeFields
    /\ line[1] = 0 /\ \A j \in 1 .. Len(ns) : line[j] \in 0 .. m
    /\ \A i, j \in 1 .. Len(ns) : i < j => line[i] < line[j]
    /\ \A h \in Heads(1, m) : \E j \in 2 .. Len(ns) : line[j] = h
    /\ \A j \in 2 .. Len(ns) :
         line[j] \in Heads(1, m) /\ NodeHolds(ns, j, m, line)

\* os are the groups that no brace has closed up to line m.
StackHolds(os, n, m, line) ==
    /\ Listed(os) /\ Len(os) >= 1 /\ os[1] = 1
    /\ \A d \in 1 .. Len(os) : os[d] \in 1 .. n
    /\ \A d, e \in 1 .. Len(os) : d < e => os[d] < os[e]
    /\ \A h \in Heads(1, m) :
         IsOpen(h, m + 1) => \E d \in 2 .. Len(os) : line[os[d]] = h
    /\ \A d \in 2 .. Len(os) : IsOpen(line[os[d]], m + 1)
    /\ \A d \in 1 .. Len(os) : Balance(line[os[d]] + 1, m) = Len(os) - d
    /\ \A i \in 1 .. m : Balance(1, i) >= 0

LEMMA LineOf ==
    ASSUME NEW ns, NEW m \in Nat, NEW line, ReadUpto(ns, m, line)
    PROVE  /\ Len(ns) \in Nat \ {0} /\ DOMAIN ns = 1 .. Len(ns)
           /\ \A j \in 1 .. Len(ns) : line[j] \in Nat /\ line[j] <= m
           /\ \A i, j \in 1 .. Len(ns) : line[i] = line[j] => i = j
<1>1. Len(ns) \in Nat \ {0} /\ DOMAIN ns = 1 .. Len(ns)  BY ListedHas DEF ReadUpto
<1>2. \A j \in 1 .. Len(ns) : line[j] \in Nat /\ line[j] <= m  BY DEF ReadUpto
<1>3. ASSUME NEW i \in 1 .. Len(ns), NEW j \in 1 .. Len(ns), line[i] = line[j]
      PROVE  i = j
  <2>1. ~(i < j) BY <1>2, <1>3 DEF ReadUpto
  <2>2. ~(j < i) BY <1>2, <1>3 DEF ReadUpto
  <2> QED BY <1>1, <2>1, <2>2
<1> QED BY <1>1, <1>2, <1>3

LEMMA StackIs ==
    ASSUME NEW os, NEW n, NEW m, NEW line, StackHolds(os, n, m, line)
    PROVE  Len(os) \in Nat \ {0} /\ DOMAIN os = 1 .. Len(os)
             /\ Last(os) = os[Len(os)] /\ Len(os) \in 1 .. Len(os)
<1>1. Len(os) \in Nat /\ Len(os) >= 1 /\ DOMAIN os = 1 .. Len(os)
  BY ListedHas DEF StackHolds
<1> QED BY <1>1 DEF Last

\* The next line is in the group that was opened last.
LEMMA OwnerIsTop ==
    ASSUME NEW ns, NEW os, NEW m \in Nat, NEW line, ReadUpto(ns, m, line),
           StackHolds(os, Len(ns), m, line)
    PROVE  OwnerOf(m + 1) = line[Last(os)] /\ Last(os) \in 1 .. Len(ns)
<1> DEFINE S == {0} \cup {h \in Heads(1, m) : IsOpen(h, m + 1)}
           t == Len(os)
           top == line[os[t]]
<1>1. /\ t \in Nat \ {0} /\ t \in 1 .. t /\ DOMAIN os = 1 .. t
      /\ Last(os) = os[t]
  BY StackIs
<1> HIDE DEF t
<1>2. (m + 1) - 1 = m OBVIOUS
<1>3. OwnerOf(m + 1) = Max(S) BY <1>2 DEF OwnerOf
<1>4. \A d \in 1 .. t : os[d] \in 1 .. Len(ns) BY DEF StackHolds, t
<1>5. \A d \in 1 .. t : line[os[d]] \in Nat /\ line[os[d]] <= m  BY <1>4, LineOf
<1>6. S \in SUBSET Nat /\ \A h \in S : h <= m
  <2>1. Heads(1, m) \subseteq 1 .. m BY SpansAreFinite
  <2> QED BY <2>1
<1>7. top \in S
  <2>1. CASE t = 1
    <3>1. top = 0 BY <2>1 DEF StackHolds, ReadUpto
    <3> QED BY <3>1
  <2>2. CASE t # 1
    <3>1. t \in 2 .. t BY <1>1, <2>2
    <3>2. IsOpen(top, m + 1) BY <3>1 DEF StackHolds, t
    <3>3. os[t] \in 2 .. Len(ns)
      <4>1. os[1] < os[t] /\ os[1] = 1 /\ os[t] \in 1 .. Len(ns)
        BY <1>1, <1>4, <3>1 DEF StackHolds, t
      <4> QED BY <4>1
    <3>4. top \in Heads(1, m) BY <3>3 DEF ReadUpto
    <3> QED BY <3>2, <3>4
  <2> QED BY <2>1, <2>2
<1>8. ASSUME NEW h \in S PROVE h <= top
  <2>1. CASE h = 0 BY <1>1, <1>5, <2>1
  <2>2. CASE h # 0
    <3>1. PICK d \in 2 .. t : line[os[d]] = h  BY <2>2 DEF StackHolds, t
    <3>2. d = t \/ (d < t /\ d \in 1 .. t) BY <1>1, <3>1
    <3>3. d < t => os[d] < os[t] BY <1>1, <3>2 DEF StackHolds, t
    <3>4. d < t => line[os[d]] < line[os[t]]  BY <1>1, <1>4, <3>2, <3>3 DEF ReadUpto
    <3> QED BY <1>1, <1>5, <1>6, <3>1, <3>2, <3>4
  <2> QED BY <2>1, <2>2
<1>9. Max(S) = top
  <2> HIDE DEF S
  <2>1. Max(S) \in S /\ \A h \in S : h <= Max(S)
    <3>1. S # {} BY <1>7
    <3> QED BY <1>6, <3>1, MaxIsGreatest
  <2>2. Max(S) <= top /\ top <= Max(S) BY <1>7, <1>8, <2>1
  <2>3. Max(S) \in Nat /\ top \in Nat BY <1>6, <1>7, <2>1
  <2> QED BY <2>2, <2>3
<1> QED BY <1>1, <1>3, <1>4, <1>9

\* Lines that neither open nor close a group leave the stack.
LEMMA StackStands ==
    ASSUME NEW ns, NEW os, NEW m \in Nat, NEW k \in Nat, m <= k, NEW line,
           ReadUpto(ns, m, line), StackHolds(os, Len(ns), m, line),
           \A l \in m + 1 .. k : ~Opens(l) /\ ~Shuts(l)
    PROVE  StackHolds(os, Len(ns), k, line) /\ Heads(1, k) = Heads(1, m)
<1>1. /\ Len(os) \in Nat \ {0}
      /\ \A d \in 1 .. Len(os) : os[d] \in 1 .. Len(ns)
  BY StackIs DEF StackHolds
<1>2. \A d \in 1 .. Len(os) : line[os[d]] \in Nat /\ line[os[d]] <= m  BY <1>1, LineOf
<1>3. ASSUME NEW i \in Nat, i <= m + 1, NEW j \in m .. k
      PROVE  Balance(i, j) = Balance(i, m)
  <2>1. /\ i \in Int /\ m \in Int /\ j \in Int /\ m <= j
        /\ \A l \in m + 1 .. j : ~Opens(l) /\ ~Shuts(l)
    BY <1>3
  <2> QED BY <1>3, <2>1, BalanceStands
<1>4. Heads(1, k) = Heads(1, m)
  <2>1. \A l \in 1 .. k : l \in 1 .. m \/ l \in m + 1 .. k OBVIOUS
  <2>2. \A l \in 1 .. m : l \in 1 .. k OBVIOUS
  <2> QED BY <2>1, <2>2 DEF Heads, Opens
<1>5. ASSUME NEW h \in Nat, h <= m
      PROVE  IsOpen(h, k + 1) <=> IsOpen(h, m + 1)
  <2>1. (k + 1) - 1 = k /\ (m + 1) - 1 = m OBVIOUS
  <2>2. \A j \in h + 1 .. m : j \in h + 1 .. k OBVIOUS
  <2>3. ASSUME IsOpen(h, m + 1), NEW j \in h + 1 .. k
        PROVE  Balance(h + 1, j) >= 0
    <3>1. CASE j <= m
      <4>1. j \in h + 1 .. m BY <3>1
      <4> QED BY <2>1, <2>3, <4>1 DEF IsOpen
    <3>2. CASE j > m
      <4>1. Balance(h + 1, j) = Balance(h + 1, m)
        <5>1. j \in m .. k /\ h + 1 \in Nat /\ h + 1 <= m + 1  BY <1>5, <3>2
        <5> QED BY <1>3, <5>1
      <4>2. CASE h = m
        <5>1. h + 1 \in Int /\ m \in Int /\ m < h + 1 BY <4>2
        <5>2. Balance(h + 1, m) = 0 BY <5>1, BalanceStarts
        <5> QED BY <4>1, <5>2
      <4>3. CASE h < m
        <5>1. m \in h + 1 .. m BY <4>3
        <5>2. Balance(h + 1, m) >= 0 BY <2>1, <2>3, <5>1 DEF IsOpen
        <5> QED BY <4>1, <5>2
      <4> QED BY <1>5, <4>2, <4>3
    <3> QED BY <3>1, <3>2
  <2> QED BY <2>1, <2>2, <2>3 DEF IsOpen
<1>6. \A h \in Heads(1, k) :
        IsOpen(h, k + 1) => \E d \in 2 .. Len(os) : line[os[d]] = h
  <2>1. \A h \in Heads(1, m) : h \in Nat /\ h <= m
    <3>1. 1 \in Int /\ m \in Int OBVIOUS
    <3>2. Heads(1, m) \subseteq 1 .. m BY ONLY <3>1, SpansAreFinite
    <3> QED BY <3>2
  <2> QED BY <1>4, <1>5, <2>1 DEF StackHolds
<1>7. \A d \in 2 .. Len(os) : IsOpen(line[os[d]], k + 1)
  BY <1>1, <1>2, <1>5 DEF StackHolds
<1>8. \A d \in 1 .. Len(os) : Balance(line[os[d]] + 1, k) = Len(os) - d
  <2> TAKE d \in 1 .. Len(os)
  <2>1. /\ line[os[d]] + 1 \in Nat /\ line[os[d]] + 1 <= m + 1
        /\ k \in m .. k
    BY <1>2
  <2>2. Balance(line[os[d]] + 1, k) = Balance(line[os[d]] + 1, m)  BY <1>3, <2>1
  <2> QED BY <2>2 DEF StackHolds
<1>9. \A i \in 1 .. k : Balance(1, i) >= 0
  <2> TAKE i \in 1 .. k
  <2>1. CASE i <= m
    <3>1. i \in 1 .. m BY <2>1
    <3> QED BY <3>1 DEF StackHolds
  <2>2. CASE i > m
    <3>1. i \in m .. k /\ 1 \in Nat /\ 1 <= m + 1 BY <2>2
    <3>2. Balance(1, i) = Balance(1, m) BY <1>3, <3>1
    <3>3. Balance(1, m) >= 0
      <4>1. CASE m = 0
        <5>1. 1 \in Int /\ m \in Int /\ m < 1 BY <4>1
        <5>2. Balance(1, m) = 0 BY <5>1, BalanceStarts
        <5> QED BY <5>2
      <4>2. CASE m # 0
        <5>1. m \in 1 .. m BY <4>2
        <5> QED BY <5>1 DEF StackHolds
      <4> QED BY <4>1, <4>2
    <3> QED BY <3>2, <3>3
  <2> QED BY <2>1, <2>2
<1> QED BY <1>4, <1>6, <1>7, <1>8, <1>9 DEF StackHolds


\* What the text says does not change while it is read.
LEMMA TextStays ==
    ASSUME tables' = tables
    PROVE  /\ N' = N /\ InList' = InList /\ LastLine' = LastLine
           /\ \A i, j : Heads(i, j)' = Heads(i, j)
           /\ \A i : ValuesAt(i)' = ValuesAt(i)
           /\ \A h, i : IsOpen(h, i)' <=> IsOpen(h, i)
           /\ \A i : OwnerOf(i)' = OwnerOf(i)
           /\ \A i, key : Gives(i, key)' <=> Gives(i, key)
           /\ \A ns, m, line : ReadUpto(ns, m, line)' <=> ReadUpto(ns, m, line)
           /\ \A os, n, m, line :
                StackHolds(os, n, m, line)' <=> StackHolds(os, n, m, line)
<1>1. N' = N /\ InList' = InList BY DEF N, InList
<1>2. \A i, j : Heads(i, j)' = Heads(i, j) BY <1>1 DEF Heads
<1>3. \A i, j : Closes(i, j)' = Closes(i, j) BY <1>1 DEF Closes
<1>4. \A i, j : Balance(i, j)' = Balance(i, j) BY <1>2, <1>3 DEF Balance
<1>5. LastLine' = LastLine BY <1>4 DEF LastLine
<1>6. \A h, i : IsOpen(h, i)' <=> IsOpen(h, i) BY <1>4 DEF IsOpen
<1>7. \A i : OwnerOf(i)' = OwnerOf(i)
  <2> TAKE i
  <2>1. {h \in Heads(1, i - 1) : IsOpen(h, i)}'
          = {h \in Heads(1, i - 1) : IsOpen(h, i)}
    BY <1>2, <1>6
  <2> QED BY <2>1 DEF OwnerOf
<1>8. \A i, key : Gives(i, key)' <=> Gives(i, key) BY <1>1 DEF Gives
<1>9. \A i : ListEnd(i)' = ListEnd(i) BY DEF ListEnd
<1>10. \A i : ListValues(i)' = ListValues(i)
  <2> TAKE i
  <2>1. {j \in i + 1 .. ListEnd(i) - 1 :
           tables.mob[j].head \notin {"", "{"}}'
          = {j \in i + 1 .. ListEnd(i) - 1 :
               tables.mob[j].head \notin {"", "{"}}
    BY <1>9
  <2> QED BY <2>1 DEF ListValues
<1>11. \A i : ValuesAt(i)' = ValuesAt(i) BY <1>10 DEF ValuesAt
<1>12. \A h, key, m : Told(h, key, m)' = Told(h, key, m)  BY <1>7, <1>8 DEF Told
<1>13. \A ns, j, m, line :
         NodeHolds(ns, j, m, line)' <=> NodeHolds(ns, j, m, line)
  BY <1>7, <1>11, <1>12 DEF NodeHolds
<1>14. \A ns, m, line : ReadUpto(ns, m, line)' <=> ReadUpto(ns, m, line)
  BY <1>2, <1>13 DEF ReadUpto
<1>15. \A os, n, m, line :
         StackHolds(os, n, m, line)' <=> StackHolds(os, n, m, line)
  BY <1>2, <1>4, <1>6 DEF StackHolds
<1> QED BY <1>1, <1>2, <1>5, <1>6, <1>7, <1>8, <1>11, <1>14, <1>15

\* Lines that say nothing leave what was read.
LEMMA ReadStands ==
    ASSUME NEW ns, NEW m \in Nat, NEW k \in Nat, m <= k, NEW line,
           ReadUpto(ns, m, line), Heads(1, k) = Heads(1, m),
           \A l \in m + 1 .. k : \A key : ~Gives(l, key)
    PROVE  ReadUpto(ns, k, line)
<1>1. /\ Len(ns) \in Nat \ {0} /\ DOMAIN ns = 1 .. Len(ns)
      /\ \A j \in 1 .. Len(ns) : line[j] \in Nat /\ line[j] <= m
  BY LineOf
<1>2. ASSUME NEW h \in Nat, h <= m, NEW key
      PROVE  Told(h, key, k) = Told(h, key, m)
  <2>1. \A l \in h + 1 .. k : l \in h + 1 .. m \/ l \in m + 1 .. k  BY <1>2
  <2>2. \A l \in h + 1 .. m : l \in h + 1 .. k BY <1>2
  <2> QED BY <2>1, <2>2 DEF Told
<1>3. ASSUME NEW j \in 2 .. Len(ns)
      PROVE  line[j] \in Heads(1, k) /\ NodeHolds(ns, j, k, line)
  <2>1. line[j] \in Heads(1, m) /\ NodeHolds(ns, j, m, line)  BY DEF ReadUpto
  <2>2. j \in 1 .. Len(ns) BY <1>1
  <2>3. \A key : Told(line[j], key, k) = Told(line[j], key, m)  BY <1>1, <1>2, <2>2
  <2> QED BY <2>1, <2>3 DEF NodeHolds
<1>4. \A j \in 1 .. Len(ns) : line[j] \in 0 .. k BY <1>1
<1> QED BY <1>3, <1>4 DEF ReadUpto

WithRow(ns, t, key, values) ==
    [ns EXCEPT ![t].rows = Added(@, key, values)]

LEMMA WithRowIs ==
    ASSUME NEW ns, Listed(ns), NEW t \in 1 .. Len(ns),
           \A j \in DOMAIN ns : DOMAIN ns[j] = NodeFields,
           NEW key, NEW values
    PROVE  LET new == WithRow(ns, t, key, values)
           IN /\ Listed(new) /\ Len(new) = Len(ns)
              /\ \A j \in DOMAIN new : DOMAIN new[j] = NodeFields
              /\ \A j \in 1 .. Len(ns) :
                   /\ new[j].parent = ns[j].parent
                   /\ j # t => new[j] = ns[j]
              /\ DOMAIN new[t].rows = DOMAIN ns[t].rows \cup {key}
              /\ \A k \in DOMAIN new[t].rows :
                   new[t].rows[k] = IF k \in DOMAIN ns[t].rows
                                    THEN ns[t].rows[k] ELSE values
<1> DEFINE new == WithRow(ns, t, key, values)
<1>1. Len(ns) \in Nat /\ DOMAIN ns = 1 .. Len(ns) BY ListedHas
<1>2. /\ DOMAIN new = 1 .. Len(ns) /\ new = [i \in 1 .. Len(ns) |-> new[i]]
      /\ \A j \in 1 .. Len(ns) : j # t => new[j] = ns[j]
      /\ new[t] = [ns[t] EXCEPT !.rows = Added(@, key, values)]
  BY <1>1 DEF WithRow
<1>3. Listed(new) /\ Len(new) = Len(ns)
  <2> HIDE DEF new
  <2> QED BY <1>1, <1>2, CountedIsListed
<1>4. DOMAIN ns[t] = NodeFields BY <1>1
<1>5. /\ DOMAIN new[t] = NodeFields /\ new[t].parent = ns[t].parent
      /\ new[t].rows = Added(ns[t].rows, key, values)
  <2> HIDE DEF new
  <2> QED BY <1>2, <1>4 DEF NodeFields
<1> HIDE DEF new
<1>6. /\ DOMAIN new[t].rows = DOMAIN ns[t].rows \cup {key}
      /\ \A k \in DOMAIN new[t].rows :
           new[t].rows[k] = IF k \in DOMAIN ns[t].rows
                            THEN ns[t].rows[k] ELSE values
  BY <1>5 DEF Added
<1> QED BY <1>1, <1>2, <1>3, <1>5, <1>6 DEF new

\* A line that gives a key gives it to the group that was opened last.
LEMMA ReadGives ==
    ASSUME NEW ns, NEW os, NEW m \in Nat, NEW k \in Nat, m + 1 <= k, NEW line,
           ReadUpto(ns, m, line), StackHolds(os, Len(ns), m, line),
           Heads(1, k) = Heads(1, m), NEW key, Gives(m + 1, key),
           \A other : Gives(m + 1, other) => other = key,
           \A l \in m + 2 .. k : \A other : ~Gives(l, other)
    PROVE  ReadUpto(WithRow(ns, Last(os), key, ValuesAt(m + 1)), k, line)
<1> DEFINE t == Last(os)
           new == WithRow(ns, t, key, ValuesAt(m + 1))
<1>1. /\ Len(ns) \in Nat \ {0} /\ DOMAIN ns = 1 .. Len(ns)
      /\ \A j \in 1 .. Len(ns) : line[j] \in Nat /\ line[j] <= m
      /\ \A i, j \in 1 .. Len(ns) : line[i] = line[j] => i = j
  BY LineOf
<1>2. OwnerOf(m + 1) = line[t] /\ t \in 1 .. Len(ns) BY OwnerIsTop
<1>3. Listed(ns) /\ \A j \in DOMAIN ns : DOMAIN ns[j] = NodeFields  BY DEF ReadUpto
<1> HIDE DEF t
<1>4. /\ Listed(new) /\ Len(new) = Len(ns)
      /\ \A j \in DOMAIN new : DOMAIN new[j] = NodeFields
      /\ \A j \in 1 .. Len(ns) :
           /\ new[j].parent = ns[j].parent
           /\ j # t => new[j] = ns[j]
      /\ DOMAIN new[t].rows = DOMAIN ns[t].rows \cup {key}
      /\ \A o \in DOMAIN new[t].rows :
           new[t].rows[o] = IF o \in DOMAIN ns[t].rows
                            THEN ns[t].rows[o] ELSE ValuesAt(m + 1)
  BY <1>2, <1>3, WithRowIs
<1> HIDE DEF new
<1>5. ASSUME NEW h \in Nat, h <= m, NEW other
      PROVE  Told(h, other, k)
               = Told(h, other, m)
                   \cup (IF h = line[t] /\ other = key THEN {m + 1} ELSE {})
  <2>1. \A l \in h + 1 .. k : \/ l \in h + 1 .. m \/ l = m + 1
                              \/ l \in m + 2 .. k
    BY <1>5
  <2>2. \A l \in h + 1 .. m : l \in h + 1 .. k BY <1>5
  <2>3. m + 1 \in h + 1 .. k BY <1>5
  <2> QED BY <1>2, <2>1, <2>2, <2>3 DEF Told
<1>6. ASSUME NEW j \in 2 .. Len(ns)
      PROVE  line[j] \in Heads(1, k) /\ NodeHolds(new, j, k, line)
  <2>1. line[j] \in Heads(1, m) /\ NodeHolds(ns, j, m, line)  BY DEF ReadUpto
  <2>2. j \in 1 .. Len(ns) BY <1>1
  <2>3. line[j] \in Nat /\ line[j] <= m BY <1>1, <2>2
  <2>4. CASE j # t
    <3>1. line[j] # line[t] BY <1>1, <1>2, <2>2, <2>4
    <3>2. \A other : Told(line[j], other, k) = Told(line[j], other, m)
      BY <1>5, <2>3, <3>1
    <3>3. new[j] = ns[j] BY <1>4, <2>2, <2>4
    <3> QED BY <2>1, <3>2, <3>3 DEF NodeHolds
  <2>5. CASE j = t
    <3>1. \A other : other # key =>
            Told(line[j], other, k) = Told(line[j], other, m)
      BY <1>5, <2>3
    <3>2. Told(line[j], key, k) = Told(line[j], key, m) \cup {m + 1}
      BY <1>5, <2>3, <2>5
    <3>3. /\ new[j].parent \in 1 .. j - 1
          /\ line[new[j].parent] = OwnerOf(line[j])
      BY <1>4, <2>1, <2>2 DEF NodeHolds
    <3>4. ASSUME NEW o
          PROVE  o \in DOMAIN new[j].rows <=> Told(line[j], o, k) # {}
      <4>1. o \in DOMAIN ns[j].rows <=> Told(line[j], o, m) # {}  BY <2>1 DEF NodeHolds
      <4> QED BY <1>4, <2>5, <3>1, <3>2, <4>1
    <3>5. ASSUME NEW o \in DOMAIN new[j].rows
          PROVE  new[j].rows[o] = ValuesAt(Min(Told(line[j], o, k)))
      <4>1. o \in DOMAIN ns[j].rows =>
              /\ Told(line[j], o, m) # {}
              /\ new[j].rows[o] = ValuesAt(Min(Told(line[j], o, m)))
        BY <1>4, <2>1, <2>5 DEF NodeHolds
      <4>2. CASE o # key
        <5>1. o \in DOMAIN ns[j].rows BY <1>4, <2>5, <4>2
        <5> QED BY <3>1, <4>1, <4>2, <5>1
      <4>3. CASE o = key /\ o \in DOMAIN ns[j].rows
        <5> DEFINE old == Told(line[j], o, m)
        <5>1. old # {} /\ old \subseteq line[j] + 1 .. m  BY <4>1, <4>3 DEF Told
        <5>2. old \in SUBSET Nat /\ \A i \in old : i <= m  BY <2>3, <5>1
        <5> HIDE DEF old
        <5>3. Min(old) \in old /\ \A i \in old : Min(old) <= i
          BY <5>1, <5>2, MinIsLeast
        <5>4. /\ old \cup {m + 1} \in SUBSET Nat
              /\ old \cup {m + 1} # {}
          BY <5>2
        <5>5. Min(old \cup {m + 1}) = Min(old)
          <6> DEFINE u == Min(old \cup {m + 1}) v == Min(old)
          <6>1. /\ u \in old \cup {m + 1}
                /\ \A i \in old \cup {m + 1} : u <= i
            BY <5>4, MinIsLeast
          <6>2. v \in Nat /\ v <= m BY <5>2, <5>3
          <6> HIDE DEF u, v
          <6>3. u <= v /\ u \in Nat BY <5>3, <5>4, <6>1 DEF v
          <6>4. u \in old BY <6>1, <6>2, <6>3
          <6>5. v <= u BY <5>3, <6>4 DEF v
          <6>6. u = v BY <6>2, <6>3, <6>5
          <6> QED BY <6>6 DEF u, v
        <5>6. Told(line[j], o, k) = old \cup {m + 1}  BY <3>2, <4>3 DEF old
        <5> QED BY <4>1, <4>3, <5>5, <5>6 DEF old
      <4>4. CASE o = key /\ o \notin DOMAIN ns[j].rows
        <5>1. Told(line[j], o, m) = {} BY <2>1, <4>4 DEF NodeHolds
        <5>2. Told(line[j], o, k) = {m + 1} BY <3>2, <4>4, <5>1
        <5>3. Min({m + 1}) = m + 1
          <6>1. {m + 1} \in SUBSET Nat /\ {m + 1} # {} OBVIOUS
          <6>2. Min({m + 1}) \in {m + 1} BY <6>1, MinIsLeast
          <6> QED BY <6>2
        <5>4. new[j].rows[o] = ValuesAt(m + 1) BY <1>4, <2>5, <4>4
        <5> QED BY <5>2, <5>3, <5>4
      <4> QED BY <4>2, <4>3, <4>4
    <3> QED BY <2>1, <3>3, <3>4, <3>5 DEF NodeHolds
  <2> QED BY <2>1, <2>4, <2>5
<1>7. \A j \in 1 .. Len(ns) : line[j] \in 0 .. k BY <1>1
<1>8. new[1].parent = 0
  <2>1. 1 \in 1 .. Len(ns) BY <1>1
  <2> QED BY <1>4, <2>1 DEF ReadUpto
<1>9. ReadUpto(new, k, line)  BY <1>1, <1>4, <1>6, <1>7, <1>8 DEF ReadUpto
<1> QED BY <1>9 DEF new, t


\* A heading opens a group within the one that was opened last.
OpenedNodes(ns, os, name) ==
    Append(ns, [name |-> name, parent |-> Last(os), rows |-> Nothing])
WithLine(ns, m, line) ==
    [j \in 1 .. Len(ns) + 1 |-> IF j = Len(ns) + 1 THEN m + 1 ELSE line[j]]

LEMMA HeadingOpens ==
    ASSUME NEW ns, NEW os, NEW m \in Nat, NEW line, NEW name,
           ReadUpto(ns, m, line), StackHolds(os, Len(ns), m, line),
           Opens(m + 1)
    PROVE  LET new == OpenedNodes(ns, os, name)
               with == WithLine(ns, m, line)
           IN /\ ReadUpto(new, m + 1, with)
              /\ StackHolds(Append(os, Len(ns) + 1), Len(new), m + 1, with)
<1> DEFINE n == Len(ns) t == Last(os) d0 == Len(os)
           node == [name |-> name, parent |-> t, rows |-> Nothing]
           new == Append(ns, node)
           with == WithLine(ns, m, line)
           stack == Append(os, n + 1)
<1>1. /\ n \in Nat \ {0} /\ DOMAIN ns = 1 .. n
      /\ \A j \in 1 .. n : line[j] \in Nat /\ line[j] <= m
  BY LineOf
<1>2. OwnerOf(m + 1) = line[t] /\ t \in 1 .. n BY OwnerIsTop
<1>3. d0 \in Nat \ {0} /\ DOMAIN os = 1 .. d0 BY StackIs
<1>4. /\ Listed(new) /\ Len(new) = n + 1 /\ DOMAIN new = 1 .. n + 1
      /\ \A j \in 1 .. n : new[j] = ns[j]
      /\ new[n + 1] = node
  <2>1. PICK T : ns \in Seq(T) BY DEF ReadUpto, Listed
  <2> HIDE DEF node
  <2>2. ns \in Seq(T \cup {node}) BY <2>1
  <2>3. new \in Seq(T \cup {node}) BY <2>2
  <2> QED BY <2>2, <2>3 DEF Listed
<1>5. /\ Listed(stack) /\ Len(stack) = d0 + 1
      /\ \A d \in 1 .. d0 : stack[d] = os[d]
      /\ stack[d0 + 1] = n + 1
  <2>1. PICK T : os \in Seq(T) BY DEF StackHolds, Listed
  <2> HIDE DEF n
  <2>2. os \in Seq(T \cup {n + 1}) BY <2>1
  <2>3. stack \in Seq(T \cup {n + 1}) BY <2>2
  <2> QED BY <2>2, <2>3 DEF Listed
<1>6. /\ with[n + 1] = m + 1 /\ \A j \in 1 .. n : with[j] = line[j]
  BY <1>1 DEF WithLine
<1>7. Heads(1, m + 1) = Heads(1, m) \cup {m + 1}
  <2>1. \A l \in 1 .. m + 1 : l \in 1 .. m \/ l = m + 1 OBVIOUS
  <2>2. m + 1 \in 1 .. m + 1 /\ \A l \in 1 .. m : l \in 1 .. m + 1 OBVIOUS
  <2> QED BY <2>1, <2>2 DEF Heads, Opens
<1>8. \A key : ~Gives(m + 1, key) BY DEF Gives, Opens, Marks
<1>9. ASSUME NEW h \in Nat, h <= m, NEW key
      PROVE  Told(h, key, m + 1) = Told(h, key, m)
  <2>1. \A l \in h + 1 .. m + 1 : l \in h + 1 .. m \/ l = m + 1  BY <1>9
  <2>2. \A l \in h + 1 .. m : l \in h + 1 .. m + 1 BY <1>9
  <2> QED BY <1>8, <2>1, <2>2 DEF Told
<1>10. \A key : Told(m + 1, key, m + 1) = {}
  <2>1. \A l : l \notin (m + 1) + 1 .. m + 1 OBVIOUS
  <2> QED BY <2>1 DEF Told
<1>11. ASSUME NEW h \in Nat, h <= m
       PROVE  Balance(h + 1, m + 1) = Balance(h + 1, m) + 1
  <2>1. /\ h + 1 \in Int /\ m + 1 \in Int /\ h + 1 <= m + 1
        /\ (m + 1) - 1 = m
    BY <1>11
  <2> QED BY <2>1, BalanceOpens
<1>12. \A j \in 1 .. n + 1 : j \in 1 .. n \/ j = n + 1 BY <1>1
<1>13. \A d \in 1 .. d0 + 1 : d \in 1 .. d0 \/ d = d0 + 1 BY <1>3
<1> HIDE DEF n, t, d0, node, new, with, stack
<1>14. ReadUpto(new, m + 1, with)
  <2>1. ASSUME NEW j \in 1 .. n + 1 PROVE DOMAIN new[j] = NodeFields
    <3>1. CASE j = n + 1 BY <1>4, <3>1 DEF node, NodeFields
    <3>2. CASE j \in 1 .. n BY <1>1, <1>4, <3>2 DEF ReadUpto
    <3> QED BY <1>12, <3>1, <3>2
  <2>2. ASSUME NEW j \in 1 .. n + 1 PROVE with[j] \in 0 .. m + 1
    <3>1. CASE j = n + 1 BY <1>6, <3>1
    <3>2. CASE j \in 1 .. n BY <1>1, <1>6, <3>2 DEF ReadUpto, n
    <3> QED BY <1>12, <3>1, <3>2
  <2>3. ASSUME NEW i \in 1 .. n + 1, NEW j \in 1 .. n + 1, i < j
        PROVE  with[i] < with[j]
    <3>1. i \in 1 .. n BY <1>1, <2>3
    <3>2. CASE j = n + 1 BY <1>1, <1>6, <3>1, <3>2
    <3>3. CASE j \in 1 .. n  BY <1>6, <2>3, <3>1, <3>3 DEF ReadUpto, n
    <3> QED BY <1>12, <3>2, <3>3
  <2>4. ASSUME NEW h \in Heads(1, m + 1)
        PROVE  \E j \in 2 .. n + 1 : with[j] = h
    <3>1. CASE h = m + 1
      <4>1. n + 1 \in 2 .. n + 1 BY <1>1
      <4> QED BY <1>6, <3>1, <4>1
    <3>2. CASE h \in Heads(1, m)
      <4>1. PICK j \in 2 .. n : line[j] = h BY <3>2 DEF ReadUpto, n
      <4>2. j \in 2 .. n + 1 /\ j \in 1 .. n BY <1>1
      <4> QED BY <1>6, <4>1, <4>2
    <3> QED BY <1>7, <3>1, <3>2
  <2>5. ASSUME NEW j \in 2 .. n + 1
        PROVE  with[j] \in Heads(1, m + 1) /\ NodeHolds(new, j, m + 1, with)
    <3>1. CASE j = n + 1
      <4>1. /\ new[j].parent = t /\ t \in 1 .. j - 1
            /\ DOMAIN new[j].rows = {}
        BY <1>1, <1>2, <1>4, <3>1 DEF node, Nothing
      <4>2. with[new[j].parent] = OwnerOf(with[j])  BY <1>2, <1>6, <3>1, <4>1
      <4>3. with[j] = m + 1 BY <1>6, <3>1
      <4> QED BY <1>7, <1>10, <4>1, <4>2, <4>3 DEF NodeHolds
    <3>2. CASE j \in 2 .. n
      <4>1. line[j] \in Heads(1, m) /\ NodeHolds(ns, j, m, line)
        BY <3>2 DEF ReadUpto, n
      <4>2. j \in 1 .. n BY <1>1, <3>2
      <4>3. \A key : Told(line[j], key, m + 1) = Told(line[j], key, m)
        BY <1>1, <1>9, <4>2
      <4>4. new[j] = ns[j] /\ with[j] = line[j] BY <1>4, <1>6, <4>2
      <4>5. with[ns[j].parent] = line[ns[j].parent]
        <5>1. ns[j].parent \in 1 .. n BY <1>1, <4>1, <4>2 DEF NodeHolds
        <5> QED BY <1>6, <5>1
      <4> QED BY <1>7, <4>1, <4>3, <4>4, <4>5 DEF NodeHolds
    <3>3. j = n + 1 \/ j \in 2 .. n BY <1>1
    <3> QED BY <3>1, <3>2, <3>3
  <2>6. new[1].parent = 0 /\ with[1] = 0
    <3>1. 1 \in 1 .. n BY <1>1
    <3> QED BY <1>4, <1>6, <3>1 DEF ReadUpto
  <2>7. Listed(new) /\ Len(new) >= 1 BY <1>1, <1>4
  <2> QED BY <1>4, <2>1, <2>2, <2>3, <2>4, <2>5, <2>6, <2>7 DEF ReadUpto
<1>15. StackHolds(stack, n + 1, m + 1, with)
  <2>0. \A d \in 1 .. d0 : os[d] \in 1 .. n BY DEF StackHolds, d0, n
  <2>10. ASSUME NEW d \in 1 .. d0
         PROVE  /\ stack[d] = os[d] /\ os[d] \in 1 .. n
                /\ with[os[d]] = line[os[d]]
                /\ line[os[d]] \in Nat /\ line[os[d]] <= m
                /\ Balance(line[os[d]] + 1, m) = d0 - d
                /\ Balance(line[os[d]] + 1, m + 1) = d0 + 1 - d
    <3>1. /\ stack[d] = os[d] /\ os[d] \in 1 .. n
          /\ with[os[d]] = line[os[d]]
          /\ line[os[d]] \in Nat /\ line[os[d]] <= m
      BY <1>1, <1>5, <1>6, <2>0
    <3>2. Balance(line[os[d]] + 1, m) = d0 - d BY DEF StackHolds, d0
    <3>3. Balance(line[os[d]] + 1, m + 1)
            = Balance(line[os[d]] + 1, m) + 1
      BY <1>11, <3>1
    <3> QED BY <1>3, <3>1, <3>2, <3>3
  <2>1. Listed(stack) /\ Len(stack) >= 1 /\ stack[1] = 1  BY <1>3, <1>5 DEF StackHolds
  <2>2. ASSUME NEW d \in 1 .. d0 + 1 PROVE stack[d] \in 1 .. n + 1
    <3>1. CASE d = d0 + 1 BY <1>1, <1>5, <3>1
    <3>2. CASE d \in 1 .. d0 BY <1>1, <2>10, <3>2
    <3> QED BY <1>13, <3>1, <3>2
  <2>3. ASSUME NEW d \in 1 .. d0 + 1, NEW e \in 1 .. d0 + 1, d < e
        PROVE  stack[d] < stack[e]
    <3>1. d \in 1 .. d0 BY <1>3, <2>3
    <3>2. CASE e = d0 + 1 BY <1>1, <1>5, <2>10, <3>1, <3>2
    <3>3. CASE e \in 1 .. d0  BY <2>3, <2>10, <3>1, <3>3 DEF StackHolds, d0
    <3> QED BY <1>13, <3>2, <3>3
  <2>4. ASSUME NEW h \in Heads(1, m + 1), IsOpen(h, (m + 1) + 1)
        PROVE  \E d \in 2 .. d0 + 1 : with[stack[d]] = h
    <3>1. CASE h = m + 1
      <4>1. d0 + 1 \in 2 .. d0 + 1 BY <1>3
      <4> QED BY <1>5, <1>6, <3>1, <4>1
    <3>2. CASE h \in Heads(1, m)
      <4>1. IsOpen(h, m + 1)
        <5>1. Heads(1, m) \subseteq 1 .. m
          <6>1. 1 \in Int /\ m \in Int OBVIOUS
          <6> QED BY ONLY <6>1, SpansAreFinite
        <5>2. h \in Nat BY <3>2, <5>1
        <5>3. \A k \in h + 1 .. (m + 1) - 1 :
                k \in h + 1 .. ((m + 1) + 1) - 1
          BY <5>2
        <5> QED BY <2>4, <5>3 DEF IsOpen
      <4>2. PICK d \in 2 .. d0 : line[os[d]] = h  BY <3>2, <4>1 DEF StackHolds, d0
      <4>3. d \in 2 .. d0 + 1 /\ d \in 1 .. d0 BY <1>3
      <4> QED BY <2>10, <4>2, <4>3
    <3> QED BY <1>7, <3>1, <3>2
  <2>5. ASSUME NEW d \in 2 .. d0 + 1
        PROVE  IsOpen(with[stack[d]], (m + 1) + 1)
    <3>1. CASE d = d0 + 1
      <4>1. with[stack[d]] = m + 1 BY <1>5, <1>6, <3>1
      <4>2. \A k : k \notin (m + 1) + 1 .. ((m + 1) + 1) - 1 OBVIOUS
      <4> QED BY <4>1, <4>2 DEF IsOpen
    <3>2. CASE d \in 2 .. d0
      <4>1. d \in 1 .. d0 BY <1>3, <3>2
      <4> DEFINE h == line[os[d]]
      <4>2. /\ with[stack[d]] = h /\ h \in Nat /\ h <= m
            /\ Balance(h + 1, m + 1) = d0 + 1 - d
        BY <2>10, <4>1
      <4>3. IsOpen(h, m + 1) BY <3>2 DEF StackHolds, d0
      <4> HIDE DEF h
      <4>4. ASSUME NEW k \in h + 1 .. ((m + 1) + 1) - 1
            PROVE  Balance(h + 1, k) >= 0
        <5>1. CASE k = m + 1 BY <1>3, <3>2, <4>2, <5>1
        <5>2. CASE k # m + 1
          <6>1. k \in h + 1 .. (m + 1) - 1 BY <4>2, <5>2
          <6> QED BY <4>3, <6>1 DEF IsOpen
        <5> QED BY <5>1, <5>2
      <4> QED BY <4>2, <4>4 DEF IsOpen
    <3>3. d = d0 + 1 \/ d \in 2 .. d0 BY <1>3
    <3> QED BY <3>1, <3>2, <3>3
  <2>6. ASSUME NEW d \in 1 .. d0 + 1
        PROVE  Balance(with[stack[d]] + 1, m + 1) = d0 + 1 - d
    <3>1. CASE d = d0 + 1
      <4>1. with[stack[d]] = m + 1 BY <1>5, <1>6, <3>1
      <4>2. /\ (m + 1) + 1 \in Int /\ m + 1 \in Int
            /\ m + 1 < (m + 1) + 1
        OBVIOUS
      <4>3. Balance((m + 1) + 1, m + 1) = 0 BY <4>2, BalanceStarts
      <4> QED BY <1>3, <3>1, <4>1, <4>3
    <3>2. CASE d \in 1 .. d0 BY <2>10, <3>2
    <3> QED BY <1>13, <3>1, <3>2
  <2>7. ASSUME NEW i \in 1 .. m + 1 PROVE Balance(1, i) >= 0
    <3>1. CASE i = m + 1
      <4>1. 1 \in 1 .. d0 /\ os[1] = 1 /\ line[1] = 0  BY <1>3 DEF StackHolds, ReadUpto
      <4>2. Balance(0 + 1, m + 1) = d0 + 1 - 1 BY <2>10, <4>1
      <4> QED BY <1>3, <3>1, <4>2
    <3>2. CASE i # m + 1
      <4>1. i \in 1 .. m BY <3>2
      <4> QED BY <4>1 DEF StackHolds
    <3> QED BY <3>1, <3>2
  <2> QED  BY <1>3, <1>5, <2>1, <2>2, <2>3, <2>4, <2>5, <2>6, <2>7 DEF StackHolds
<1>16. new = OpenedNodes(ns, os, name) /\ Len(new) = n + 1
  BY <1>4 DEF new, node, t, OpenedNodes
<1> QED BY <1>14, <1>15, <1>16 DEF with, stack, n


\* A brace closes the group that was opened last.
LEMMA BraceCloses ==
    ASSUME NEW ns, NEW os, NEW m \in Nat, NEW line,
           ReadUpto(ns, m, line), StackHolds(os, Len(ns), m, line),
           Shuts(m + 1), Len(os) # 1
    PROVE  /\ ReadUpto(ns, m + 1, line)
           /\ StackHolds(Front(os), Len(ns), m + 1, line)
<1> DEFINE n == Len(ns) d0 == Len(os) - 1 stack == Front(os)
<1>1. /\ n \in Nat \ {0} /\ DOMAIN ns = 1 .. n
      /\ \A j \in 1 .. n : line[j] \in Nat /\ line[j] <= m
  BY LineOf
<1>2. d0 \in Nat \ {0} /\ Len(os) = d0 + 1 /\ DOMAIN os = 1 .. d0 + 1  BY StackIs
<1>3. /\ Listed(stack) /\ Len(stack) = d0
      /\ \A d \in 1 .. d0 : stack[d] = os[d]
  <2>1. PICK T : os \in Seq(T) BY DEF StackHolds, Listed
  <2>2. os # <<>> BY <1>2, <2>1
  <2>3. stack = [d \in 1 .. d0 |-> os[d]]  BY <1>2, <2>1, <2>2 DEF Front
  <2>4. \A d \in 1 .. d0 : os[d] \in T BY <1>2, <2>1
  <2> HIDE DEF stack, d0
  <2>5. stack \in Seq(T) /\ Len(stack) = d0 BY <1>2, <2>3, <2>4
  <2> QED BY <2>3, <2>5 DEF Listed
<1>4. Heads(1, m + 1) = Heads(1, m)
  <2>1. \A l \in 1 .. m + 1 : l \in 1 .. m \/ l = m + 1 OBVIOUS
  <2>2. \A l \in 1 .. m : l \in 1 .. m + 1 OBVIOUS
  <2> QED BY <2>1, <2>2 DEF Heads, Shuts
<1>5. \A key : ~Gives(m + 1, key) BY DEF Gives, Shuts, Marks
<1>6. ReadUpto(ns, m + 1, line)
  <2>1. \A l \in m + 1 .. m + 1 : l = m + 1 OBVIOUS
  <2>2. m + 1 \in Nat /\ m <= m + 1 OBVIOUS
  <2> QED BY <1>4, <1>5, <2>1, <2>2, ReadStands
<1>7. ASSUME NEW h \in Nat, h <= m
      PROVE  Balance(h + 1, m + 1) = Balance(h + 1, m) - 1
  <2>1. /\ h + 1 \in Int /\ m + 1 \in Int /\ h + 1 <= m + 1
        /\ (m + 1) - 1 = m
    BY <1>7
  <2> QED BY <2>1, BalanceCloses
<1> HIDE DEF n, d0, stack
<1>8. ASSUME NEW d \in 1 .. d0 + 1
      PROVE  /\ os[d] \in 1 .. n
             /\ line[os[d]] \in Nat /\ line[os[d]] <= m
             /\ Balance(line[os[d]] + 1, m + 1) = d0 - d
  <2>1. os[d] \in 1 .. n BY <1>2 DEF StackHolds, n
  <2>2. line[os[d]] \in Nat /\ line[os[d]] <= m BY <1>1, <2>1
  <2>3. Balance(line[os[d]] + 1, m) = d0 + 1 - d  BY <1>2 DEF StackHolds
  <2>4. Balance(line[os[d]] + 1, m + 1) = Balance(line[os[d]] + 1, m) - 1  BY <1>7, <2>2
  <2> QED BY <1>2, <2>1, <2>2, <2>3, <2>4
<1>9. \A d \in 1 .. d0 : d \in 1 .. d0 + 1 BY <1>2
<1>10. /\ Len(stack) >= 1 /\ stack[1] = 1
       /\ \A d \in 1 .. d0 : stack[d] \in 1 .. n
       /\ \A d, e \in 1 .. d0 : d < e => stack[d] < stack[e]
  <2>1. 1 \in 1 .. d0 BY <1>2
  <2>2. \A d, e \in 1 .. d0 : d < e => os[d] < os[e]  BY <1>2, <1>9 DEF StackHolds
  <2> QED BY <1>2, <1>3, <1>8, <1>9, <2>1, <2>2 DEF StackHolds
<1>11. ASSUME NEW h \in Heads(1, m + 1), IsOpen(h, (m + 1) + 1)
       PROVE  \E d \in 2 .. d0 : line[stack[d]] = h
  <2>1. h \in Nat /\ h <= m
    <3>1. 1 \in Int /\ m \in Int OBVIOUS
    <3>2. Heads(1, m) \subseteq 1 .. m BY ONLY <3>1, SpansAreFinite
    <3> QED BY <1>4, <3>2
  <2>2. IsOpen(h, m + 1)
    <3>1. \A k \in h + 1 .. (m + 1) - 1 :
            k \in h + 1 .. ((m + 1) + 1) - 1
      BY <2>1
    <3> QED BY <1>11, <3>1 DEF IsOpen
  <2>3. PICK d \in 2 .. d0 + 1 : line[os[d]] = h  BY <1>2, <1>4, <2>2 DEF StackHolds
  <2>4. d \in 1 .. d0 + 1 BY <1>2
  <2>5. Balance(h + 1, m + 1) = d0 - d BY <1>8, <2>3, <2>4
  <2>6. m + 1 \in h + 1 .. ((m + 1) + 1) - 1 BY <2>1
  <2>7. Balance(h + 1, m + 1) >= 0 BY <1>11, <2>6 DEF IsOpen
  <2>8. d \in 2 .. d0 /\ d \in 1 .. d0 BY <1>2, <2>3, <2>5, <2>7
  <2> QED BY <1>3, <2>3, <2>8
<1>12. ASSUME NEW d \in 2 .. d0 PROVE IsOpen(line[stack[d]], (m + 1) + 1)
  <2> DEFINE h == line[os[d]]
  <2>1. d \in 1 .. d0 /\ d \in 1 .. d0 + 1 /\ d \in 2 .. d0 + 1 BY <1>2
  <2>2. /\ line[stack[d]] = h /\ h \in Nat /\ h <= m
        /\ Balance(h + 1, m + 1) = d0 - d
    BY <1>3, <1>8, <2>1
  <2>3. IsOpen(h, m + 1) BY <1>2, <2>1 DEF StackHolds
  <2> HIDE DEF h
  <2>4. ASSUME NEW k \in h + 1 .. ((m + 1) + 1) - 1
        PROVE  Balance(h + 1, k) >= 0
    <3>1. CASE k = m + 1 BY <1>2, <2>1, <2>2, <3>1
    <3>2. CASE k # m + 1
      <4>1. k \in h + 1 .. (m + 1) - 1 BY <2>2, <3>2
      <4> QED BY <2>3, <4>1 DEF IsOpen
    <3> QED BY <3>1, <3>2
  <2> QED BY <2>2, <2>4 DEF IsOpen
<1>13. \A d \in 1 .. d0 : Balance(line[stack[d]] + 1, m + 1) = d0 - d
  BY <1>3, <1>8, <1>9
<1>14. ASSUME NEW i \in 1 .. m + 1 PROVE Balance(1, i) >= 0
  <2>1. CASE i = m + 1
    <3>1. 1 \in 1 .. d0 /\ os[1] = 1 /\ line[1] = 0  BY <1>2 DEF StackHolds, ReadUpto
    <3>2. Balance(0 + 1, m + 1) = d0 - 1 BY <1>8, <1>9, <3>1
    <3> QED BY <1>2, <2>1, <3>2
  <2>2. CASE i # m + 1
    <3>1. i \in 1 .. m BY <2>2
    <3> QED BY <3>1 DEF StackHolds
  <2> QED BY <2>1, <2>2
<1>15. StackHolds(stack, n, m + 1, line)
  BY <1>2, <1>3, <1>10, <1>11, <1>12, <1>13, <1>14 DEF StackHolds
<1> QED BY <1>6, <1>15 DEF stack, n

\* The reading ends with the text, or at a brace that closes nothing.
LEMMA ReadingEnds ==
    ASSUME tables \in DropSources, NEW m \in 0 .. N,
           \A i \in 1 .. m : Balance(1, i) >= 0,
           m = N \/ Balance(1, m + 1) < 0
    PROVE  LastLine = m
<1> DEFINE S == {i - 1 : i \in {j \in DOMAIN tables.mob : Balance(1, j) < 0}}
           T == {N} \cup S
<1>1. N \in Nat /\ DOMAIN tables.mob = 1 .. N BY TextIs
<1>2. LastLine = Min(T) BY DEF LastLine, N
<1>3. ASSUME NEW k \in S PROVE k \in Nat /\ m <= k /\ k <= N
  <2>1. PICK j \in 1 .. N : Balance(1, j) < 0 /\ k = j - 1 BY <1>1
  <2>2. j > m
    <3>1. 1 \in Int /\ j \in Int BY <1>1
    <3>2. Balance(1, j) \in Int BY ONLY <3>1, SpansAreFinite
    <3>3. ~(j \in 1 .. m) BY <2>1, <3>2
    <3> QED BY <1>1, <3>3
  <2> QED BY <1>1, <2>1, <2>2
<1>4. m \in T
  <2>1. CASE m = N BY <2>1
  <2>2. CASE m # N
    <3>1. m + 1 \in 1 .. N /\ (m + 1) - 1 = m BY <1>1, <2>2
    <3>2. Balance(1, m + 1) < 0 BY <2>2
    <3> QED BY <1>1, <3>1, <3>2
  <2> QED BY <2>1, <2>2
<1> HIDE DEF S
<1>5. T \in SUBSET Nat /\ \A k \in T : m <= k BY <1>1, <1>3
<1> HIDE DEF T
<1>6. Min(T) \in T /\ \A k \in T : Min(T) <= k BY <1>4, <1>5, MinIsLeast
<1>7. Min(T) <= m /\ m <= Min(T) /\ Min(T) \in Nat /\ m \in Nat
  BY <1>1, <1>4, <1>5, <1>6
<1> QED BY <1>2, <1>7

Brace(i) == tables.mob[i].head = "}"

\* All lines up to the end of a list are in it, the next one is not.
LEMMA ListRuns ==
    ASSUME tables \in DropSources, NEW i \in 1 .. N, ~InList[i],
           tables.mob[i].head = "list", Len(tables.mob[i].values) = 1
    PROVE  /\ ListEnd(i) \in i + 1 .. N + 1
           /\ \A j \in i + 1 .. ListEnd(i) : InList[j]
           /\ ListEnd(i) <= N => ~InList[ListEnd(i) + 1]
<1> DEFINE FileEnds == {j \in i + 1 .. N + 1 :
                      j = N + 1 \/ Brace(j)}
           e == ListEnd(i)
<1>0. N \in Nat BY TextIs
<1>1. N \in Nat /\ i \in Nat /\ 1 <= i /\ i <= N BY <1>0
<1>2. e = Min(FileEnds) BY DEF ListEnd, N, Brace
<1>3. FileEnds \in SUBSET Nat /\ N + 1 \in FileEnds
  <2>1. N + 1 \in i + 1 .. N + 1 BY <1>1
  <2>2. \A j \in i + 1 .. N + 1 : j \in Nat BY <1>1
  <2> QED BY <2>1, <2>2
<1>4. Min(FileEnds) \in FileEnds /\ \A j \in FileEnds : Min(FileEnds) <= j
  <2> HIDE DEF FileEnds
  <2> QED BY <1>3, MinIsLeast
<1>5. /\ e \in i + 1 .. N + 1 /\ e \in Nat /\ i < e /\ e <= N + 1
      /\ e = N + 1 \/ Brace(e)
  <2>1. e \in i + 1 .. N + 1 /\ (e = N + 1 \/ Brace(e))  BY <1>2, <1>4
  <2>2. i \in Int /\ N + 1 \in Int BY <1>1
  <2> HIDE DEF e
  <2>3. e \in Nat /\ i < e /\ e <= N + 1 BY <1>1, <2>1, <2>2
  <2> QED BY <2>1, <2>3
<1>6. ASSUME NEW j \in i + 1 .. N, j < e
      PROVE  ~Brace(j)
  <2>1. j \in i + 1 .. N + 1 /\ ~(e <= j) BY <1>1, <1>5, <1>6
  <2> QED BY <1>2, <1>4, <2>1
<1> HIDE DEF e, FileEnds
<1> DEFINE P == {j \in Nat : j \in i + 1 .. e => InList[j]}
<1>7. 0 \in P BY <1>1
<1>8. \A j \in Nat : j \in P => j + 1 \in P
  <2> SUFFICES ASSUME NEW j \in Nat, j \in P, j + 1 \in i + 1 .. e
               PROVE  InList[j + 1]
    OBVIOUS
  <2>1. j + 1 \in 0 .. N + 1 /\ j + 1 > 1 /\ (j + 1) - 1 = j  BY <1>1, <1>5
  <2>2. InList[j + 1] <=> Lists(j, InList[j]) BY <2>1, InListIs
  <2>3. CASE j = i BY <2>2, <2>3 DEF Lists
  <2>4. CASE j # i
    <3>1. j \in i + 1 .. e /\ j \in i + 1 .. N /\ j < e  BY <1>1, <1>5, <2>4
    <3>2. InList[j] /\ ~Brace(j) BY <1>6, <3>1
    <3> QED BY <2>2, <3>2 DEF Lists, Brace
  <2> QED BY <2>3, <2>4
<1>9. \A j \in Nat : j \in P
  <2> HIDE DEF P
  <2> QED BY ONLY <1>7, <1>8, SetInduction
<1>10. \A j \in i + 1 .. e : InList[j]
  <2>1. \A j \in i + 1 .. e : j \in Nat BY <1>1, <1>5
  <2> QED BY <1>9, <2>1
<1>11. ASSUME e <= N PROVE ~InList[e + 1]
  <2>1. Brace(e) BY <1>1, <1>5, <1>11
  <2>2. e + 1 \in 0 .. N + 1 /\ (e + 1) - 1 = e /\ e \in i + 1 .. e
    BY <1>1, <1>5, <1>11
  <2>3. InList[e + 1] => Lists(e, InList[e]) BY <2>2, InListIs
  <2> QED BY <1>10, <2>1, <2>2, <2>3 DEF Lists, Brace
<1> QED BY <1>5, <1>10, <1>11 DEF e


-----------------------------------------------------------------------------
(* The steps that read the text.                                             *)

Seen == IF at - 1 <= N THEN at - 1 ELSE N
LinesHold ==
    /\ at \in Nat \ {0} /\ at <= N + 2 /\ (at <= N => ~InList[at])
    /\ \E line : /\ ReadUpto(nodes, Seen, line)
                 /\ StackHolds(open, Len(nodes), Seen, line)
TextRead == LastLine \in Nat /\ \E line : ReadUpto(nodes, LastLine, line)
TextInv ==
    /\ tables \in DropSources
    /\ dropStage \in {"items", "common"} =>
         /\ nodes = <<[name |-> "global", parent |-> 0, rows |-> Nothing]>>
         /\ open = <<1>>
    /\ dropStage = "lines" => LinesHold
    /\ dropStage \in {"groups", "ranks"} => TextRead

\* The reading has come to line k.
LEMMA LinesMove ==
    ASSUME tables \in DropSources, tables' = tables, at' \in Nat \ {0},
           at' <= N + 2, NEW k \in Nat,
           k = IF at' - 1 <= N THEN at' - 1 ELSE N,
           at' <= N => ~InList[at'],
           NEW line, ReadUpto(nodes', k, line),
           StackHolds(open', Len(nodes'), k, line)
    PROVE  LinesHold'
<1>1. N' = N /\ InList' = InList BY TextStays
<1>2. Seen' = k BY <1>1 DEF Seen
<1>3. ReadUpto(nodes, k, line)' BY TextStays
<1>4. StackHolds(open, Len(nodes), k, line)' BY TextStays
<1>5. ReadUpto(nodes, Seen, line)' /\ StackHolds(open, Len(nodes), Seen, line)'
  BY <1>2, <1>3, <1>4
<1> QED BY <1>1, <1>5 DEF LinesHold

\* A line that is no list of one name does not begin a list.
LEMMA NoListBegins ==
    ASSUME tables \in DropSources, NEW i \in 1 .. N, ~InList[i],
           ~(tables.mob[i].head = "list" /\ Len(tables.mob[i].values) = 1)
    PROVE  i + 1 <= N => ~InList[i + 1]
<1>1. N \in Nat BY TextIs
<1> SUFFICES ASSUME i + 1 <= N PROVE ~InList[i + 1] OBVIOUS
<1>2. i + 1 \in 0 .. N + 1 /\ (i + 1) - 1 = i BY <1>1
<1>3. InList[i + 1] => Lists(i, InList[i]) BY <1>2, InListIs
<1> QED BY <1>3 DEF Lists

LEMMA LineIsNext ==
    ASSUME tables \in DropSources, LinesHold, Loading
    PROVE  /\ N \in Nat /\ at \in 1 .. N /\ ~InList[at]
           /\ Seen = at - 1 /\ at - 1 \in Nat /\ (at - 1) + 1 = at
           /\ at - 1 <= at
<1>1. N \in Nat BY TextIs
<1>2. at \in Nat \ {0} /\ at <= N BY DEF LinesHold, Loading, N
<1> QED BY <1>1, <1>2 DEF LinesHold, Seen

SaysNothing(i) == ~Opens(i) /\ ~Shuts(i) /\ \A key : ~Gives(i, key)

\* Nothing is opened, closed or given.
LEMMA SilentStep ==
    ASSUME tables \in DropSources, LinesHold, Loading, SaysNothing(at),
           ~(Line.head = "list" /\ Len(Line.values) = 1),
           at' = at + 1, UNCHANGED <<tables, nodes, open>>
    PROVE  LinesHold'
<1>1. /\ N \in Nat /\ at \in 1 .. N /\ ~InList[at]
      /\ Seen = at - 1 /\ at - 1 \in Nat /\ (at - 1) + 1 = at
      /\ at - 1 <= at
  BY LineIsNext
<1>2. PICK line : /\ ReadUpto(nodes, at - 1, line)
                  /\ StackHolds(open, Len(nodes), at - 1, line)
  BY <1>1 DEF LinesHold
<1> DEFINE m == at - 1
<1>3. \A l \in m + 1 .. at : l = at BY <1>1
<1>4. at \in Nat /\ m \in Nat /\ m <= at BY <1>1
<1>5. \A l \in m + 1 .. at : ~Opens(l) /\ ~Shuts(l)  BY <1>3 DEF SaysNothing
<1>6. \A l \in m + 1 .. at : \A key : ~Gives(l, key)  BY <1>3 DEF SaysNothing
<1>7. ReadUpto(nodes, m, line) /\ StackHolds(open, Len(nodes), m, line)  BY <1>2
<1> HIDE DEF m
<1>8. /\ StackHolds(open, Len(nodes), at, line)
      /\ Heads(1, at) = Heads(1, m)
  BY ONLY <1>4, <1>5, <1>7, StackStands
<1>9. ReadUpto(nodes, at, line)  BY ONLY <1>4, <1>6, <1>7, <1>8, ReadStands
<1>10. at + 1 <= N => ~InList[at + 1]  BY <1>1, NoListBegins DEF Line
<1>11. /\ at' \in Nat \ {0} /\ at' <= N + 2 /\ at \in Nat
       /\ at = IF at' - 1 <= N THEN at' - 1 ELSE N
  BY <1>1
<1> QED BY <1>8, <1>9, <1>10, <1>11, LinesMove

LEMMA SkipReads ==
    ASSUME tables \in DropSources, LinesHold, SkipLine PROVE LinesHold'
<1>1. Loading /\ Line.head \in {"", "{"} /\ at' = at + 1
        /\ UNCHANGED <<tables, nodes, open>>
  BY DEF SkipLine
<1>2. tables.mob[at].head = "" \/ tables.mob[at].head = "{"  BY <1>1 DEF Line
<1>3. ~Opens(at) BY <1>2 DEF Opens
<1>4. ~Shuts(at) BY <1>2 DEF Shuts
<1>5. \A key : ~Gives(at, key) BY <1>2 DEF Gives, Marks
<1>6. Line.head # "list" BY <1>2 DEF Line
<1> QED BY <1>1, <1>3, <1>4, <1>5, <1>6, SilentStep DEF SaysNothing

\* A list that has no one name says nothing.
LEMMA UnnamedReads ==
    ASSUME tables \in DropSources, LinesHold, ReadList, Len(Line.values) # 1
    PROVE  LinesHold'
<1>1. Loading /\ Line.head = "list" /\ at' = at + 1
        /\ UNCHANGED <<tables, nodes, open>>
  BY DEF ReadList
<1>2. tables.mob[at].head = "list" /\ Len(tables.mob[at].values) # 1  BY <1>1 DEF Line
<1>3. ~Opens(at) BY <1>2 DEF Opens
<1>4. ~Shuts(at) BY <1>2 DEF Shuts
<1>5. \A key : ~Gives(at, key) BY <1>2 DEF Gives, Marks
<1> QED BY <1>1, <1>3, <1>4, <1>5, SilentStep DEF SaysNothing

LEMMA HeadingReads ==
    ASSUME tables \in DropSources, LinesHold, OpenGroup, dropStage' # "refused"
    PROVE  LinesHold'
<1>0. /\ Loading /\ Line.head = "group" /\ Len(Line.values) = 1
      /\ nodes' = OpenedNodes(nodes, open, Line.values[1])
      /\ open' = Append(open, Len(nodes) + 1)
      /\ at' = at + 1 /\ tables' = tables
  BY DEF OpenGroup, Refuse, OpenedNodes
<1>1. /\ N \in Nat /\ at \in 1 .. N /\ ~InList[at]
      /\ Seen = at - 1 /\ at - 1 \in Nat /\ (at - 1) + 1 = at
  BY <1>0, LineIsNext
<1>2. PICK line : /\ ReadUpto(nodes, at - 1, line)
                  /\ StackHolds(open, Len(nodes), at - 1, line)
  BY <1>1 DEF LinesHold
<1> DEFINE m == at - 1 with == WithLine(nodes, m, line)
           name == Line.values[1]
<1>3. Opens(at) BY <1>0, <1>1 DEF Opens, Line
<1>4. m \in Nat /\ m + 1 = at /\ Opens(m + 1) BY <1>1, <1>3
<1>5. ReadUpto(nodes, m, line) /\ StackHolds(open, Len(nodes), m, line)  BY <1>2
<1>6. nodes' = OpenedNodes(nodes, open, name) BY <1>0
<1> HIDE DEF m, with, name
<1>7. /\ ReadUpto(nodes', m + 1, with)
      /\ StackHolds(open', Len(nodes'), m + 1, with)
  BY <1>0, <1>4, <1>5, <1>6, HeadingOpens DEF with
<1>8. ReadUpto(nodes', at, with) /\ StackHolds(open', Len(nodes'), at, with)
  BY <1>4, <1>7
<1>9. at + 1 <= N => ~InList[at + 1]
  <2>1. tables.mob[at].head # "list" BY <1>0 DEF Line
  <2> QED BY <1>1, <2>1, NoListBegins
<1>10. /\ at' \in Nat \ {0} /\ at' <= N + 2 /\ at \in Nat
       /\ at = IF at' - 1 <= N THEN at' - 1 ELSE N
  BY <1>0, <1>1
<1> QED BY <1>0, <1>8, <1>9, <1>10, LinesMove

LEMMA BraceReads ==
    ASSUME tables \in DropSources, LinesHold, CloseGroup
    PROVE  /\ dropStage' = "lines" => LinesHold'
           /\ dropStage' = "groups" => TextRead'
<1>0. /\ Loading
      /\ Shuts(at) \/ InList[at]
      /\ tables' = tables /\ nodes' = nodes
      /\ dropStage = "lines"
      /\ \/ Len(open) = 1 /\ dropStage' = "groups"
         \/ /\ Len(open) # 1 /\ open' = Front(open) /\ at' = at + 1
            /\ dropStage' = dropStage
      /\ Line.head # "list"
  <2>1. Loading /\ Line.head = "}" BY DEF CloseGroup
  <2>2. Shuts(at) \/ InList[at] BY <2>1 DEF Shuts, Line
  <2>3. Line.head # "list" BY <2>1
  <2>4. dropStage = "lines" BY <2>1 DEF Loading
  <2>5. tables' = tables /\ nodes' = nodes BY DEF CloseGroup
  <2>6. \/ Len(open) = 1 /\ dropStage' = "groups"
        \/ /\ Len(open) # 1 /\ open' = Front(open) /\ at' = at + 1
           /\ dropStage' = dropStage
    BY DEF CloseGroup, Arrives
  <2> QED BY <2>1, <2>2, <2>3, <2>4, <2>5, <2>6
<1>1. /\ N \in Nat /\ at \in 1 .. N /\ ~InList[at]
      /\ Seen = at - 1 /\ at - 1 \in Nat /\ (at - 1) + 1 = at
  BY <1>0, LineIsNext
<1>2. PICK line : /\ ReadUpto(nodes, at - 1, line)
                  /\ StackHolds(open, Len(nodes), at - 1, line)
  BY <1>1 DEF LinesHold
<1> DEFINE m == at - 1
<1>3. m \in Nat /\ m + 1 = at /\ Shuts(m + 1) /\ m < N BY <1>0, <1>1
<1>4. ReadUpto(nodes, m, line) /\ StackHolds(open, Len(nodes), m, line)  BY <1>2
<1> HIDE DEF m
<1>5. CASE Len(open) = 1
  <2>1. dropStage' = "groups" BY <1>0, <1>5
  <2>2. Balance(1, m + 1) < 0
    <3>1. 1 \in 1 .. Len(open) /\ open[1] = 1 /\ line[1] = 0
      BY <1>4, <1>5 DEF StackHolds, ReadUpto
    <3>2. Balance(0 + 1, m) = Len(open) - 1  BY <1>4, <3>1 DEF StackHolds
    <3>3. Balance(1, m) = 0 BY <1>5, <3>2
    <3>4. /\ 1 \in Int /\ m + 1 \in Int /\ 1 <= m + 1
          /\ (m + 1) - 1 = m
      BY <1>3
    <3>5. Balance(1, m + 1) = Balance(1, m) - 1  BY <1>3, <3>4, BalanceCloses
    <3> QED BY <3>3, <3>5
  <2>3. m \in 0 .. N /\ \A i \in 1 .. m : Balance(1, i) >= 0
    BY <1>1, <1>3, <1>4 DEF StackHolds
  <2>4. LastLine = m BY <2>2, <2>3, ReadingEnds
  <2>5. LastLine' = m /\ ReadUpto(nodes', m, line)  BY <1>0, <1>4, <2>4, TextStays
  <2>6. ReadUpto(nodes', LastLine', line) BY <2>5
  <2>7. ReadUpto(nodes, LastLine, line)' BY <1>0, <2>6, TextStays
  <2> QED BY <1>3, <2>1, <2>5, <2>7 DEF TextRead
<1>6. CASE Len(open) # 1
  <2>1. /\ open' = Front(open) /\ at' = at + 1 /\ dropStage' = "lines"  BY <1>0, <1>6
  <2>2. /\ ReadUpto(nodes, m + 1, line)
        /\ StackHolds(Front(open), Len(nodes), m + 1, line)
    BY <1>3, <1>4, <1>6, BraceCloses
  <2>3. /\ ReadUpto(nodes', at, line)
        /\ StackHolds(open', Len(nodes'), at, line)
    BY <1>0, <1>3, <2>1, <2>2
  <2>4. at + 1 <= N => ~InList[at + 1]  BY <1>0, <1>1, NoListBegins DEF Line
  <2>5. /\ at' \in Nat \ {0} /\ at' <= N + 2 /\ at \in Nat
        /\ at = IF at' - 1 <= N THEN at' - 1 ELSE N
    BY <1>1, <2>1
  <2>6. LinesHold' BY <1>0, <2>1, <2>3, <2>4, <2>5, LinesMove
  <2> QED BY <2>1, <2>6
<1> QED BY <1>5, <1>6

\* A row or a list gives its values to the group that was opened last.
LEMMA GivingReads ==
    ASSUME tables \in DropSources, LinesHold, Loading,
           NEW key, Gives(at, key), \A other : Gives(at, other) => other = key,
           ~Opens(at), ~Shuts(at), NEW k \in Nat, at <= k, k <= N,
           \A l \in at + 1 .. k : SaysNothing(l),
           nodes' = WithRow(nodes, Last(open), key, ValuesAt(at)),
           at' \in Nat \ {0}, at' <= N + 2,
           k = IF at' - 1 <= N THEN at' - 1 ELSE N,
           at' <= N => ~InList[at'], UNCHANGED <<tables, open>>
    PROVE  LinesHold'
<1>1. /\ N \in Nat /\ at \in 1 .. N /\ ~InList[at]
      /\ Seen = at - 1 /\ at - 1 \in Nat /\ (at - 1) + 1 = at
  BY LineIsNext
<1>2. PICK line : /\ ReadUpto(nodes, at - 1, line)
                  /\ StackHolds(open, Len(nodes), at - 1, line)
  BY <1>1 DEF LinesHold
<1> DEFINE m == at - 1
           t == Last(open)
<1>0. at <= k /\ k \in Nat OBVIOUS
<1>3. m \in Nat /\ m + 1 = at /\ m <= k /\ m + 1 <= k  BY ONLY <1>0, <1>1
<1>4. ReadUpto(nodes, m, line) /\ StackHolds(open, Len(nodes), m, line)  BY <1>2
<1>5. \A l \in m + 1 .. k : l = at \/ l \in at + 1 .. k  BY ONLY <1>0, <1>1
<1>6. \A l \in m + 2 .. k : l \in at + 1 .. k BY ONLY <1>0, <1>1
<1>7. t \in 1 .. Len(nodes)
  <2> HIDE DEF m
  <2> QED BY ONLY <1>3, <1>4, OwnerIsTop DEF t
<1> HIDE DEF m, t
<1>8. \A l \in m + 1 .. k : ~Opens(l) /\ ~Shuts(l)  BY <1>5 DEF SaysNothing
<1>9. \A l \in m + 2 .. k : \A other : ~Gives(l, other)  BY <1>6 DEF SaysNothing
<1>10. /\ StackHolds(open, Len(nodes), k, line)
       /\ Heads(1, k) = Heads(1, m)
  BY ONLY k \in Nat, <1>3, <1>4, <1>8, StackStands
<1>11. /\ Gives(m + 1, key) /\ ValuesAt(m + 1) = ValuesAt(at)
       /\ \A other : Gives(m + 1, other) => other = key
  BY <1>3
<1>12. ReadUpto(WithRow(nodes, Last(open), key, ValuesAt(m + 1)), k, line)
  BY ONLY k \in Nat, <1>3, <1>4, <1>9, <1>10, <1>11, ReadGives
<1>13. ReadUpto(nodes', k, line) BY <1>11, <1>12
<1>14. Len(nodes') = Len(nodes)
  <2>1. Listed(nodes) /\ \A j \in DOMAIN nodes : DOMAIN nodes[j] = NodeFields
    BY <1>4 DEF ReadUpto
  <2>2. nodes' = WithRow(nodes, t, key, ValuesAt(at)) BY DEF t
  <2> QED BY <1>7, <2>1, <2>2, WithRowIs
<1>15. StackHolds(open', Len(nodes'), k, line) BY <1>10, <1>14
<1> QED BY <1>13, <1>15, LinesMove

LEMMA RowReads ==
    ASSUME tables \in DropSources, LinesHold, ReadRow, dropStage' # "refused"
    PROVE  LinesHold'
<1>0. /\ Loading /\ Line.head \notin Marks
      /\ KeepRow(Line.head, Line.values) /\ at' = at + 1
      /\ UNCHANGED <<tables, open>>
  BY DEF ReadRow, Refuse
<1>1. /\ N \in Nat /\ at \in 1 .. N /\ ~InList[at] BY <1>0, LineIsNext
<1> DEFINE key == tables.mob[at].head
<1>2. key \notin Marks BY <1>0 DEF Line
<1>3. key # "group" /\ key # "list" BY <1>2 DEF Marks
<1>4. key # "}" BY <1>2 DEF Marks
<1>5. ~Opens(at) BY <1>3 DEF Opens
<1>6. ~Shuts(at) BY <1>4 DEF Shuts
<1>7. Gives(at, key) /\ \A other : Gives(at, other) => other = key
  BY <1>1, <1>2, <1>3 DEF Gives
<1>8. ValuesAt(at) = tables.mob[at].values BY <1>3 DEF ValuesAt
<1>9. nodes' = WithRow(nodes, Last(open), key, ValuesAt(at))
  BY <1>0, <1>8 DEF KeepRow, WithRow, Line
<1>10. at + 1 <= N => ~InList[at + 1]  BY <1>1, <1>3, NoListBegins
<1>11. /\ at' \in Nat \ {0} /\ at' <= N + 2 /\ at \in Nat
       /\ at <= at /\ at <= N
       /\ at = IF at' - 1 <= N THEN at' - 1 ELSE N
       /\ \A l : l \notin at + 1 .. at
  BY <1>0, <1>1
<1> HIDE DEF key
<1> QED BY <1>0, <1>5, <1>6, <1>7, <1>9, <1>10, <1>11, GivingReads

LEMMA ListReads ==
    ASSUME tables \in DropSources, LinesHold, ReadList, Len(Line.values) = 1
    PROVE  LinesHold'
<1>0. /\ Loading /\ Line.head = "list"
      /\ KeepRow(Word(Line.values[1]), ListValues(at))
      /\ at' = ListEnd(at) + 1
      /\ UNCHANGED <<tables, open>>
  BY DEF ReadList
<1>1. /\ N \in Nat /\ at \in 1 .. N /\ ~InList[at] BY <1>0, LineIsNext
<1> DEFINE e == ListEnd(at)
           k == IF e <= N THEN e ELSE N
           key == Word(tables.mob[at].values[1])
<1>2. tables.mob[at].head = "list" /\ Len(tables.mob[at].values) = 1  BY <1>0 DEF Line
<1>3. /\ e \in at + 1 .. N + 1
      /\ \A j \in at + 1 .. e : InList[j]
      /\ e <= N => ~InList[e + 1]
  BY <1>1, <1>2, ListRuns
<1>4. ~Opens(at) BY <1>2 DEF Opens
<1>5. ~Shuts(at) BY <1>2 DEF Shuts
<1>6. Gives(at, key) /\ \A other : Gives(at, other) => other = key
  BY <1>1, <1>2 DEF Gives, Marks
<1>7. ValuesAt(at) = ListValues(at) BY <1>2 DEF ValuesAt
<1>8. nodes' = WithRow(nodes, Last(open), key, ValuesAt(at))
  BY <1>0, <1>7 DEF KeepRow, WithRow, Line
<1> HIDE DEF e, key
<1>9. at' = e + 1 BY <1>0 DEF e
<1>10. e \in Nat /\ at + 1 <= e /\ e <= N + 1 BY <1>1, <1>3
<1>11. /\ k \in Nat /\ at <= k /\ k <= N
       /\ \A l \in at + 1 .. k : l \in at + 1 .. e
  BY <1>1, <1>10
<1>12. /\ at' \in Nat \ {0} /\ at' <= N + 2
       /\ k = IF at' - 1 <= N THEN at' - 1 ELSE N
  BY <1>1, <1>9, <1>10
<1>13. at' <= N => ~InList[at']
  <2>1. at' <= N => e <= N BY <1>1, <1>9, <1>10
  <2> QED BY <1>3, <1>9, <2>1
<1>14. \A l \in at + 1 .. k : SaysNothing(l)
  <2>1. \A l : InList[l] => SaysNothing(l)  BY DEF SaysNothing, Opens, Shuts, Gives
  <2> QED BY <1>3, <1>11, <2>1
<1> HIDE DEF k
<1> QED  BY <1>0, <1>4, <1>5, <1>6, <1>8, <1>11, <1>12, <1>13, <1>14, GivingReads


LEMMA ReadingBegins ==
    ASSUME TextInv, EndCommon PROVE LinesHold'
<1> DEFINE node == [name |-> "global", parent |-> 0, rows |-> Nothing]
           ns == <<node>>
           os == <<1>>
           line == [j \in {1} |-> 0]
<1>1. /\ tables \in DropSources /\ nodes = ns /\ open = os
      /\ tables' = tables /\ nodes' = nodes /\ open' = open /\ at' = 1
  BY DEF TextInv, EndCommon, Arrives
<1>2. N \in Nat BY <1>1, TextIs
<1>3. /\ Listed(ns) /\ Len(ns) = 1 /\ DOMAIN ns = {1} /\ ns[1] = node
      /\ Listed(os) /\ Len(os) = 1 /\ os[1] = 1
  <2>1. ns \in Seq({node}) /\ os \in Seq({1}) OBVIOUS
  <2>2. Len(ns) = 1 /\ DOMAIN ns = {1} /\ ns[1] = node
          /\ Len(os) = 1 /\ os[1] = 1
    OBVIOUS
  <2> HIDE DEF ns, os, node
  <2> QED BY <2>1, <2>2 DEF Listed
<1>4. Heads(1, 0) = {}
  <2>1. \A i : i \notin 1 .. 0 OBVIOUS
  <2> QED BY <2>1 DEF Heads
<1>5. node.parent = 0 /\ DOMAIN node = NodeFields BY DEF NodeFields
<1>6. line[1] = 0 OBVIOUS
<1>7. \A j \in 1 .. 1 : j = 1 OBVIOUS
<1>8. \A j : j \notin 2 .. 1 OBVIOUS
<1> HIDE DEF node, ns, os, line
<1>9. ReadUpto(ns, 0, line)  BY <1>3, <1>4, <1>5, <1>6, <1>7, <1>8 DEF ReadUpto
<1>10. Balance(0 + 1, 0) = 0
  <2>1. 0 + 1 \in Int /\ 0 \in Int /\ 0 < 0 + 1 OBVIOUS
  <2> QED BY ONLY <2>1, BalanceStarts
<1>11. StackHolds(os, 1, 0, line)
  <2>1. \A i : i \notin 1 .. 0 OBVIOUS
  <2>2. \A d \in 1 .. 1 : Balance(line[os[d]] + 1, 0) = Len(os) - d
    <3>1. line[os[1]] = 0 BY <1>3, <1>6
    <3>2. Balance(line[os[1]] + 1, 0) = 0 BY <1>10, <3>1
    <3> QED BY <1>3, <1>7, <3>2
  <2> QED BY <1>3, <1>4, <1>7, <1>8, <2>1, <2>2 DEF StackHolds
<1>12. ~InList[1]
  <2>1. 1 \in 0 .. N + 1 BY <1>2
  <2> QED BY <1>1, <2>1, InListIs
<1>13. /\ at' \in Nat \ {0} /\ at' <= N + 2 /\ 0 \in Nat
       /\ 0 = IF at' - 1 <= N THEN at' - 1 ELSE N
       /\ at' <= N => ~InList[at']
  BY <1>1, <1>2, <1>12
<1>14. ReadUpto(nodes', 0, line) /\ StackHolds(open', Len(nodes'), 0, line)
  BY <1>1, <1>3, <1>9, <1>11
<1> QED BY <1>1, <1>13, <1>14, LinesMove

LEMMA EndReads ==
    ASSUME tables \in DropSources, LinesHold, EndLines PROVE TextRead'
<1>0. /\ at > N /\ tables' = tables /\ nodes' = nodes  BY DEF EndLines, N
<1>1. N \in Nat BY TextIs
<1>2. Seen = N BY <1>0, <1>1 DEF LinesHold, Seen
<1>3. PICK line : /\ ReadUpto(nodes, N, line)
                  /\ StackHolds(open, Len(nodes), N, line)
  BY <1>2 DEF LinesHold
<1>4. N \in 0 .. N /\ \A i \in 1 .. N : Balance(1, i) >= 0  BY <1>1, <1>3 DEF StackHolds
<1>5. LastLine = N BY <1>4, ReadingEnds
<1>6. LastLine' = N /\ ReadUpto(nodes', LastLine', line)  BY <1>0, <1>3, <1>5, TextStays
<1>7. ReadUpto(nodes, LastLine, line)' BY <1>0, <1>6, TextStays
<1> QED BY <1>1, <1>6, <1>7 DEF TextRead

LEMMA TextReadStays ==
    ASSUME TextRead, tables' = tables, nodes' = nodes PROVE TextRead'
<1>1. PICK line : ReadUpto(nodes, LastLine, line) BY DEF TextRead
<1>2. LastLine' = LastLine BY TextStays
<1>3. ReadUpto(nodes', LastLine', line) BY <1>1, <1>2
<1>4. ReadUpto(nodes, LastLine, line)' BY <1>3, TextStays
<1> QED BY <1>2, <1>4 DEF TextRead

LEMMA TextBegins == ASSUME DropsInit PROVE TextInv
  BY DEF DropsInit, DropsStart, TextInv

LEMMA TextStep == ASSUME TextInv, [DropsNext]_dropVars PROVE TextInv'
<1>0. tables \in DropSources BY DEF TextInv
<1>1. tables' = tables
  BY DEF DropsNext, dropVars, ReadItems, ReadCommonLine, EndCommon,
         SkipLine, CloseGroup, OpenGroup, ReadList, ReadRow, EndLines,
         ReadGroup, EndGroups, CompileRanks, CompileKind, BuildDrops, Refuse
<1>2. CASE UNCHANGED dropVars
  <2>1. UNCHANGED <<dropStage, at, nodes, open>> BY <1>2 DEF dropVars
  <2>2. LinesHold => LinesHold'
    <3> SUFFICES ASSUME LinesHold PROVE LinesHold' OBVIOUS
    <3>1. PICK line : /\ ReadUpto(nodes, Seen, line)
                      /\ StackHolds(open, Len(nodes), Seen, line)
      BY DEF LinesHold
    <3>2. N \in Nat BY <1>0, TextIs
    <3>3. /\ at' \in Nat \ {0} /\ at' <= N + 2 /\ Seen \in Nat
          /\ Seen = IF at' - 1 <= N THEN at' - 1 ELSE N
          /\ at' <= N => ~InList[at']
      BY <2>1, <3>2 DEF LinesHold, Seen
    <3>4. /\ ReadUpto(nodes', Seen, line)
          /\ StackHolds(open', Len(nodes'), Seen, line)
      BY <2>1, <3>1
    <3> QED BY <1>0, <1>1, <3>3, <3>4, LinesMove
  <2>3. TextRead => TextRead' BY <1>1, <2>1, TextReadStays
  <2> QED BY <1>0, <1>1, <2>1, <2>2, <2>3 DEF TextInv
<1>3. CASE dropStage \in {"items", "common"} /\ dropStage' = "common"
             /\ UNCHANGED <<nodes, open>>
  BY <1>0, <1>1, <1>3 DEF TextInv
<1>4. CASE dropStage' \in {"kinds", "installed", "refused"}
  BY <1>0, <1>1, <1>4 DEF TextInv
<1>5. CASE dropStage \in {"groups", "ranks"} /\ nodes' = nodes
             /\ dropStage' \in {"groups", "ranks"}
  <2>1. TextRead' BY <1>1, <1>5, TextReadStays DEF TextInv
  <2> QED BY <1>0, <1>1, <1>5, <2>1 DEF TextInv
<1>6. CASE ReadItems BY <1>3, <1>4, <1>6 DEF ReadItems, Refuse, Arrives
<1>7. CASE ReadCommonLine  BY <1>3, <1>4, <1>7 DEF ReadCommonLine, Refuse
<1>8. CASE EndCommon
  <2>1. dropStage' = "lines" BY <1>8 DEF EndCommon, Arrives
  <2>2. LinesHold' BY <1>8, ReadingBegins
  <2> QED BY <1>0, <1>1, <2>1, <2>2 DEF TextInv
<1>9. CASE dropStage = "lines" /\ dropStage' \in {"lines", "groups"}
             /\ (SkipLine \/ CloseGroup \/ OpenGroup \/ ReadList \/ ReadRow
                   \/ EndLines)
  <2>1. LinesHold BY <1>9 DEF TextInv
  <2>2. CASE EndLines
    <3>1. dropStage' = "groups" BY <2>2 DEF EndLines, Arrives
    <3>2. TextRead' BY <1>0, <2>1, <2>2, EndReads
    <3> QED BY <1>0, <1>1, <3>1, <3>2 DEF TextInv
  <2>3. CASE CloseGroup
    <3>1. /\ dropStage' = "lines" => LinesHold'
          /\ dropStage' = "groups" => TextRead'
      BY <1>0, <2>1, <2>3, BraceReads
    <3> QED BY <1>0, <1>1, <1>9, <3>1 DEF TextInv
  <2>4. CASE SkipLine \/ OpenGroup \/ ReadList \/ ReadRow
    <3>1. dropStage' # "refused" BY <1>9
    <3>2. LinesHold'  BY <1>0, <2>1, <2>4, <3>1, SkipReads, HeadingReads, UnnamedReads,
         ListReads, RowReads
    <3>3. dropStage' = "lines"
      BY <1>9, <2>4, <3>1 DEF SkipLine, OpenGroup, ReadList, ReadRow, Refuse
    <3> QED BY <1>0, <1>1, <3>2, <3>3 DEF TextInv
  <2> QED BY <1>9, <2>2, <2>3, <2>4
<1>10. CASE SkipLine \/ CloseGroup \/ OpenGroup \/ ReadList \/ ReadRow
              \/ EndLines
  <2>1. dropStage = "lines"
    BY <1>10 DEF SkipLine, CloseGroup, OpenGroup, ReadList, ReadRow,
                 EndLines, Loading
  <2>2. dropStage' \in {"lines", "groups", "refused"}
    BY <1>10, <2>1 DEF SkipLine, CloseGroup, OpenGroup, ReadList, ReadRow,
                       EndLines, Arrives, Refuse
  <2> QED BY <1>4, <1>9, <1>10, <2>1, <2>2
<1>11. CASE ReadGroup  BY <1>4, <1>5, <1>11 DEF ReadGroup, Refuse
<1>12. CASE EndGroups BY <1>5, <1>12 DEF EndGroups, Arrives
<1>13. CASE CompileRanks BY <1>4, <1>13 DEF CompileRanks, Arrives, Refuse
<1>14. CASE CompileKind BY <1>4, <1>14 DEF CompileKind, Refuse
<1>15. CASE BuildDrops BY <1>4, <1>15 DEF BuildDrops, Arrives, Refuse
<1> QED  BY <1>2, <1>6, <1>7, <1>8, <1>10, <1>11, <1>12, <1>13, <1>14, <1>15
  DEF DropsNext


-----------------------------------------------------------------------------
(* The groups, and the rows of a monster in the text.                        *)

\* The lists up to one of them, joined.
Joined(lists, i) ==
    IF i = 0 THEN <<>>
    ELSE (CHOOSE f : f = [k \in 1 .. Len(lists) |->
                            IF k = 1 THEN lists[k]
                            ELSE f[k - 1] \o lists[k]])[i]

\* The rows of some groups, one group after the other.
RowLists(G) ==
    [i \in 1 .. LastLine |-> IF i \in G THEN TableRows(i) ELSE <<>>]

LEMMA TableRowsAre ==
    ASSUME NEW h
    PROVE  /\ Listed(TableRows(h))
           /\ \E gap \in 1 .. RowKeyLimit + 1 :
                /\ gap = RowKeyLimit + 1 \/ ValuesOf(h, RowKey(gap)) = <<>>
                /\ \A k \in 1 .. gap - 1 : ValuesOf(h, RowKey(k)) # <<>>
                /\ TableRows(h) = [k \in 1 .. gap - 1 |-> ValuesOf(h, RowKey(k))]
<1> DEFINE T == {k \in 1 .. RowKeyLimit + 1 :
                   k > RowKeyLimit \/ ValuesOf(h, RowKey(k)) = <<>>}
           gap == Min(T)
           rows == [k \in 1 .. gap - 1 |-> ValuesOf(h, RowKey(k))]
<1>1. T \in SUBSET Nat /\ RowKeyLimit + 1 \in T OBVIOUS
<1>2. gap \in T /\ \A k \in T : gap <= k
  <2> HIDE DEF T
  <2> QED BY <1>1, MinIsLeast
<1>3. /\ gap \in 1 .. RowKeyLimit + 1
      /\ gap = RowKeyLimit + 1 \/ ValuesOf(h, RowKey(gap)) = <<>>
  <2> HIDE DEF gap
  <2> QED BY <1>2
<1>4. ASSUME NEW k \in 1 .. gap - 1 PROVE ValuesOf(h, RowKey(k)) # <<>>
  <2> HIDE DEF gap
  <2>1. k \in 1 .. RowKeyLimit + 1 /\ ~(gap <= k) BY <1>3
  <2>2. k \notin T BY <1>2, <2>1
  <2> QED BY <2>1, <2>2
<1>5. TableRows(h) = rows BY DEF TableRows
<1> HIDE DEF gap, T
<1>6. Listed(rows)
  <2>1. gap - 1 \in Nat BY <1>3
  <2>2. DOMAIN rows = 1 .. gap - 1 /\ rows = [k \in 1 .. gap - 1 |-> rows[k]]
    OBVIOUS
  <2> DEFINE n == gap - 1
  <2> HIDE DEF rows, n
  <2>3. n \in Nat /\ DOMAIN rows = 1 .. n /\ rows = [k \in 1 .. n |-> rows[k]]
    BY <2>1, <2>2 DEF n
  <2> QED BY ONLY <2>3, CountedIsListed
<1> QED BY <1>3, <1>4, <1>5, <1>6

LEMMA JoinedIs ==
    ASSUME NEW lists, Listed(lists), \A i \in DOMAIN lists : Listed(lists[i])
    PROVE  /\ Joined(lists, 0) = <<>>
           /\ \A i \in 0 .. Len(lists) : Listed(Joined(lists, i))
           /\ \A i \in 1 .. Len(lists) :
                Joined(lists, i) = Joined(lists, i - 1) \o lists[i]
           /\ FlattenSeq(lists) = Joined(lists, Len(lists))
<1> DEFINE n == Len(lists)
           U == UNION {Range(lists[i]) : i \in 1 .. n}
           F == [i \in 0 .. n |-> Seq(U)]
           D == [i \in 1 .. n |-> [v \in Seq(U) |-> v \o lists[i]]]
           Is(f) == f = [i \in 1 .. n |-> IF i = 1 THEN lists[i]
                                          ELSE f[i - 1] \o lists[i]]
<1>0. n \in Nat /\ DOMAIN lists = 1 .. n /\ (lists = <<>> <=> n = 0)  BY ListedHas
<1>1. \A i \in 1 .. n : lists[i] \in Seq(U)
  <2> TAKE i \in 1 .. n
  <2> DEFINE s == lists[i]
  <2>1. Listed(s) BY <1>0
  <2>2. Range(s) \subseteq U OBVIOUS
  <2> HIDE DEF s, U
  <2>3. s \in Seq(Range(s)) BY <2>1, ListedHas
  <2>4. s \in Seq(U) BY <2>2, <2>3
  <2> QED BY <2>4 DEF s
<1>2. <<>> \in Seq(U) /\ \A i \in 0 .. n : F[i] = Seq(U) OBVIOUS
<1>3. \A i \in 1 .. n : \A v \in Seq(U) :
        D[i][v] = v \o lists[i] /\ D[i][v] \in Seq(U)
  <2> TAKE i \in 1 .. n
  <2> TAKE v \in Seq(U)
  <2>1. D[i][v] = v \o lists[i] OBVIOUS
  <2>2. lists[i] \in Seq(U) BY <1>1
  <2> HIDE DEF U, D
  <2>3. v \o lists[i] \in Seq(U) BY <2>2
  <2> QED BY <2>1, <2>3
<1>4. \A i \in 1 .. n : <<>> \o lists[i] = lists[i]
  <2> TAKE i \in 1 .. n
  <2> DEFINE s == lists[i]
  <2>1. s \in Seq(U) BY <1>1
  <2> HIDE DEF s, U
  <2>2. <<>> \o s = s BY <2>1
  <2> QED BY <2>2 DEF s
<1> HIDE DEF U, D, F, n
<1>5. LeftFolds(n, F, <<>>, D)
  <2>1. \A i \in 1 .. n : \A v \in F[i - 1] : D[i][v] \in F[i]
    <3>1. \A i \in 1 .. n : i - 1 \in 0 .. n /\ i \in 0 .. n BY <1>0
    <3> QED BY <1>2, <1>3, <3>1
  <2>2. n \in Nat /\ 0 \in 0 .. n BY <1>0
  <2>3. <<>> \in F[0] BY <1>2, <2>2
  <2> QED BY <2>1, <2>2, <2>3, LeftFoldExists
<1>6. PICK g : /\ g = [i \in 0 .. n |-> IF i = 0 THEN <<>> ELSE D[i][g[i - 1]]]
               /\ \A i \in 0 .. n : g[i] \in F[i]
  BY <1>5 DEF LeftFolds
<1>7. g[0] = <<>> BY <1>0, <1>6
<1>8. ASSUME NEW i \in 1 .. n PROVE g[i] = g[i - 1] \o lists[i]
  <2>1. i \in 0 .. n /\ i - 1 \in 0 .. n /\ i # 0 BY <1>0
  <2>2. g[i - 1] \in Seq(U) BY <1>2, <1>6, <2>1
  <2>3. g[i] = D[i][g[i - 1]] BY <1>6, <2>1
  <2> QED BY <1>3, <2>2, <2>3
<1>9. \A i \in 0 .. n : Listed(g[i]) BY <1>2, <1>6 DEF Listed
<1> DEFINE h == [i \in 1 .. n |-> g[i]]
           r == CHOOSE f : Is(f)
<1>10. Is(h)
  <2>1. ASSUME NEW i \in 1 .. n
        PROVE  h[i] = IF i = 1 THEN lists[i] ELSE h[i - 1] \o lists[i]
    <3>1. h[i] = g[i - 1] \o lists[i] BY <1>8
    <3>2. CASE i = 1
      <4>1. g[i - 1] = <<>> BY <1>7, <3>2
      <4> QED BY <1>4, <3>1, <3>2, <4>1
    <3>3. CASE i # 1
      <4>1. i - 1 \in 1 .. n BY <1>0, <3>3
      <4>2. h[i - 1] = g[i - 1] BY <4>1
      <4> QED BY <3>1, <3>3, <4>2
    <3> QED BY <3>2, <3>3
  <2>2. h = [i \in 1 .. n |-> h[i]] OBVIOUS
  <2> HIDE DEF h
  <2> QED BY <2>1, <2>2
<1>11. Is(r)
  <2> HIDE DEF Is
  <2> QED BY <1>10
<1> HIDE DEF r
<1>12. \A i \in 1 .. n :
         r[i] = IF i = 1 THEN lists[i] ELSE r[i - 1] \o lists[i]
  BY <1>11
<1> DEFINE S == {k \in Nat : 1 <= k /\ k <= n => r[k] = g[k]}
<1>13. 0 \in S OBVIOUS
<1>14. \A k \in Nat : k \in S => k + 1 \in S
  <2> SUFFICES ASSUME NEW k \in Nat, k \in S, k + 1 <= n
               PROVE  r[k + 1] = g[k + 1]
    OBVIOUS
  <2>1. k + 1 \in 1 .. n /\ (k + 1) - 1 = k BY <1>0
  <2>2. g[k + 1] = g[k] \o lists[k + 1] BY <1>8, <2>1
  <2>3. CASE k = 0
    <3>1. r[k + 1] = lists[k + 1] BY <1>12, <2>1, <2>3
    <3>2. g[k + 1] = <<>> \o lists[k + 1] BY <1>7, <2>2, <2>3
    <3> QED BY <1>4, <2>1, <3>1, <3>2
  <2>4. CASE k # 0
    <3>1. k + 1 # 1 /\ 1 <= k /\ k <= n BY <1>0, <2>4
    <3>2. r[k + 1] = r[k] \o lists[k + 1] BY <1>12, <2>1, <3>1
    <3>3. r[k] = g[k] BY <3>1
    <3> QED BY <2>2, <3>2, <3>3
  <2> QED BY <2>3, <2>4
<1>15. \A k \in Nat : k \in S
  <2> HIDE DEF S
  <2> QED BY ONLY <1>13, <1>14, SetInduction
<1>16. \A k \in 1 .. n : r[k] = g[k]
  <2>1. \A k \in 1 .. n : k \in Nat /\ 1 <= k /\ k <= n BY <1>0
  <2> QED BY <1>15, <2>1
<1>17. \A i : Joined(lists, i) = IF i = 0 THEN <<>> ELSE r[i]  BY DEF Joined, r, n
<1>18. \A i \in 0 .. n : Joined(lists, i) = g[i]
  <2>1. \A i \in 0 .. n : i = 0 \/ (i # 0 /\ i \in 1 .. n) BY <1>0
  <2> QED BY <1>7, <1>16, <1>17, <2>1
<1>19. FlattenSeq(lists) = Joined(lists, n)
  <2>1. CASE n = 0
    <3>1. FlattenSeq(lists) = lists BY <2>1 DEF FlattenSeq, n
    <3> QED BY <1>0, <1>17, <2>1, <3>1
  <2>2. CASE n # 0
    <3>1. FlattenSeq(lists) = r[n] BY <2>2 DEF FlattenSeq, n, r
    <3> QED BY <1>17, <2>2, <3>1
  <2> QED BY <2>1, <2>2
<1>20. \A i \in 1 .. n : i \in 0 .. n /\ i - 1 \in 0 .. n BY <1>0
<1>21. 0 \in 0 .. n BY <1>0
<1> QED BY <1>7, <1>8, <1>9, <1>18, <1>19, <1>20, <1>21 DEF n

LEMMA RowListsAre ==
    ASSUME LastLine \in Nat, NEW G
    PROVE  LET lists == RowLists(G)
           IN /\ Listed(lists) /\ Len(lists) = LastLine
              /\ DOMAIN lists = 1 .. LastLine
              /\ \A i \in 1 .. LastLine :
                   lists[i] = (IF i \in G THEN TableRows(i) ELSE <<>>)
              /\ \A i \in DOMAIN lists : Listed(lists[i])
<1> DEFINE lists == RowLists(G) n == LastLine
<1>1. /\ DOMAIN lists = 1 .. n /\ lists = [i \in 1 .. n |-> lists[i]]
      /\ \A i \in 1 .. n :
           lists[i] = (IF i \in G THEN TableRows(i) ELSE <<>>)
  BY DEF RowLists
<1>2. \A i \in 1 .. n : Listed(lists[i])  BY <1>1, TableRowsAre, NothingIsListed
<1>3. n \in Nat OBVIOUS
<1> HIDE DEF lists, n
<1>4. Listed(lists) /\ Len(lists) = n BY <1>1, <1>3, CountedIsListed
<1> QED BY <1>1, <1>2, <1>4 DEF lists, n

\* Lines that are none of the lists have no rows.
LEMMA RowsStand ==
    ASSUME NEW lists, Listed(lists), \A i \in DOMAIN lists : Listed(lists[i]),
           NEW a \in 0 .. Len(lists), NEW b \in 0 .. Len(lists), a <= b,
           \A i \in a + 1 .. b : lists[i] = <<>>
    PROVE  Joined(lists, b) = Joined(lists, a)
<1> DEFINE n == Len(lists)
           S == {k \in Nat : a <= k /\ k <= b =>
                               Joined(lists, k) = Joined(lists, a)}
<1>0. n \in Nat BY ListedHas
<1>1. /\ \A i \in 0 .. n : Listed(Joined(lists, i))
      /\ \A i \in 1 .. n : Joined(lists, i) = Joined(lists, i - 1) \o lists[i]
  BY JoinedIs
<1>5. a \in Nat /\ b \in Nat /\ b <= n BY <1>0
<1> HIDE DEF n
<1>2. 0 \in S
  <2>1. a <= 0 => a = 0 BY <1>5
  <2> QED BY <2>1
<1>3. \A k \in Nat : k \in S => k + 1 \in S
  <2> SUFFICES ASSUME NEW k \in Nat, k \in S, a <= k + 1, k + 1 <= b
               PROVE  Joined(lists, k + 1) = Joined(lists, a)
    OBVIOUS
  <2>1. CASE a = k + 1 BY <2>1
  <2>2. CASE a # k + 1
    <3>1. /\ a <= k /\ k <= b /\ k + 1 \in a + 1 .. b
          /\ k + 1 \in 1 .. n /\ (k + 1) - 1 = k /\ k \in 0 .. n
      BY <1>0, <1>5, <2>2
    <3>2. Joined(lists, k) = Joined(lists, a) BY <3>1
    <3>3. Joined(lists, k + 1) = Joined(lists, k) \o <<>> BY <1>1, <3>1
    <3>4. Joined(lists, k) \o <<>> = Joined(lists, k)
      <4>1. PICK T : Joined(lists, k) \in Seq(T) BY <1>1, <3>1 DEF Listed
      <4> QED BY <4>1
    <3> QED BY <3>2, <3>3, <3>4
  <2> QED BY <2>1, <2>2
<1>4. \A k \in Nat : k \in S
  <2> HIDE DEF S
  <2> QED BY ONLY <1>2, <1>3, SetInduction
<1>6. b \in S BY <1>4, <1>5
<1> QED BY <1>5, <1>6

-----------------------------------------------------------------------------
(* What a group that was read says.                                          *)

LEMMA NodeSays ==
    ASSUME NEW ns, NEW line, LastLine \in Nat, ReadUpto(ns, LastLine, line),
           NEW j \in 2 .. Len(ns), NEW key
    PROVE  ValuesOf(line[j], key) =
             IF key \in DOMAIN ns[j].rows THEN ns[j].rows[key] ELSE <<>>
<1> DEFINE h == line[j]
<1>1. NodeHolds(ns, j, LastLine, line) BY DEF ReadUpto
<1>2. /\ key \in DOMAIN ns[j].rows <=> Told(h, key, LastLine) # {}
      /\ key \in DOMAIN ns[j].rows =>
           ns[j].rows[key] = ValuesAt(Min(Told(h, key, LastLine)))
  BY <1>1 DEF NodeHolds
<1>3. ValuesOf(h, key) = IF Told(h, key, LastLine) = {} THEN <<>>
                         ELSE ValuesAt(Min(Told(h, key, LastLine)))
  BY DEF ValuesOf, Told
<1> QED BY <1>2, <1>3

\* A sound group is one of the text, with the sort and the monster it has.
LEMMA GroupSays ==
    ASSUME NEW ns, NEW line, LastLine \in Nat, ReadUpto(ns, LastLine, line),
           NEW j \in 2 .. Len(ns), OwnerOf(line[j]) = 0, GroupIsSound(ns[j]),
           NEW sort
    PROVE  /\ IsGroup(line[j], sort)
                <=> KindOf(ns[j]) = sort /\ ~SkippedGroup(ns[j])
           /\ MobOf(line[j]) = Number(Field(ns[j], "mob"))
           /\ Asks(KindOf(ns[j]), NewGroup(ns[j]), line[j])
<1> DEFINE node == ns[j] h == line[j]
<1>1. \A key : ValuesOf(h, key) = IF key \in DOMAIN node.rows
                                  THEN node.rows[key] ELSE <<>>
  BY NodeSays
<1> HIDE DEF node, h
<1>2. ASSUME NEW key, Field(node, key) # NoToken
      PROVE  ValuesOf(h, key)[1] = Field(node, key)
  BY <1>1, <1>2 DEF Field
<1>3. Field(node, "type") # NoToken
  <2>1. Word(NoToken) = "none"
    <3>1. Len(NoToken) = 1 /\ NoToken[1] = "none" BY DEF NoToken
    <3> QED BY <3>1 DEF Word
  <2>2. Word(NoToken) \notin Range(Kinds) BY <2>1, KindsAre
  <2>3. KindOf(node) \in Range(Kinds) BY DEF GroupIsSound, node
  <2> QED BY <2>2, <2>3 DEF KindOf
<1>4. Field(node, "mob") # NoToken BY DEF GroupIsSound, node
<1>5. KindOf(node) = "kill" => Field(node, "kill_drop") # NoToken
  BY DEF GroupIsSound, node
<1>6. Word(ValuesOf(h, "type")[1]) = KindOf(node) BY <1>2, <1>3 DEF KindOf
<1>7. ValuesOf(h, "mob")[1] = Field(node, "mob") BY <1>2, <1>4
<1>8. KindOf(node) = "kill" =>
        ValuesOf(h, "kill_drop")[1] = Field(node, "kill_drop")
  BY <1>2, <1>5
<1>9. OwnerOf(h) = 0 BY DEF h
<1>10. IsGroup(h, sort) <=> KindOf(node) = sort /\ ~SkippedGroup(node)
  BY <1>6, <1>8, <1>9 DEF IsGroup, SkippedGroup
<1>11. MobOf(h) = Number(Field(node, "mob")) BY <1>7 DEF MobOf
<1>12. KindOf(node) = "limit" =>
         ValuesOf(h, "level_limit")[1] = Field(node, "level_limit")
  <2>1. KindOf(node) = "limit" => Field(node, "level_limit") # NoToken
    BY DEF GroupIsSound, node
  <2> QED BY <1>2, <2>1
<1>13. Asks(KindOf(node), NewGroup(node), h)  BY <1>8, <1>12 DEF Asks, NewGroup
<1> QED BY <1>10, <1>11, <1>13 DEF node, h

\* Its rows are those of the text.
LEMMA RowsAreSaid ==
    ASSUME NEW ns, NEW line, LastLine \in Nat, ReadUpto(ns, LastLine, line),
           NEW j \in 2 .. Len(ns),
           \A k \in 1 .. FirstGap(ns[j]) - 1 : RowOf(ns[j], k) # <<>>
    PROVE  TableRows(line[j])
             = [k \in 1 .. FirstGap(ns[j]) - 1 |-> RowOf(ns[j], k)]
<1> DEFINE node == ns[j] h == line[j] first == FirstGap(node)
<1>1. \A key : ValuesOf(h, key) = IF key \in DOMAIN node.rows
                                  THEN node.rows[key] ELSE <<>>
  BY NodeSays
<1>2. PICK gap \in 1 .. RowKeyLimit + 1 :
        /\ gap = RowKeyLimit + 1 \/ ValuesOf(h, RowKey(gap)) = <<>>
        /\ \A k \in 1 .. gap - 1 : ValuesOf(h, RowKey(k)) # <<>>
        /\ TableRows(h) = [k \in 1 .. gap - 1 |-> ValuesOf(h, RowKey(k))]
  BY TableRowsAre
<1>3. /\ first \in 1 .. RowKeyLimit + 1
      /\ first = RowKeyLimit + 1 \/ RowKey(first) \notin DOMAIN node.rows
      /\ \A k \in 1 .. first - 1 : RowKey(k) \in DOMAIN node.rows
  BY GapIsThere
<1>4. \A k \in 1 .. first - 1 : node.rows[RowKey(k)] # <<>>  BY DEF RowOf
<1> HIDE DEF node, h, first
<1>5. \A k \in 1 .. first - 1 :
        /\ ValuesOf(h, RowKey(k)) = node.rows[RowKey(k)]
        /\ ValuesOf(h, RowKey(k)) # <<>>
  BY <1>1, <1>3, <1>4
<1>6. ~(gap < first)
  <2> SUFFICES ASSUME gap < first PROVE FALSE OBVIOUS
  <2>1. gap \in 1 .. first - 1 /\ gap # RowKeyLimit + 1 BY <1>3
  <2> QED BY <1>2, <1>5, <2>1
<1>7. ~(first < gap)
  <2> SUFFICES ASSUME first < gap PROVE FALSE OBVIOUS
  <2>1. first \in 1 .. gap - 1 /\ first # RowKeyLimit + 1 BY <1>3
  <2>2. ValuesOf(h, RowKey(first)) = <<>> BY <1>1, <1>3, <2>1
  <2> QED BY <1>2, <2>1, <2>2
<1>8. gap = first BY <1>3, <1>6, <1>7
<1>9. TableRows(h) = [k \in 1 .. first - 1 |-> RowOf(node, k)]
  BY <1>2, <1>5, <1>8 DEF RowOf
<1> QED BY <1>9 DEF node, h, first


ChildrenOf(ns) == {n \in DOMAIN ns : ns[n].parent = 1}
Made(sort, items) == [i \in DOMAIN items |-> ItemSays(sort, items[i])]
Meant(sort, protos, rows) ==
    [i \in DOMAIN rows |-> RowSays(sort, protos, rows[i])]

\* The groups right below the global one are those of the text that are in no
\* group.
LEMMA ChildrenAre ==
    ASSUME NEW ns, NEW line, LastLine \in Nat, ReadUpto(ns, LastLine, line)
    PROVE  LET C == ChildrenOf(ns)
           IN /\ C \in SUBSET (2 .. Len(ns)) /\ C \in SUBSET DOMAIN ns
              /\ \A j \in C : /\ line[j] \in Heads(1, LastLine)
                              /\ OwnerOf(line[j]) = 0
              /\ \A h \in Heads(1, LastLine) :
                   OwnerOf(h) = 0 => \E j \in C : line[j] = h
<1> DEFINE C == ChildrenOf(ns)
<1>1. /\ Len(ns) \in Nat \ {0} /\ DOMAIN ns = 1 .. Len(ns)
      /\ \A i, j \in 1 .. Len(ns) : line[i] = line[j] => i = j
  BY LineOf
<1>2. C \in SUBSET DOMAIN ns BY DEF ChildrenOf
<1>3. C \in SUBSET (2 .. Len(ns))
  <2> SUFFICES ASSUME NEW j \in C PROVE j \in 2 .. Len(ns) OBVIOUS
  <2>1. ns[j].parent = 1 /\ j \in 1 .. Len(ns) BY <1>1 DEF ChildrenOf
  <2>2. ns[1].parent = 0 BY DEF ReadUpto
  <2>3. j # 1 BY <2>1, <2>2
  <2> QED BY <1>1, <2>1, <2>3
<1>4. line[1] = 0 BY DEF ReadUpto
<1>5. ASSUME NEW j \in 2 .. Len(ns)
      PROVE  /\ line[j] \in Heads(1, LastLine)
             /\ OwnerOf(line[j]) = 0 <=> j \in C
  <2>1. line[j] \in Heads(1, LastLine) /\ NodeHolds(ns, j, LastLine, line)
    BY DEF ReadUpto
  <2> DEFINE p == ns[j].parent
  <2>2. p \in 1 .. j - 1 /\ line[p] = OwnerOf(line[j])  BY <2>1 DEF NodeHolds
  <2> HIDE DEF p
  <2>3. p \in 1 .. Len(ns) /\ 1 \in 1 .. Len(ns) /\ j \in 1 .. Len(ns)  BY <1>1, <2>2
  <2>4. line[p] = 0 <=> p = 1 BY <1>1, <1>4, <2>3
  <2>5. j \in C <=> p = 1 BY <1>1, <2>3 DEF ChildrenOf, p
  <2> QED BY <2>1, <2>2, <2>4, <2>5
<1> HIDE DEF C
<1>6. \A h \in Heads(1, LastLine) : OwnerOf(h) = 0 => \E j \in C : line[j] = h
  <2> SUFFICES ASSUME NEW h \in Heads(1, LastLine), OwnerOf(h) = 0
               PROVE  \E j \in C : line[j] = h
    OBVIOUS
  <2>1. PICK j \in 2 .. Len(ns) : line[j] = h BY DEF ReadUpto
  <2> QED BY <1>5, <2>1
<1>7. \A j \in C : line[j] \in Heads(1, LastLine) /\ OwnerOf(line[j]) = 0  BY <1>3, <1>5
<1> QED BY <1>2, <1>3, <1>6, <1>7 DEF C

\* The line of the last group that was read.
Reached(ns, i, line) ==
    IF i = 1 THEN 0 ELSE line[Nth(ChildrenOf(ns), i - 1)]

\* The groups of the corpus are those of the text up to a line.
MobsUpto(sort, b) == {MobOf(h) : h \in {g \in Heads(1, b) : IsGroup(g, sort)}}
RowsUpto(sort, mob, b) == Joined(RowLists(TableGroups(sort, mob)), b)
GroupsAreRead(groups, protos, b) ==
    \A sort \in Range(Kinds) :
      /\ DOMAIN groups[sort] = MobsUpto(sort, b)
      /\ \A mob \in DOMAIN groups[sort] :
           /\ Made(sort, groups[sort][mob].items)
                = Meant(sort, protos, RowsUpto(sort, mob, b))
           /\ \A h \in TableGroups(sort, mob) :
                h <= b => Asks(sort, groups[sort][mob], h)

\* Between two groups that are read one after the other there is none.
LEMMA ReachedIs ==
    ASSUME NEW ns, NEW line, LastLine \in Nat, ReadUpto(ns, LastLine, line),
           NEW i \in 1 .. Cardinality(ChildrenOf(ns)) + 1
    PROVE  LET C == ChildrenOf(ns)
               b == Reached(ns, i, line)
               h == Reached(ns, i + 1, line)
           IN /\ Cardinality(C) \in Nat
              /\ b \in 0 .. LastLine
              /\ i <= Cardinality(C) =>
                   /\ Nth(C, i) \in C /\ h = line[Nth(C, i)]
                   /\ h \in 1 .. LastLine /\ b < h
                   /\ \A l \in Heads(1, LastLine) :
                        OwnerOf(l) = 0 => l <= b \/ l >= h
              /\ i > Cardinality(C) =>
                   \A l \in Heads(1, LastLine) : OwnerOf(l) = 0 => l <= b
<1> DEFINE C == ChildrenOf(ns)
           n == Cardinality(C)
           b == Reached(ns, i, line)
           h == Reached(ns, i + 1, line)
<1>1. /\ C \in SUBSET (2 .. Len(ns)) /\ C \in SUBSET DOMAIN ns
      /\ \A j \in C : line[j] \in Heads(1, LastLine)
      /\ \A l \in Heads(1, LastLine) :
           OwnerOf(l) = 0 => \E j \in C : line[j] = l
  BY ChildrenAre
<1>2. Len(ns) \in Nat /\ DOMAIN ns = 1 .. Len(ns)  BY LineOf
<1> HIDE DEF C
<1>3. C \in SUBSET Nat /\ IsFiniteSet(C)
  <2>1. C \subseteq 1 .. Len(ns) BY <1>1, <1>2
  <2>2. \A k \in Nat : IsFiniteSet(1 .. k) BY FS_Interval
  <2>3. IsFiniteSet(1 .. Len(ns)) BY <1>2, <2>2
  <2>4. IsFiniteSet(C) BY ONLY <2>1, <2>3, FS_Subset
  <2> QED BY <1>1, <1>2, <2>4
<1>4. /\ n \in Nat /\ \A k \in 1 .. n : Nth(C, k) \in C
      /\ \A p \in C : \E k \in 1 .. n : Nth(C, k) = p
      /\ \A k, j \in 1 .. n : k < j => Nth(C, k) < Nth(C, j)
  BY <1>3, NthInOrder
<1> HIDE DEF n
<1>5. ASSUME NEW k \in 1 .. n, NEW j \in 1 .. n, k < j
      PROVE  line[Nth(C, k)] < line[Nth(C, j)]
  <2>1. Nth(C, k) \in 1 .. Len(ns) /\ Nth(C, j) \in 1 .. Len(ns)  BY <1>1, <1>2, <1>4
  <2>2. Nth(C, k) < Nth(C, j) BY <1>4, <1>5
  <2> QED BY <2>1, <2>2 DEF ReadUpto
<1>6. ASSUME NEW k \in 1 .. n PROVE line[Nth(C, k)] \in 1 .. LastLine
  <2>1. 1 \in Int /\ LastLine \in Int OBVIOUS
  <2>2. Heads(1, LastLine) \subseteq 1 .. LastLine  BY ONLY <2>1, SpansAreFinite
  <2> QED BY <1>1, <1>4, <2>2
<1>7. \A l \in Heads(1, LastLine) :
        OwnerOf(l) = 0 => \E k \in 1 .. n : line[Nth(C, k)] = l
  BY <1>1, <1>4
<1>8. i \in Nat /\ i >= 1 /\ i <= n + 1 /\ (i + 1) - 1 = i /\ i + 1 # 1
  BY <1>4 DEF n, C
<1>9. /\ i = 1 => b = 0
      /\ i # 1 => i - 1 \in 1 .. n /\ b = line[Nth(C, i - 1)]
      /\ h = line[Nth(C, i)]
  BY <1>4, <1>8 DEF Reached, C
<1> HIDE DEF b, h
<1>10. b \in 0 .. LastLine
  <2>1. CASE i = 1 BY <1>9, <2>1
  <2>2. CASE i # 1
    <3>1. b \in 1 .. LastLine BY <1>6, <1>9, <2>2
    <3> QED BY <3>1
  <2> QED BY <2>1, <2>2
<1>11. ASSUME NEW k \in 1 .. n, k < i PROVE line[Nth(C, k)] <= b
  <2>1. i # 1 /\ i - 1 \in 1 .. n /\ b = line[Nth(C, i - 1)]  BY <1>8, <1>9, <1>11
  <2>2. k = i - 1 \/ k < i - 1 BY <1>8, <1>11
  <2>3. k < i - 1 => line[Nth(C, k)] < b BY <1>5, <2>1
  <2>4. line[Nth(C, k)] \in Nat /\ b \in Nat BY <1>6, <1>10
  <2> QED BY <2>1, <2>2, <2>3, <2>4
<1>12. ASSUME i <= n
       PROVE  /\ Nth(C, i) \in C /\ h = line[Nth(C, i)]
              /\ h \in 1 .. LastLine /\ b < h
              /\ \A l \in Heads(1, LastLine) :
                   OwnerOf(l) = 0 => l <= b \/ l >= h
  <2>1. i \in 1 .. n BY <1>8, <1>12
  <2>2. Nth(C, i) \in C /\ h = line[Nth(C, i)] /\ h \in 1 .. LastLine
    BY <1>4, <1>6, <1>9, <2>1
  <2>3. b < h
    <3>1. CASE i = 1 BY <1>9, <2>2, <3>1
    <3>2. CASE i # 1
      <4>1. i - 1 \in 1 .. n /\ i - 1 < i BY <1>8, <1>9, <3>2
      <4> QED BY <1>5, <1>9, <2>1, <2>2, <3>2, <4>1
    <3> QED BY <3>1, <3>2
  <2>4. ASSUME NEW l \in Heads(1, LastLine), OwnerOf(l) = 0
        PROVE  l <= b \/ l >= h
    <3>1. PICK k \in 1 .. n : line[Nth(C, k)] = l BY <1>7, <2>4
    <3>2. k < i => l <= b BY <1>11, <3>1
    <3>3. k = i => l = h BY <2>2, <3>1
    <3>4. k > i => h < l BY <1>5, <2>1, <2>2, <3>1
    <3>5. k < i \/ k = i \/ k > i BY <1>8
    <3>6. l \in Nat /\ h \in Nat BY <1>6, <2>2, <3>1
    <3> QED BY <3>2, <3>3, <3>4, <3>5, <3>6
  <2> QED BY <2>2, <2>3, <2>4
<1>13. ASSUME i > n, NEW l \in Heads(1, LastLine), OwnerOf(l) = 0
       PROVE  l <= b
  <2>1. PICK k \in 1 .. n : line[Nth(C, k)] = l BY <1>7, <1>13
  <2>2. k < i BY <1>4, <1>8, <1>13
  <2> QED BY <1>11, <2>1, <2>2
<1> QED BY <1>4, <1>10, <1>12, <1>13 DEF C, n, b, h


LEMMA MadeJoined ==
    ASSUME NEW sort, NEW protos, NEW s, Listed(s), NEW t, Listed(t),
           NEW u, Listed(u), NEW v, Listed(v), Made(sort, s) = Meant(sort, protos, u),
           Made(sort, t) = Meant(sort, protos, v)
    PROVE  Made(sort, s \o t) = Meant(sort, protos, u \o v)
<1> DEFINE m == Len(s) n == Len(t)
           One(e) == ItemSays(sort, e)
           Two(r) == RowSays(sort, protos, r)
<1>1. m \in Nat /\ DOMAIN s = 1 .. m /\ n \in Nat /\ DOMAIN t = 1 .. n  BY ListedHas
<1>2. DOMAIN Made(sort, s) = 1 .. m /\ DOMAIN Made(sort, t) = 1 .. n  BY <1>1 DEF Made
<1>3. DOMAIN u = 1 .. m /\ DOMAIN v = 1 .. n BY <1>2 DEF Meant
<1>4. Len(u) = m /\ Len(v) = n
  <2>1. Len(u) \in Nat /\ DOMAIN u = 1 .. Len(u) BY ListedHas
  <2>2. Len(v) \in Nat /\ DOMAIN v = 1 .. Len(v) BY ListedHas
  <2>3. \A a, b \in Nat : 1 .. a = 1 .. b => a = b
    <3> TAKE a \in Nat
    <3> TAKE b \in Nat
    <3>1. ASSUME 1 .. a = 1 .. b, a < b PROVE FALSE
      <4>1. b \in 1 .. b /\ b \notin 1 .. a BY <3>1
      <4> QED BY <3>1, <4>1
    <3>2. ASSUME 1 .. a = 1 .. b, b < a PROVE FALSE
      <4>1. a \in 1 .. a /\ a \notin 1 .. b BY <3>2
      <4> QED BY <3>2, <4>1
    <3> QED BY <3>1, <3>2
  <2> HIDE DEF m, n
  <2> QED BY ONLY <1>1, <1>3, <2>1, <2>2, <2>3
<1>5. /\ DOMAIN (s \o t) = 1 .. m + n
      /\ \A i \in 1 .. m : (s \o t)[i] = s[i]
      /\ \A i \in 1 .. n : (s \o t)[m + i] = t[i]
  BY JoinedIsListed
<1>6. /\ DOMAIN (u \o v) = 1 .. m + n
      /\ \A i \in 1 .. m : (u \o v)[i] = u[i]
      /\ \A i \in 1 .. n : (u \o v)[m + i] = v[i]
  <2>1. /\ DOMAIN (u \o v) = 1 .. Len(u) + Len(v)
        /\ \A i \in 1 .. Len(u) : (u \o v)[i] = u[i]
        /\ \A i \in 1 .. Len(v) : (u \o v)[Len(u) + i] = v[i]
    BY JoinedIsListed
  <2> HIDE DEF m, n
  <2> QED BY <1>4, <2>1
<1>7. \A i \in 1 .. m : One(s[i]) = Two(u[i])
  <2> TAKE i \in 1 .. m
  <2>1. Made(sort, s)[i] = One(s[i]) BY <1>1 DEF Made
  <2>2. Meant(sort, protos, u)[i] = Two(u[i]) BY <1>3 DEF Meant
  <2> QED BY <2>1, <2>2
<1>8. \A i \in 1 .. n : One(t[i]) = Two(v[i])
  <2> TAKE i \in 1 .. n
  <2>1. Made(sort, t)[i] = One(t[i]) BY <1>1 DEF Made
  <2>2. Meant(sort, protos, v)[i] = Two(v[i]) BY <1>3 DEF Meant
  <2> QED BY <2>1, <2>2
<1> DEFINE st == s \o t uv == u \o v
<1>9. Made(sort, st) = [i \in 1 .. m + n |-> One(st[i])] BY <1>5 DEF Made
<1>10. Meant(sort, protos, uv) = [i \in 1 .. m + n |-> Two(uv[i])]  BY <1>6 DEF Meant
<1> HIDE DEF st, uv, One, Two, m, n
<1>11. ASSUME NEW i \in 1 .. m + n PROVE One(st[i]) = Two(uv[i])
  <2>1. CASE i <= m
    <3>1. i \in 1 .. m BY <1>1, <2>1
    <3>2. st[i] = s[i] /\ uv[i] = u[i] BY <1>5, <1>6, <3>1 DEF st, uv
    <3> QED BY <1>7, <3>1, <3>2
  <2>2. CASE i > m
    <3> DEFINE k == i - m
    <3>1. k \in 1 .. n /\ i = m + k BY <1>1, <2>2
    <3> HIDE DEF k
    <3>2. st[i] = t[k] /\ uv[i] = v[k] BY <1>5, <1>6, <3>1 DEF st, uv
    <3> QED BY <1>8, <3>1, <3>2
  <2> QED BY <1>1, <2>1, <2>2
<1>12. Made(sort, st) = Meant(sort, protos, uv) BY <1>9, <1>10, <1>11
<1> QED BY <1>12 DEF st, uv

\* The groups that count are among those of the monster.
LEMMA TableGroupsAre ==
    ASSUME NEW sort, NEW mob
    PROVE  TableGroups(sort, mob)
             \subseteq {h \in Heads(1, LastLine) : IsGroupOf(h, sort, mob)}
<1> DEFINE all == {h \in Heads(1, LastLine) : IsGroupOf(h, sort, mob)}
           G == TableGroups(sort, mob)
<1>1. G = IF sort = "drop" \/ all = {} THEN all ELSE {Min(all)}  BY DEF TableGroups
<1>2. all \in SUBSET Nat BY DEF Heads
<1> HIDE DEF all, G
<1>3. all # {} => Min(all) \in all BY <1>2, MinIsLeast
<1>4. G \subseteq all BY <1>1, <1>3
<1> QED BY <1>4 DEF all, G

\* Which of the groups count: all drop groups of a monster, the first of
\* another sort.
LEMMA GroupCounts ==
    ASSUME LastLine \in Nat, NEW b \in 0 .. LastLine, NEW h \in 1 .. LastLine,
           b < h, h \in Heads(1, LastLine), NEW sort, NEW mob,
           \A l \in Heads(1, LastLine) : OwnerOf(l) = 0 => l <= b \/ l >= h
    PROVE  LET G == TableGroups(sort, mob)
           IN /\ \A l \in b + 1 .. h - 1 : l \notin G
              /\ \A l \in G : /\ l \in 1 .. LastLine
                              /\ l <= b \/ l >= h
              /\ h \in G <=> /\ IsGroupOf(h, sort, mob)
                             /\ sort = "drop" \/ mob \notin MobsUpto(sort, b)
              /\ mob \notin MobsUpto(sort, b) => \A l \in 1 .. b : l \notin G
              /\ MobsUpto(sort, h) = MobsUpto(sort, b)
                   \cup (IF IsGroup(h, sort) THEN {MobOf(h)} ELSE {})
<1> DEFINE G == TableGroups(sort, mob)
           all == {l \in Heads(1, LastLine) : IsGroupOf(l, sort, mob)}
<1>1. G = IF sort = "drop" \/ all = {} THEN all ELSE {Min(all)}  BY DEF TableGroups
<1>2. \A x \in 0 .. LastLine : \A l :
        l \in Heads(1, x) <=> l \in 1 .. x /\ l \in Heads(1, LastLine)
  BY DEF Heads
<1>3. Heads(1, LastLine) \subseteq 1 .. LastLine BY DEF Heads
<1>4. all \in SUBSET Nat BY <1>3
<1>5. \A l \in all : OwnerOf(l) = 0 /\ (l <= b \/ l >= h)  BY DEF IsGroupOf, IsGroup
<1>6. all # {} => Min(all) \in all /\ \A l \in all : Min(all) <= l
  <2> HIDE DEF all
  <2> QED BY <1>4, MinIsLeast
<1>7. mob \in MobsUpto(sort, b) <=> \E l \in all : l <= b
  <2>1. b \in 0 .. LastLine OBVIOUS
  <2>2. \A l : l \in Heads(1, b)
                 <=> l \in 1 .. b /\ l \in Heads(1, LastLine)
    BY <1>2, <2>1
  <2>3. \A l \in Heads(1, LastLine) : l <= b => l \in 1 .. b BY <1>3
  <2>4. mob \in MobsUpto(sort, b)
          <=> \E l \in Heads(1, b) : IsGroup(l, sort) /\ MobOf(l) = mob
    BY DEF MobsUpto
  <2>5. \A l \in 1 .. b : l <= b OBVIOUS
  <2> QED BY <2>2, <2>3, <2>4, <2>5 DEF IsGroupOf
<1>8. h \in all <=> IsGroupOf(h, sort, mob) OBVIOUS
<1>9. b \in Nat /\ h \in Nat OBVIOUS
<1> HIDE DEF all
<1>10. G \subseteq all BY <1>1, <1>6
<1>11. \A l \in b + 1 .. h - 1 : l \notin G
  <2>1. \A l \in b + 1 .. h - 1 : ~(l <= b \/ l >= h) BY <1>9
  <2> QED BY <1>5, <1>10, <2>1
<1>12. mob \notin MobsUpto(sort, b) => \A l \in 1 .. b : l \notin G
  <2>1. \A l \in 1 .. b : l <= b BY <1>9
  <2> QED BY <1>7, <1>10, <2>1
<1>13. h \in G <=> /\ IsGroupOf(h, sort, mob)
                   /\ sort = "drop" \/ mob \notin MobsUpto(sort, b)
  <2>1. CASE sort = "drop" BY <1>1, <1>8, <2>1
  <2>2. CASE sort # "drop" /\ h \notin all BY <1>8, <1>10, <2>2
  <2>3. CASE sort # "drop" /\ h \in all
    <3> DEFINE least == Min(all)
    <3>1. G = {least} BY <1>1, <2>3
    <3>2. least \in all /\ \A l \in all : least <= l BY <1>6, <2>3
    <3> HIDE DEF least
    <3>3. least \in Nat /\ least <= h BY <1>4, <2>3, <3>2
    <3>4. least = h \/ least <= b BY <1>5, <1>9, <3>2, <3>3
    <3>5. ~(h <= b) BY <1>9
    <3>6. least <= b <=> \E l \in all : l <= b
      <4>1. ASSUME NEW l \in all, l <= b PROVE least <= b
        <5>1. least <= l /\ l \in Nat BY <1>4, <3>2
        <5> QED BY <1>9, <3>3, <4>1, <5>1
      <4> QED BY <3>2, <4>1
    <3> QED BY <1>7, <1>8, <2>3, <3>1, <3>4, <3>5, <3>6
  <2> QED BY <2>1, <2>2, <2>3
<1>14. MobsUpto(sort, h) = MobsUpto(sort, b)
         \cup (IF IsGroup(h, sort) THEN {MobOf(h)} ELSE {})
  <2>1. b \in 0 .. LastLine /\ h \in 0 .. LastLine BY <1>9
  <2>2. \A l : l \in Heads(1, h)
                 <=> l \in 1 .. h /\ l \in Heads(1, LastLine)
    BY <1>2, <2>1
  <2>3. \A l : l \in Heads(1, b)
                 <=> l \in 1 .. b /\ l \in Heads(1, LastLine)
    BY <1>2, <2>1
  <2>4. \A l \in 1 .. h : l >= h => l = h BY <1>9
  <2>5. \A l \in 1 .. h : l <= b => l \in 1 .. b BY <1>9
  <2>6. \A l \in 1 .. b : l \in 1 .. h BY <1>9
  <2>7. h \in 1 .. h BY <1>9
  <2>8. \A l : l \in Heads(1, h) /\ IsGroup(l, sort)
                 => l = h \/ l \in Heads(1, b)
    BY <2>2, <2>3, <2>4, <2>5 DEF IsGroup
  <2>9. \A l : l \in Heads(1, b) => l \in Heads(1, h)  BY <2>2, <2>3, <2>6
  <2>10. h \in Heads(1, h) BY <2>2, <2>7
  <2> QED BY <2>8, <2>9, <2>10 DEF MobsUpto
<1>15. \A l \in G : l \in 1 .. LastLine /\ (l <= b \/ l >= h)
  <2>1. all \subseteq 1 .. LastLine BY <1>3 DEF all
  <2> QED BY <1>5, <1>10, <2>1
<1> QED BY <1>11, <1>12, <1>13, <1>14, <1>15 DEF G

\* The next group is read.
LEMMA GroupIsRead ==
    ASSUME NEW ns, NEW line, LastLine \in Nat, ReadUpto(ns, LastLine, line),
           NEW i \in 1 .. Cardinality(ChildrenOf(ns)),
           NEW groups, GroupsHold(groups),
           GroupsAreRead(groups, corpus.items, Reached(ns, i, line)),
           NEW node, node = ns[Nth(ChildrenOf(ns), i)], GroupIsSound(node),
           ~SkippedGroup(node) =>
             \A k \in 1 .. FirstGap(node) - 1 : RowOf(node, k) # <<>>
    PROVE  GroupsAreRead(IF SkippedGroup(node) THEN groups
                         ELSE Installed(groups, node),
                         corpus.items, Reached(ns, i + 1, line))
<1> DEFINE j == Nth(ChildrenOf(ns), i)
           b == Reached(ns, i, line)
           h == Reached(ns, i + 1, line)
           kind0 == KindOf(node)
           mob0 == Number(Field(node, "mob"))
           next == IF SkippedGroup(node) THEN groups
                   ELSE Installed(groups, node)
           protos == corpus.items
           new == GroupItems(node)
<1>1. /\ Cardinality(ChildrenOf(ns)) \in Nat
      /\ b \in 0 .. LastLine /\ j \in ChildrenOf(ns) /\ h = line[j]
      /\ h \in 1 .. LastLine /\ b < h
      /\ \A l \in Heads(1, LastLine) : OwnerOf(l) = 0 => l <= b \/ l >= h
  <2> DEFINE n == Cardinality(ChildrenOf(ns))
  <2>1. ASSUME NEW k \in 1 .. n PROVE k \in 1 .. n + 1 /\ k <= n
    <3>1. n \in Nat
      <4>1. Len(ns) \in Nat /\ DOMAIN ns = 1 .. Len(ns) BY LineOf
      <4>2. ChildrenOf(ns) \subseteq DOMAIN ns /\ Listed(ns)
        BY DEF ChildrenOf, ReadUpto
      <4> QED BY <4>2, ThoseAreThePlaces
    <3> HIDE DEF n
    <3> QED BY <3>1
  <2>2. i \in 1 .. n + 1 /\ i <= n BY <2>1
  <2> HIDE DEF n
  <2>3. i \in 1 .. Cardinality(ChildrenOf(ns)) + 1
          /\ i <= Cardinality(ChildrenOf(ns))
    BY <2>2 DEF n
  <2> QED BY <2>3, ReachedIs
<1>2. /\ j \in 2 .. Len(ns) /\ h \in Heads(1, LastLine) /\ OwnerOf(h) = 0
  BY <1>1, ChildrenAre
<1>3. node = ns[j] OBVIOUS
<1>4. /\ \A sort : IsGroup(h, sort) <=> kind0 = sort /\ ~SkippedGroup(node)
      /\ MobOf(h) = mob0
      /\ Asks(kind0, NewGroup(node), h)
  <2>1. GroupIsSound(ns[j]) /\ OwnerOf(line[j]) = 0 BY <1>1, <1>2, <1>3
  <2> HIDE DEF j
  <2>2. /\ \A sort : IsGroup(line[j], sort)
                        <=> KindOf(ns[j]) = sort /\ ~SkippedGroup(ns[j])
        /\ MobOf(line[j]) = Number(Field(ns[j], "mob"))
        /\ Asks(KindOf(ns[j]), NewGroup(ns[j]), line[j])
    BY <1>2, <2>1, GroupSays
  <2> QED BY <1>1, <1>3, <2>2
<1>5. kind0 \in Range(Kinds) BY DEF GroupIsSound
<1> HIDE DEF b, h
<1>6. \A sort, mob :
        LET G == TableGroups(sort, mob)
        IN /\ \A l \in b + 1 .. h - 1 : l \notin G
           /\ \A l \in G : /\ l \in 1 .. LastLine
                           /\ l <= b \/ l >= h
           /\ h \in G <=> /\ IsGroupOf(h, sort, mob)
                          /\ sort = "drop" \/ mob \notin MobsUpto(sort, b)
           /\ mob \notin MobsUpto(sort, b) => \A l \in 1 .. b : l \notin G
           /\ MobsUpto(sort, h) = MobsUpto(sort, b)
                \cup (IF IsGroup(h, sort) THEN {MobOf(h)} ELSE {})
  BY ONLY LastLine \in Nat, <1>1, <1>2, GroupCounts
<1>7. /\ \A sort \in Range(Kinds) : DOMAIN groups[sort] = MobsUpto(sort, b)
      /\ \A sort \in Range(Kinds) : \A mob \in DOMAIN groups[sort] :
           /\ Made(sort, groups[sort][mob].items)
                = Meant(sort, protos, RowsUpto(sort, mob, b))
           /\ \A l \in TableGroups(sort, mob) :
                l <= b => Asks(sort, groups[sort][mob], l)
  BY DEF GroupsAreRead, b
<1>8. ASSUME NEW sort, NEW mob
      PROVE  /\ Listed(RowsUpto(sort, mob, b))
             /\ RowsUpto(sort, mob, h) =
                  (IF h \in TableGroups(sort, mob)
                   THEN RowsUpto(sort, mob, b) \o TableRows(h)
                   ELSE RowsUpto(sort, mob, b))
             /\ mob \notin MobsUpto(sort, b) => RowsUpto(sort, mob, b) = <<>>
  <2> DEFINE G == TableGroups(sort, mob)
             lists == RowLists(G)
  <2>1. /\ \A l \in b + 1 .. h - 1 : l \notin G
        /\ mob \notin MobsUpto(sort, b) => \A l \in 1 .. b : l \notin G
    BY <1>6
  <2> HIDE DEF G
  <2>2. /\ Listed(lists) /\ Len(lists) = LastLine
        /\ DOMAIN lists = 1 .. LastLine
        /\ \A l \in 1 .. LastLine :
             lists[l] = (IF l \in G THEN TableRows(l) ELSE <<>>)
        /\ \A l \in DOMAIN lists : Listed(lists[l])
    BY RowListsAre
  <2>3. RowsUpto(sort, mob, b) = Joined(lists, b)
          /\ RowsUpto(sort, mob, h) = Joined(lists, h)
    BY DEF RowsUpto, G
  <2> HIDE DEF lists
  <2>4. /\ Joined(lists, 0) = <<>>
        /\ \A l \in 0 .. LastLine : Listed(Joined(lists, l))
        /\ \A l \in 1 .. LastLine :
             Joined(lists, l) = Joined(lists, l - 1) \o lists[l]
    BY <2>2, JoinedIs
  <2>5. /\ b \in Nat /\ h \in Nat /\ h - 1 \in 0 .. LastLine /\ b <= h - 1
        /\ 0 \in 0 .. LastLine /\ 0 <= b
        /\ \A l \in b + 1 .. h - 1 : l \in 1 .. LastLine
        /\ \A l \in 0 + 1 .. b : l \in 1 .. LastLine /\ l \in 1 .. b
        /\ h - 1 \in Nat
    BY ONLY LastLine \in Nat, <1>1
  <2>6. Joined(lists, h - 1) = Joined(lists, b)
    <3> DEFINE g == h - 1
    <3>1. /\ b \in 0 .. Len(lists) /\ g \in 0 .. Len(lists) /\ b <= g
          /\ \A l \in b + 1 .. g : lists[l] = <<>>
      BY <1>1, <2>1, <2>2, <2>5
    <3> HIDE DEF g
    <3>2. Joined(lists, g) = Joined(lists, b)  BY ONLY <2>2, <3>1, RowsStand
    <3> QED BY <3>2 DEF g
  <2>7. ASSUME mob \notin MobsUpto(sort, b) PROVE Joined(lists, b) = <<>>
    <3>1. /\ b \in 0 .. Len(lists) /\ 0 \in 0 .. Len(lists) /\ 0 <= b
          /\ \A l \in 0 + 1 .. b : lists[l] = <<>>
      BY <1>1, <2>1, <2>2, <2>5, <2>7
    <3>2. Joined(lists, b) = Joined(lists, 0)  BY ONLY <2>2, <3>1, RowsStand
    <3> QED BY <2>4, <3>2
  <2>8. Joined(lists, h) = Joined(lists, b) \o lists[h]  BY <1>1, <2>4, <2>6
  <2>9. lists[h] = IF h \in G THEN TableRows(h) ELSE <<>>  BY <1>1, <2>2
  <2>10. Joined(lists, b) \o <<>> = Joined(lists, b)
    <3>1. PICK T : Joined(lists, b) \in Seq(T) BY <1>1, <2>4 DEF Listed
    <3> QED BY <3>1
  <2> QED BY <1>1, <2>3, <2>4, <2>7, <2>8, <2>9, <2>10 DEF G
<1>9. ASSUME ~SkippedGroup(node)
      PROVE  Made(kind0, new) = Meant(kind0, protos, TableRows(h))
  <2> DEFINE m == FirstGap(node) - 1
  <2>1. TableRows(line[j]) = [k \in 1 .. m |-> RowOf(ns[j], k)]
    <3>1. \A k \in 1 .. FirstGap(ns[j]) - 1 : RowOf(ns[j], k) # <<>>  BY <1>3, <1>9
    <3> HIDE DEF j
    <3>2. TableRows(line[j])
            = [k \in 1 .. FirstGap(ns[j]) - 1 |-> RowOf(ns[j], k)]
      BY <1>2, <3>1, RowsAreSaid
    <3> QED BY <1>3, <3>2
  <2>2. TableRows(h) = [k \in 1 .. m |-> RowOf(node, k)]  BY <1>1, <1>3, <2>1
  <2>3. /\ DOMAIN new = 1 .. m
        /\ \A k \in 1 .. m :
             ItemSays(kind0, new[k]) = RowSays(kind0, protos, RowOf(node, k))
    BY GroupItemsAre
  <2> HIDE DEF m, new, protos, kind0
  <2> QED BY <2>2, <2>3 DEF Made, Meant
<1>10. Listed(new) /\ Listed(TableRows(h))
  <2>1. Shaped(new, ItemFields) BY GroupItemsAre
  <2> QED BY <2>1, TableRowsAre DEF Shaped
<1>11. <<>> \o TableRows(h) = TableRows(h)
  <2>1. PICK T : TableRows(h) \in Seq(T) BY <1>10 DEF Listed
  <2> QED BY <2>1
<1>12. ~SkippedGroup(node) =>
         /\ \A k \in Range(Kinds) : k # kind0 => next[k] = groups[k]
         /\ DOMAIN next[kind0] = DOMAIN groups[kind0] \cup {mob0}
         /\ \A m \in DOMAIN groups[kind0] : m # mob0 =>
              next[kind0][m] = groups[kind0][m]
         /\ mob0 \notin DOMAIN groups[kind0] =>
              next[kind0][mob0] = NewGroup(node)
         /\ mob0 \in DOMAIN groups[kind0] /\ kind0 = "drop" =>
              next[kind0][mob0].items = groups[kind0][mob0].items \o new
         /\ mob0 \in DOMAIN groups[kind0] /\ kind0 # "drop" =>
              next[kind0][mob0] = groups[kind0][mob0]
  <2> DEFINE got == Installed(groups, node)
  <2>1. /\ \A k \in Range(Kinds) : k # kind0 => got[k] = groups[k]
        /\ DOMAIN got[kind0] = DOMAIN groups[kind0] \cup {mob0}
        /\ \A m \in DOMAIN groups[kind0] : m # mob0 =>
             got[kind0][m] = groups[kind0][m]
        /\ mob0 \notin DOMAIN groups[kind0] =>
             got[kind0][mob0] = NewGroup(node)
        /\ mob0 \in DOMAIN groups[kind0] /\ kind0 = "drop" =>
             got[kind0][mob0].items = groups[kind0][mob0].items \o new
        /\ mob0 \in DOMAIN groups[kind0] /\ kind0 # "drop" =>
             got[kind0][mob0] = groups[kind0][mob0]
    BY ONLY GroupsHold(groups), <1>5, InstalledIs
  <2>2. ~SkippedGroup(node) => next = got OBVIOUS
  <2> HIDE DEF got, next, kind0, mob0, new
  <2> QED BY <2>1, <2>2
<1>13. SkippedGroup(node) => next = groups OBVIOUS
<1>14. \A mob \in DOMAIN groups[kind0] : Listed(groups[kind0][mob].items)
  BY <1>5 DEF GroupsHold, Shaped
<1>20. NewGroup(node).items = new BY DEF NewGroup
<1> HIDE DEF next, new, protos, kind0, mob0, j
<1>15. ASSUME NEW sort \in Range(Kinds)
       PROVE  DOMAIN next[sort] = MobsUpto(sort, h)
  <2>1. MobsUpto(sort, h) = DOMAIN groups[sort]
          \cup (IF IsGroup(h, sort) THEN {mob0} ELSE {})
    BY <1>4, <1>6, <1>7
  <2>2. CASE SkippedGroup(node) BY <1>4, <1>13, <2>1, <2>2
  <2>3. CASE ~SkippedGroup(node) /\ sort # kind0  BY <1>4, <1>12, <2>1, <2>3
  <2>4. CASE ~SkippedGroup(node) /\ sort = kind0  BY <1>4, <1>12, <2>1, <2>4
  <2> QED BY <2>2, <2>3, <2>4
<1>16. ASSUME NEW sort \in Range(Kinds), NEW mob \in DOMAIN next[sort]
       PROVE  Made(sort, next[sort][mob].items)
                = Meant(sort, protos, RowsUpto(sort, mob, h))
  <2>1. IsGroupOf(h, sort, mob)
          <=> kind0 = sort /\ mob0 = mob /\ ~SkippedGroup(node)
    BY <1>4 DEF IsGroupOf
  <2>2. CASE ~IsGroupOf(h, sort, mob)
    <3>1. h \notin TableGroups(sort, mob) BY <1>6, <2>2
    <3>2. RowsUpto(sort, mob, h) = RowsUpto(sort, mob, b) BY <1>8, <3>1
    <3>3. mob \in DOMAIN groups[sort] /\ next[sort][mob] = groups[sort][mob]
      BY <1>12, <1>13, <2>1, <2>2
    <3> QED BY <1>7, <3>2, <3>3
  <2>3. CASE IsGroupOf(h, sort, mob) /\ mob \notin DOMAIN groups[sort]
    <3>1. mob \notin MobsUpto(sort, b) BY <1>7, <2>3
    <3>2. h \in TableGroups(sort, mob) BY <1>6, <2>3, <3>1
    <3>3. RowsUpto(sort, mob, b) = <<>> BY <1>8, <3>1
    <3>4. RowsUpto(sort, mob, h) = <<>> \o TableRows(h)  BY <1>8, <3>2, <3>3
    <3>5. /\ next[sort][mob].items = new
          /\ Made(sort, new) = Meant(sort, protos, TableRows(h))
      BY <1>9, <1>12, <1>20, <2>1, <2>3
    <3> QED BY <1>11, <3>4, <3>5
  <2>4. CASE IsGroupOf(h, sort, mob) /\ mob \in DOMAIN groups[sort]
    <3>1. mob \in MobsUpto(sort, b) BY <1>7, <2>4
    <3>2. Made(sort, groups[sort][mob].items)
            = Meant(sort, protos, RowsUpto(sort, mob, b))
      BY <1>7, <2>4
    <3>3. CASE sort # "drop"
      <4>1. h \notin TableGroups(sort, mob) BY <1>6, <3>1, <3>3
      <4>2. RowsUpto(sort, mob, h) = RowsUpto(sort, mob, b) BY <1>8, <4>1
      <4>3. next[sort][mob].items = groups[sort][mob].items  BY <1>12, <2>1, <2>4, <3>3
      <4> QED BY <3>2, <4>2, <4>3
    <3>4. CASE sort = "drop"
      <4>1. h \in TableGroups(sort, mob) BY <1>6, <2>4, <3>4
      <4>2. RowsUpto(sort, mob, h) = RowsUpto(sort, mob, b) \o TableRows(h)
        BY <1>8, <4>1
      <4>3. next[sort][mob].items = groups[sort][mob].items \o new
        BY <1>12, <2>1, <2>4, <3>4
      <4>4. Made(sort, new) = Meant(sort, protos, TableRows(h))  BY <1>9, <2>1, <2>4
      <4>5. Listed(groups[sort][mob].items) BY <1>14, <2>1, <2>4
      <4>6. Listed(RowsUpto(sort, mob, b)) BY <1>8
      <4> DEFINE s == groups[sort][mob].items u == RowsUpto(sort, mob, b)
                 v == TableRows(h)
      <4>7. /\ Listed(s) /\ Listed(new) /\ Listed(u) /\ Listed(v)
            /\ Made(sort, s) = Meant(sort, protos, u)
            /\ Made(sort, new) = Meant(sort, protos, v)
        BY <1>10, <3>2, <4>4, <4>5, <4>6
      <4> HIDE DEF s, u, v
      <4>8. Made(sort, s \o new) = Meant(sort, protos, u \o v)  BY ONLY <4>7, MadeJoined
      <4> QED BY <4>2, <4>3, <4>8 DEF s, u, v
    <3> QED BY <3>3, <3>4
  <2> QED BY <2>2, <2>3, <2>4
<1>18. ASSUME NEW sort \in Range(Kinds), NEW mob \in DOMAIN next[sort],
              NEW l \in TableGroups(sort, mob), l <= h
       PROVE  Asks(sort, next[sort][mob], l)
  <2>1. IsGroupOf(h, sort, mob)
          <=> kind0 = sort /\ mob0 = mob /\ ~SkippedGroup(node)
    BY <1>4 DEF IsGroupOf
  <2>2. /\ l \in 1 .. LastLine /\ (l <= b \/ l >= h)
        /\ h \in TableGroups(sort, mob) <=>
             /\ IsGroupOf(h, sort, mob)
             /\ sort = "drop" \/ mob \notin MobsUpto(sort, b)
        /\ mob \notin MobsUpto(sort, b) =>
             \A k \in 1 .. b : k \notin TableGroups(sort, mob)
    BY <1>6
  <2>3. CASE sort = "drop" BY <2>3 DEF Asks
  <2>4. l <= b \/ l = h BY <1>1, <1>18, <2>2
  <2>5. CASE sort # "drop" /\ mob \in DOMAIN groups[sort]
    <3>1. l # h BY <1>7, <2>2, <2>5
    <3>2. Asks(sort, groups[sort][mob], l) BY <1>7, <2>4, <2>5, <3>1
    <3>3. next[sort][mob] = groups[sort][mob]
      <4>1. CASE SkippedGroup(node) BY <1>13, <4>1
      <4>2. CASE ~SkippedGroup(node) /\ sort # kind0 BY <1>12, <4>2
      <4>3. CASE ~SkippedGroup(node) /\ sort = kind0  BY <1>12, <2>5, <4>3
      <4> QED BY <4>1, <4>2, <4>3
    <3> QED BY <3>2, <3>3
  <2>6. CASE sort # "drop" /\ mob \notin DOMAIN groups[sort]
    <3>1. mob \notin MobsUpto(sort, b) BY <1>7, <2>6
    <3>2. ~(l <= b)
      <4>1. l <= b => l \in 1 .. b BY <1>1, <2>2
      <4> QED BY <2>2, <3>1, <4>1
    <3>3. l = h BY <2>4, <3>2
    <3>4. IsGroupOf(h, sort, mob) BY <2>2, <3>3
    <3>5. kind0 = sort /\ next[sort][mob] = NewGroup(node)  BY <1>12, <2>1, <2>6, <3>4
    <3> QED BY <1>4, <3>3, <3>5
  <2> QED BY <2>3, <2>5, <2>6
<1>17. GroupsAreRead(next, protos, h) BY <1>15, <1>16, <1>18 DEF GroupsAreRead
<1> QED BY <1>17 DEF next, protos, h


-----------------------------------------------------------------------------
(* The corpus is the text.                                                   *)

GroupsStand ==
    /\ at \in 1 .. Cardinality(ChildrenOf(nodes)) + 1
    /\ \E line : /\ ReadUpto(nodes, LastLine, line)
                 /\ GroupsAreRead(corpus.groups, corpus.items,
                                  Reached(nodes, at, line))
CorpusSays ==
    \A sort \in Range(Kinds) :
      /\ DOMAIN corpus.groups[sort]
           = {MobOf(h) : h \in {g \in Heads(1, LastLine) : IsGroup(g, sort)}}
      /\ \A mob \in DOMAIN corpus.groups[sort] :
           /\ Made(sort, corpus.groups[sort][mob].items)
                = Meant(sort, corpus.items, RowsOfMob(sort, mob))
           /\ \A h \in TableGroups(sort, mob) :
                Asks(sort, corpus.groups[sort][mob], h)
GroupsInv ==
    /\ dropStage \in {"items", "common", "lines"} =>
         \A sort \in Range(Kinds) : corpus.groups[sort] = Nothing
    /\ dropStage = "groups" => GroupsStand
    /\ dropStage \in {"ranks", "kinds", "installed"} => CorpusSays

LEMMA ReadStays ==
    ASSUME tables' = tables
    PROVE  /\ \A groups, protos, b :
                GroupsAreRead(groups, protos, b)'
                  <=> GroupsAreRead(groups, protos, b)
           /\ corpus' = corpus => (CorpusSays' <=> CorpusSays)
<1>1. LastLine' = LastLine /\ \A i, j : Heads(i, j)' = Heads(i, j)  BY TextStays
<1>2. \A h, key : ValuesOf(h, key)' = ValuesOf(h, key)
  <2> TAKE h, key
  <2>1. {i \in h + 1 .. LastLine : Gives(i, key) /\ OwnerOf(i) = h}'
          = {i \in h + 1 .. LastLine : Gives(i, key) /\ OwnerOf(i) = h}
    BY TextStays
  <2> QED BY <2>1, TextStays DEF ValuesOf
<1>3. \A h, sort : IsGroup(h, sort)' <=> IsGroup(h, sort)
  BY <1>2, TextStays DEF IsGroup
<1>4. \A h : MobOf(h)' = MobOf(h) BY <1>2 DEF MobOf
<1>5. \A h, sort, mob : IsGroupOf(h, sort, mob)' <=> IsGroupOf(h, sort, mob)
  BY <1>3, <1>4 DEF IsGroupOf
<1>6. \A sort, mob : TableGroups(sort, mob)' = TableGroups(sort, mob)
  <2> TAKE sort, mob
  <2>1. {h \in Heads(1, LastLine) : IsGroupOf(h, sort, mob)}'
          = {h \in Heads(1, LastLine) : IsGroupOf(h, sort, mob)}
    BY <1>1, <1>5
  <2> QED BY <2>1 DEF TableGroups
<1>7. \A h : TableRows(h)' = TableRows(h)
  <2> TAKE h
  <2>1. {k \in 1 .. RowKeyLimit + 1 :
           k > RowKeyLimit \/ ValuesOf(h, RowKey(k)) = <<>>}'
          = {k \in 1 .. RowKeyLimit + 1 :
               k > RowKeyLimit \/ ValuesOf(h, RowKey(k)) = <<>>}
    BY <1>2
  <2> QED BY <1>2, <2>1 DEF TableRows
<1>8. \A G : RowLists(G)' = RowLists(G) BY <1>1, <1>7 DEF RowLists
<1>14. \A sort, g, h : Asks(sort, g, h)' <=> Asks(sort, g, h)  BY <1>2 DEF Asks
<1>9. \A sort, mob, b : RowsUpto(sort, mob, b)' = RowsUpto(sort, mob, b)
  BY <1>6, <1>8 DEF RowsUpto
<1>10. \A sort, b : MobsUpto(sort, b)' = MobsUpto(sort, b)
  BY <1>1, <1>3, <1>4 DEF MobsUpto
<1>11. \A groups, protos, b : GroupsAreRead(groups, protos, b)'
                               <=> GroupsAreRead(groups, protos, b)
  BY <1>6, <1>9, <1>10, <1>14 DEF GroupsAreRead
<1>12. \A sort, mob : RowsOfMob(sort, mob)' = RowsOfMob(sort, mob)
  <2> TAKE sort, mob
  <2>1. RowsOfMob(sort, mob) = FlattenSeq(RowLists(TableGroups(sort, mob)))
    BY DEF RowsOfMob, RowLists
  <2>2. RowsOfMob(sort, mob)'
          = FlattenSeq(RowLists(TableGroups(sort, mob))')
    BY DEF RowsOfMob, RowLists
  <2> QED BY <1>6, <1>8, <2>1, <2>2
<1>13. ASSUME corpus' = corpus PROVE CorpusSays' <=> CorpusSays
  <2>1. \A sort : {MobOf(h) : h \in {g \in Heads(1, LastLine) :
                                       IsGroup(g, sort)}}'
                 = {MobOf(h) : h \in {g \in Heads(1, LastLine) :
                                       IsGroup(g, sort)}}
    BY <1>1, <1>3, <1>4
  <2> QED BY <1>6, <1>12, <1>13, <1>14, <2>1 DEF CorpusSays
<1> QED BY <1>11, <1>13

\* Before the first group nothing is read.
LEMMA GroupsBegin ==
    ASSUME TextRead, \A sort \in Range(Kinds) : corpus.groups[sort] = Nothing,
           tables' = tables, nodes' = nodes, corpus' = corpus, at' = 1,
           TextRead'
    PROVE  GroupsStand'
<1>1. PICK line : ReadUpto(nodes, LastLine, line) BY DEF TextRead
<1>2. Cardinality(ChildrenOf(nodes)) \in Nat
  <2>1. Len(nodes) \in Nat /\ DOMAIN nodes = 1 .. Len(nodes)
    <3>1. LastLine \in Nat BY DEF TextRead
    <3> QED BY <1>1, <3>1, LineOf
  <2>2. ChildrenOf(nodes) \subseteq DOMAIN nodes /\ Listed(nodes)
    BY <1>1 DEF ChildrenOf, ReadUpto
  <2> QED BY <2>2, ThoseAreThePlaces
<1>3. GroupsAreRead(corpus.groups, corpus.items, 0)
  <2>1. \A i : i \notin 1 .. 0 OBVIOUS
  <2>2. Heads(1, 0) = {} BY <2>1 DEF Heads
  <2>3. \A sort : MobsUpto(sort, 0) = {} BY <2>2 DEF MobsUpto
  <2>4. DOMAIN Nothing = {} BY DEF Nothing
  <2> QED BY <2>3, <2>4 DEF GroupsAreRead
<1>4. Reached(nodes', at', line) = 0 BY DEF Reached
<1>5. /\ ReadUpto(nodes', LastLine', line)
      /\ GroupsAreRead((corpus').groups, (corpus').items,
                       Reached(nodes', at', line))
  BY <1>1, <1>3, <1>4, TextStays
<1>6. ReadUpto(nodes, LastLine, line)' BY <1>5, TextStays
<1>7. GroupsAreRead(corpus.groups, corpus.items, Reached(nodes, at, line))'
  BY <1>5, ReadStays
<1>8. at' \in 1 .. Cardinality(ChildrenOf(nodes')) + 1 BY <1>2
<1> QED BY <1>6, <1>7, <1>8 DEF GroupsStand

LEMMA GroupStep ==
    ASSUME TextRead, GroupsStand, CorpusHolds, ReadGroup,
           dropStage' # "refused"
    PROVE  GroupsStand'
<1> DEFINE node == Children[at] C == ChildrenOf(nodes)
           refuses == \/ ~GroupIsSound(node)
                      \/ /\ ~SkippedGroup(node)
                         /\ \E k \in 1 .. FirstGap(node) - 1 :
                              ~RowIsSound(node, RowOf(node, k))
<1>1. PICK line : /\ ReadUpto(nodes, LastLine, line)
                  /\ GroupsAreRead(corpus.groups, corpus.items,
                                   Reached(nodes, at, line))
  BY DEF GroupsStand
<1>2. ~refuses BY DEF ReadGroup, Refuse
<1>3. /\ at <= Len(Children) /\ at' = at + 1
      /\ corpus' = IF SkippedGroup(node) THEN corpus
                   ELSE [corpus EXCEPT !.groups =
                           Installed(corpus.groups, node)]
      /\ UNCHANGED <<tables, nodes>>
  BY <1>2 DEF ReadGroup
<1>4. /\ C \subseteq DOMAIN nodes /\ Listed(nodes)
      /\ Children = Those(nodes, C)
  BY <1>1 DEF ChildrenOf, ReadUpto, Children
<1>5. /\ Cardinality(C) \in Nat /\ Len(Children) = Cardinality(C)
      /\ \A i \in 1 .. Cardinality(C) : Children[i] = nodes[Nth(C, i)]
  BY <1>4, ThoseAreThePlaces
<1>6. at \in 1 .. Cardinality(C) /\ node = nodes[Nth(C, at)]
  BY <1>3, <1>5 DEF GroupsStand
<1>7. GroupsHold(corpus.groups) BY DEF CorpusHolds
<1>8. GroupIsSound(node) BY <1>2
<1>9. ~SkippedGroup(node) =>
        \A k \in 1 .. FirstGap(node) - 1 : RowOf(node, k) # <<>>
  BY <1>2 DEF RowIsSound
<1> DEFINE next == IF SkippedGroup(node) THEN corpus.groups
                   ELSE Installed(corpus.groups, node)
<1>10. LastLine \in Nat BY DEF TextRead
<1>11. (corpus').groups = next /\ (corpus').items = corpus.items
  BY <1>3 DEF CorpusHolds
<1>12. GroupsAreRead(next, corpus.items, Reached(nodes, at + 1, line))
  <2>1. /\ at \in 1 .. Cardinality(ChildrenOf(nodes))
        /\ node = nodes[Nth(ChildrenOf(nodes), at)]
    BY <1>6
  <2> HIDE DEF node, C
  <2> QED BY <1>1, <1>7, <1>8, <1>9, <1>10, <2>1, GroupIsRead
<1> HIDE DEF next, node
<1>13. /\ ReadUpto(nodes', LastLine', line)
       /\ GroupsAreRead((corpus').groups, (corpus').items,
                        Reached(nodes', at', line))
  BY <1>1, <1>3, <1>11, <1>12, TextStays
<1>14. ReadUpto(nodes, LastLine, line)' BY <1>3, <1>13, TextStays
<1>15. GroupsAreRead(corpus.groups, corpus.items, Reached(nodes, at, line))'
  BY <1>3, <1>13, ReadStays
<1>16. at' \in 1 .. Cardinality(ChildrenOf(nodes')) + 1  BY <1>3, <1>5, <1>6
<1> QED BY <1>14, <1>15, <1>16 DEF GroupsStand

\* When the last group is read, the corpus is what the text says.
LEMMA CorpusIsRead ==
    ASSUME TextRead, GroupsStand, at > Len(Children) PROVE CorpusSays
<1> DEFINE C == ChildrenOf(nodes)
<1>0. LastLine \in Nat BY DEF TextRead
<1>1. PICK line : /\ ReadUpto(nodes, LastLine, line)
                  /\ GroupsAreRead(corpus.groups, corpus.items,
                                   Reached(nodes, at, line))
  BY DEF GroupsStand
<1>2. /\ C \subseteq DOMAIN nodes /\ Listed(nodes)
      /\ Children = Those(nodes, C)
  BY <1>1 DEF ChildrenOf, ReadUpto, Children
<1>3. Len(Children) = Cardinality(C) BY <1>2, ThoseAreThePlaces
<1> DEFINE b == Reached(nodes, at, line)
<1>4. /\ b \in 0 .. LastLine
      /\ \A l \in Heads(1, LastLine) : OwnerOf(l) = 0 => l <= b
  <2>1. at \in 1 .. Cardinality(ChildrenOf(nodes)) + 1
          /\ at > Cardinality(ChildrenOf(nodes))
    BY <1>3 DEF GroupsStand
  <2> QED BY <1>0, <1>1, <2>1, ReachedIs
<1>5. GroupsAreRead(corpus.groups, corpus.items, b) BY <1>1
<1> HIDE DEF b, C
<1>6. b \in Nat /\ b <= LastLine BY <1>0, <1>4
<1>7. Heads(1, LastLine) \subseteq 1 .. LastLine BY DEF Heads
<1>8. ASSUME NEW sort
      PROVE  MobsUpto(sort, b)
               = {MobOf(h) : h \in {g \in Heads(1, LastLine) :
                                      IsGroup(g, sort)}}
  <2>1. \A l \in Heads(1, LastLine) : IsGroup(l, sort) => l \in Heads(1, b)
    <3>1. \A l \in Heads(1, LastLine) : l <= b => l \in 1 .. b  BY <1>6, <1>7
    <3>2. \A l \in Heads(1, LastLine) : l \in 1 .. b => l \in Heads(1, b)  BY DEF Heads
    <3> QED BY <1>4, <3>1, <3>2 DEF IsGroup
  <2>2. \A l \in Heads(1, b) : l \in Heads(1, LastLine)
    <3>1. \A l \in 1 .. b : l \in 1 .. LastLine BY <1>0, <1>6
    <3> QED BY <3>1 DEF Heads
  <2> QED BY <2>1, <2>2 DEF MobsUpto
<1>9. ASSUME NEW sort, NEW mob
      PROVE  RowsOfMob(sort, mob) = RowsUpto(sort, mob, b)
  <2> DEFINE G == TableGroups(sort, mob) lists == RowLists(G)
  <2>1. \A l \in b + 1 .. LastLine : l \notin G
    <3>1. G \subseteq {h \in Heads(1, LastLine) : IsGroupOf(h, sort, mob)}
      BY TableGroupsAre
    <3>2. \A l \in G : l \in Heads(1, LastLine) /\ OwnerOf(l) = 0
      BY <3>1 DEF IsGroupOf, IsGroup
    <3>3. \A l \in b + 1 .. LastLine : ~(l <= b) BY <1>0, <1>6
    <3> QED BY <1>4, <3>2, <3>3
  <2> HIDE DEF G
  <2>2. /\ Listed(lists) /\ Len(lists) = LastLine
        /\ DOMAIN lists = 1 .. LastLine
        /\ \A l \in 1 .. LastLine :
             lists[l] = (IF l \in G THEN TableRows(l) ELSE <<>>)
        /\ \A l \in DOMAIN lists : Listed(lists[l])
    BY <1>0, RowListsAre
  <2>3. RowsOfMob(sort, mob) = FlattenSeq(lists)  BY DEF RowsOfMob, RowLists, G
  <2>4. RowsUpto(sort, mob, b) = Joined(lists, b) BY DEF RowsUpto, G
  <2> HIDE DEF lists
  <2>5. FlattenSeq(lists) = Joined(lists, LastLine) BY <2>2, JoinedIs
  <2>6. Joined(lists, LastLine) = Joined(lists, b)
    <3> DEFINE n == LastLine
    <3>1. /\ b \in 0 .. Len(lists) /\ n \in 0 .. Len(lists) /\ b <= n
          /\ \A l \in b + 1 .. n : lists[l] = <<>>
      <4>1. \A l \in b + 1 .. LastLine : l \in 1 .. LastLine  BY <1>0, <1>6
      <4> QED BY <1>0, <1>6, <2>1, <2>2, <4>1
    <3> HIDE DEF n
    <3>2. Joined(lists, n) = Joined(lists, b) BY ONLY <2>2, <3>1, RowsStand
    <3> QED BY <3>2 DEF n
  <2> QED BY <2>3, <2>4, <2>5, <2>6
<1>10. ASSUME NEW sort \in Range(Kinds)
       PROVE  /\ DOMAIN corpus.groups[sort]
                   = {MobOf(h) : h \in {g \in Heads(1, LastLine) :
                                          IsGroup(g, sort)}}
              /\ \A mob \in DOMAIN corpus.groups[sort] :
                   /\ Made(sort, corpus.groups[sort][mob].items)
                        = Meant(sort, corpus.items, RowsOfMob(sort, mob))
                   /\ \A h \in TableGroups(sort, mob) :
                        Asks(sort, corpus.groups[sort][mob], h)
  <2>1. /\ DOMAIN corpus.groups[sort] = MobsUpto(sort, b)
        /\ \A mob \in DOMAIN corpus.groups[sort] :
             /\ Made(sort, corpus.groups[sort][mob].items)
                  = Meant(sort, corpus.items, RowsUpto(sort, mob, b))
             /\ \A h \in TableGroups(sort, mob) :
                  h <= b => Asks(sort, corpus.groups[sort][mob], h)
    BY <1>5 DEF GroupsAreRead
  <2>2. \A mob : \A h \in TableGroups(sort, mob) : h <= b
    <3>1. \A mob : \A h \in TableGroups(sort, mob) :
            h \in Heads(1, LastLine) /\ OwnerOf(h) = 0
      BY TableGroupsAre DEF IsGroupOf, IsGroup
    <3> QED BY <1>4, <3>1
  <2> QED BY <1>8, <1>9, <2>1, <2>2
<1> QED BY <1>10 DEF CorpusSays


LEMMA GroupsStart == ASSUME DropsInit PROVE GroupsInv
  BY DEF DropsInit, DropsStart, GroupsInv

LEMMA GroupsStep ==
    ASSUME TextInv, TextInv', RollsInv, GroupsInv, [DropsNext]_dropVars
    PROVE  GroupsInv'
<1>1. tables' = tables
  BY DEF DropsNext, dropVars, ReadItems, ReadCommonLine, EndCommon,
         SkipLine, CloseGroup, OpenGroup, ReadList, ReadRow, EndLines,
         ReadGroup, EndGroups, CompileRanks, CompileKind, BuildDrops, Refuse
<1>2. DOMAIN corpus = {"items", "common", "groups"}  BY DEF RollsInv, CorpusHolds
<1> DEFINE reading == {"items", "common", "lines"}
<1>3. CASE /\ dropStage \in reading /\ dropStage' \in reading
           /\ (corpus').groups = corpus.groups
  BY <1>3 DEF GroupsInv
<1>4. CASE dropStage' = "refused" BY <1>4 DEF GroupsInv
<1>18. CASE /\ dropStage \in {"ranks", "kinds", "installed"}
            /\ dropStage' \in {"ranks", "kinds", "installed"}
            /\ corpus' = corpus
  <2>1. CorpusSays' BY <1>1, <1>18, ReadStays DEF GroupsInv
  <2> QED BY <1>18, <2>1 DEF GroupsInv
<1>5. CASE /\ dropStage = "lines" /\ dropStage' = "groups" /\ at' = 1
           /\ nodes' = nodes /\ corpus' = corpus
  <2>1. TextRead' BY <1>5 DEF TextInv
  <2>2. TextRead
    <3>1. LastLine' = LastLine
            /\ \A ns, m, line : ReadUpto(ns, m, line)' <=> ReadUpto(ns, m, line)
      BY <1>1, TextStays
    <3>2. LastLine' \in Nat /\ \E line : ReadUpto(nodes, LastLine, line)'
      BY <2>1 DEF TextRead
    <3>3. PICK line : ReadUpto(nodes, LastLine, line)' BY <3>2
    <3>4. ReadUpto(nodes', LastLine', line) BY <3>1, <3>3
    <3>5. ReadUpto(nodes, LastLine, line) BY <1>5, <3>1, <3>4
    <3> QED BY <3>1, <3>2, <3>5 DEF TextRead
  <2>3. GroupsStand'  BY <1>1, <1>5, <2>1, <2>2, GroupsBegin DEF GroupsInv
  <2> QED BY <1>5, <2>3 DEF GroupsInv
<1>6. CASE UNCHANGED dropVars
  <2>1. UNCHANGED <<dropStage, at, nodes, corpus>> BY <1>6 DEF dropVars
  <2>2. GroupsStand => GroupsStand'
    <3> SUFFICES ASSUME GroupsStand PROVE GroupsStand' OBVIOUS
    <3>1. PICK line : /\ ReadUpto(nodes, LastLine, line)
                      /\ GroupsAreRead(corpus.groups, corpus.items,
                                       Reached(nodes, at, line))
      BY DEF GroupsStand
    <3>2. /\ ReadUpto(nodes', LastLine', line)
          /\ GroupsAreRead((corpus').groups, (corpus').items,
                           Reached(nodes', at', line))
      BY <1>1, <2>1, <3>1, TextStays
    <3>3. ReadUpto(nodes, LastLine, line)' BY <1>1, <3>2, TextStays
    <3>4. GroupsAreRead(corpus.groups, corpus.items,
                        Reached(nodes, at, line))'
      BY <1>1, <3>2, ReadStays
    <3>5. at' \in 1 .. Cardinality(ChildrenOf(nodes')) + 1  BY <2>1 DEF GroupsStand
    <3> QED BY <3>3, <3>4, <3>5 DEF GroupsStand
  <2>3. CorpusSays => CorpusSays' BY <1>1, <2>1, ReadStays
  <2> QED BY <2>1, <2>2, <2>3 DEF GroupsInv
<1>7. CASE ReadItems
  <2>1. (corpus').groups = corpus.groups  BY <1>2, <1>7 DEF ReadItems, Refuse
  <2> QED BY <1>3, <1>4, <1>7, <2>1 DEF ReadItems, Refuse, Arrives
<1>8. CASE ReadCommonLine
  <2>1. (corpus').groups = corpus.groups  BY <1>2, <1>8 DEF ReadCommonLine, Refuse
  <2> QED BY <1>3, <1>4, <1>8, <2>1 DEF ReadCommonLine, Refuse
<1>9. CASE EndCommon BY <1>3, <1>9 DEF EndCommon, Arrives
<1>10. CASE SkipLine \/ OpenGroup \/ ReadList \/ ReadRow
  BY <1>3, <1>4, <1>10 DEF SkipLine, OpenGroup, ReadList, ReadRow, Refuse,
                           Loading
<1>11. CASE CloseGroup  BY <1>3, <1>5, <1>11 DEF CloseGroup, Loading, Arrives
<1>12. CASE EndLines BY <1>5, <1>12 DEF EndLines, Arrives
<1>13. CASE ReadGroup
  <2>1. dropStage = "groups" /\ dropStage' \in {"groups", "refused"}
    BY <1>13 DEF ReadGroup, Refuse
  <2>2. CASE dropStage' = "refused" BY <1>4, <2>2
  <2>3. CASE dropStage' = "groups"
    <3>1. TextRead /\ GroupsStand /\ CorpusHolds
      BY <2>1 DEF TextInv, GroupsInv, RollsInv
    <3>2. GroupsStand' BY <1>13, <2>3, <3>1, GroupStep
    <3> QED BY <2>3, <3>2 DEF GroupsInv
  <2> QED BY <2>1, <2>2, <2>3
<1>14. CASE EndGroups
  <2>1. /\ dropStage = "groups" /\ dropStage' = "ranks"
        /\ at > Len(Children) /\ corpus' = corpus
    BY <1>14 DEF EndGroups, Arrives
  <2>2. CorpusSays BY <2>1, CorpusIsRead DEF TextInv, GroupsInv
  <2>3. CorpusSays' BY <1>1, <2>1, <2>2, ReadStays
  <2> QED BY <2>1, <2>3 DEF GroupsInv
<1>15. CASE CompileRanks  BY <1>4, <1>15, <1>18 DEF CompileRanks, Arrives, Refuse
<1>16. CASE CompileKind BY <1>4, <1>16, <1>18 DEF CompileKind, Refuse
<1>17. CASE BuildDrops  BY <1>4, <1>17, <1>18 DEF BuildDrops, Arrives, Refuse
<1> QED  BY <1>6, <1>7, <1>8, <1>9, <1>10, <1>11, <1>12, <1>13, <1>14, <1>15, <1>16,
     <1>17
  DEF DropsNext

-----------------------------------------------------------------------------
(* The common rows, one of each line that has one.                           *)

LineRow(l, r) == CommonRow(Block(tables.common[l], r))
Matches(rows, lines, r) ==
    \E line \in [DOMAIN rows -> lines] :
      /\ \A i, j \in DOMAIN rows : line[i] = line[j] => i = j
      /\ \A l \in lines : \E i \in DOMAIN rows : line[i] = l
      /\ \A i \in DOMAIN rows : rows[i] = LineRow(line[i], r)
Above(r, n) == {l \in CommonLines(r) : l < n}
CommonInv ==
    /\ dropStage = "items" => \A r \in Ranks : corpus.common[r] = <<>>
    /\ dropStage = "common" =>
         /\ at \in Nat \ {0}
         /\ \A r \in Ranks : Matches(corpus.common[r], Above(r, at), r)
    /\ dropStage \notin {"items", "common", "refused"} =>
         \A r \in Ranks : CommonIsRead(r)

LEMMA ReadIsMatched ==
    ASSUME NEW r
    PROVE  CommonIsRead(r) <=> Matches(corpus.common[r], CommonLines(r), r)
  BY DEF CommonIsRead, Matches, LineRow

\* A row is put in among the others, and none is lost.
LEMMA InsertMatches ==
    ASSUME NEW r, NEW rows, Listed(rows), NEW lines, NEW l, l \notin lines,
           Matches(rows, lines, r)
    PROVE  Matches(Insert(rows, LineRow(l, r)), lines \cup {l}, r)
<1> DEFINE row == LineRow(l, r)
           P == {i \in DOMAIN rows : rows[i].to <= row.to}
           Q == {i \in DOMAIN rows : rows[i].to > row.to}
           a == Cardinality(P)
           b == Cardinality(Q)
           A == Those(rows, P)
           B == Those(rows, Q)
           next == Insert(rows, row)
<1>1. PICK line \in [DOMAIN rows -> lines] :
        /\ \A i, j \in DOMAIN rows : line[i] = line[j] => i = j
        /\ \A m \in lines : \E i \in DOMAIN rows : line[i] = m
        /\ \A i \in DOMAIN rows : rows[i] = LineRow(line[i], r)
  BY DEF Matches
<1>2. \A m : LineRow(m, r).to \in Int  BY NumberIsInt DEF LineRow, CommonRow, Block
<1>3. next = (A \o <<row>>) \o B BY DEF Insert
<1> HIDE DEF row
<1>4. /\ P \in SUBSET DOMAIN rows /\ Q \in SUBSET DOMAIN rows
      /\ P \cap Q = {} /\ P \cup Q = DOMAIN rows
  <2>1. row.to \in Int BY <1>2 DEF row
  <2>2. \A i \in DOMAIN rows : rows[i].to \in Int BY <1>1, <1>2
  <2>3. \A i \in DOMAIN rows : rows[i].to <= row.to <=> ~(rows[i].to > row.to)
    <3> TAKE i \in DOMAIN rows
    <3> DEFINE x == rows[i].to y == row.to
    <3>1. x \in Int /\ y \in Int BY <2>1, <2>2
    <3> HIDE DEF x, y
    <3>2. x <= y <=> ~(x > y) BY <3>1
    <3> QED BY <3>2 DEF x, y
  <2> QED BY ONLY <2>3
<1> HIDE DEF P, Q, next
<1>5. /\ P \in SUBSET Nat /\ IsFiniteSet(P) /\ a \in Nat
      /\ Listed(A) /\ Len(A) = a
      /\ \A i \in 1 .. a : Nth(P, i) \in P /\ A[i] = rows[Nth(P, i)]
  BY <1>4, ThoseAreThePlaces
<1>6. /\ Q \in SUBSET Nat /\ IsFiniteSet(Q) /\ b \in Nat
      /\ Listed(B) /\ Len(B) = b
      /\ \A i \in 1 .. b : Nth(Q, i) \in Q /\ B[i] = rows[Nth(Q, i)]
  BY <1>4, ThoseAreThePlaces
<1>7. ASSUME NEW S \in SUBSET Nat, IsFiniteSet(S)
      PROVE  /\ \A p \in S : \E i \in 1 .. Cardinality(S) : Nth(S, i) = p
             /\ \A i, j \in 1 .. Cardinality(S) :
                  Nth(S, i) = Nth(S, j) => i = j
  <2> DEFINE c == Cardinality(S)
  <2>1. /\ c \in Nat /\ \A i \in 1 .. c : Nth(S, i) \in S
        /\ \A p \in S : \E i \in 1 .. c : Nth(S, i) = p
        /\ \A i, j \in 1 .. c : i < j => Nth(S, i) < Nth(S, j)
    BY <1>7, NthInOrder
  <2> HIDE DEF c
  <2>2. \A i \in 1 .. c : Nth(S, i) \in Nat BY <2>1
  <2>3. ASSUME NEW i \in 1 .. c, NEW j \in 1 .. c, Nth(S, i) = Nth(S, j)
        PROVE  i = j
    <3>1. i < j \/ j < i \/ i = j BY <2>1
    <3> QED BY <2>1, <2>2, <2>3, <3>1
  <2> QED BY <2>1, <2>3 DEF c
<1>8. /\ \A p \in P : \E i \in 1 .. a : Nth(P, i) = p
      /\ \A i, j \in 1 .. a : Nth(P, i) = Nth(P, j) => i = j
  BY <1>5, <1>7
<1>9. /\ \A p \in Q : \E i \in 1 .. b : Nth(Q, i) = p
      /\ \A i, j \in 1 .. b : Nth(Q, i) = Nth(Q, j) => i = j
  BY <1>6, <1>7
<1> HIDE DEF a, b, A, B
<1>10. /\ DOMAIN next = 1 .. a + 1 + b /\ next[a + 1] = row
       /\ \A i \in 1 .. a : next[i] = A[i]
       /\ \A i \in 1 .. b : next[a + 1 + i] = B[i]
  <2> DEFINE one == <<row>> front == A \o one
  <2>1. Listed(one) /\ Len(one) = 1 /\ one[1] = row
    <3>1. one \in Seq({row}) OBVIOUS
    <3> QED BY <3>1 DEF Listed
  <2>2. next = front \o B BY <1>3
  <2> HIDE DEF one
  <2>3. /\ Listed(front) /\ Len(front) = a + 1
        /\ \A i \in 1 .. a : front[i] = A[i]
        /\ \A i \in 1 .. 1 : front[a + i] = one[i]
    <3>1. /\ Listed(A \o one) /\ Len(A \o one) = Len(A) + Len(one)
          /\ \A i \in 1 .. Len(A) : (A \o one)[i] = A[i]
          /\ \A i \in 1 .. Len(one) : (A \o one)[Len(A) + i] = one[i]
      <4>1. Listed(A) /\ Listed(one) BY <1>5, <2>1
      <4> QED BY ONLY <4>1, JoinedIsListed
    <3> QED BY <1>5, <2>1, <3>1
  <2> HIDE DEF front
  <2>4. /\ DOMAIN next = 1 .. a + 1 + b
        /\ \A i \in 1 .. a + 1 : next[i] = front[i]
        /\ \A i \in 1 .. b : next[a + 1 + i] = B[i]
    BY <1>6, <2>2, <2>3, JoinedIsListed
  <2>5. \A i \in 1 .. a : i \in 1 .. a + 1 BY <1>5
  <2>6. a + 1 \in 1 .. a + 1 /\ 1 \in 1 .. 1 BY <1>5
  <2> QED BY <2>1, <2>3, <2>4, <2>5, <2>6
<1>11. \A k \in 1 .. a + 1 + b :
         k \in 1 .. a \/ k = a + 1 \/ \E i \in 1 .. b : k = a + 1 + i
  <2> TAKE k \in 1 .. a + 1 + b
  <2>1. k > a + 1 => k - (a + 1) \in 1 .. b /\ k = a + 1 + (k - (a + 1))  BY <1>5, <1>6
  <2>2. k <= a => k \in 1 .. a BY <1>5, <1>6
  <2> QED BY <1>5, <1>6, <2>1, <2>2
<1> DEFINE go == [k \in 1 .. a + 1 + b |->
                    IF k <= a THEN line[Nth(P, k)]
                    ELSE IF k = a + 1 THEN l ELSE line[Nth(Q, k - (a + 1))]]
<1>12. /\ \A i \in 1 .. a : go[i] = line[Nth(P, i)] /\ i \in DOMAIN next
       /\ go[a + 1] = l /\ a + 1 \in DOMAIN next
       /\ \A i \in 1 .. b : /\ go[a + 1 + i] = line[Nth(Q, i)]
                            /\ a + 1 + i \in DOMAIN next
  <2>1. \A i \in 1 .. a : i \in 1 .. a + 1 + b /\ i <= a BY <1>5, <1>6
  <2>2. a + 1 \in 1 .. a + 1 + b /\ ~(a + 1 <= a) BY <1>5, <1>6
  <2>3. \A i \in 1 .. b : /\ a + 1 + i \in 1 .. a + 1 + b
                          /\ ~(a + 1 + i <= a) /\ a + 1 + i # a + 1
                          /\ (a + 1 + i) - (a + 1) = i
    BY <1>5, <1>6
  <2> QED BY <1>10, <2>1, <2>2, <2>3
<1>13. DOMAIN go = DOMAIN next /\ go = [k \in DOMAIN next |-> go[k]]  BY <1>10
<1> HIDE DEF go
<1>14. ASSUME NEW k \in DOMAIN next
       PROVE  go[k] \in lines \cup {l} /\ next[k] = LineRow(go[k], r)
  <2>1. CASE k \in 1 .. a
    <3>1. Nth(P, k) \in DOMAIN rows BY <1>4, <1>5, <2>1
    <3> QED BY <1>1, <1>5, <1>10, <1>12, <2>1, <3>1
  <2>2. CASE k = a + 1 BY <1>10, <1>12, <2>2 DEF row
  <2>3. ASSUME NEW i \in 1 .. b, k = a + 1 + i
        PROVE  go[k] \in lines \cup {l} /\ next[k] = LineRow(go[k], r)
    <3>1. Nth(Q, i) \in DOMAIN rows BY <1>4, <1>6
    <3>2. next[k] = rows[Nth(Q, i)] /\ go[k] = line[Nth(Q, i)]
      BY <1>6, <1>10, <1>12, <2>3
    <3> QED BY <1>1, <3>1, <3>2
  <2> QED BY <1>10, <1>11, <2>1, <2>2, <2>3
<1>15. ASSUME NEW i \in 1 .. a, NEW j \in 1 .. b
       PROVE  line[Nth(P, i)] # line[Nth(Q, j)]
  BY <1>1, <1>4, <1>5, <1>6
<1>16. /\ \A i \in 1 .. a : line[Nth(P, i)] # l
       /\ \A i \in 1 .. b : line[Nth(Q, i)] # l
  BY <1>1, <1>4, <1>5, <1>6
<1>17. /\ \A i, j \in 1 .. a : line[Nth(P, i)] = line[Nth(P, j)] => i = j
       /\ \A i, j \in 1 .. b : line[Nth(Q, i)] = line[Nth(Q, j)] => i = j
  <2>1. /\ \A i \in 1 .. a : Nth(P, i) \in DOMAIN rows
        /\ \A i \in 1 .. b : Nth(Q, i) \in DOMAIN rows
    BY <1>4, <1>5, <1>6
  <2>2. /\ \A i, j \in 1 .. a :
             line[Nth(P, i)] = line[Nth(P, j)] => Nth(P, i) = Nth(P, j)
        /\ \A i, j \in 1 .. b :
             line[Nth(Q, i)] = line[Nth(Q, j)] => Nth(Q, i) = Nth(Q, j)
    BY <1>1, <2>1
  <2> QED BY <1>8, <1>9, <2>2
<1>18. ASSUME NEW k \in DOMAIN next, NEW m \in DOMAIN next, go[k] = go[m]
       PROVE  k = m
  <2>1. k \in 1 .. a + 1 + b /\ m \in 1 .. a + 1 + b BY <1>10
  <2>2. CASE k \in 1 .. a  BY <1>11, <1>12, <1>15, <1>16, <1>17, <1>18, <2>1, <2>2
  <2>3. CASE k = a + 1
    <3>1. go[m] = l BY <1>12, <1>18, <2>3
    <3>2. m \notin 1 .. a BY <1>12, <1>16, <3>1
    <3>3. ~\E i \in 1 .. b : m = a + 1 + i BY <1>12, <1>16, <3>1
    <3> QED BY <1>11, <2>1, <2>3, <3>2, <3>3
  <2>4. ASSUME NEW i \in 1 .. b, k = a + 1 + i PROVE k = m
    <3>1. go[k] = line[Nth(Q, i)] BY <1>12, <2>4
    <3>2. m \notin 1 .. a BY <1>12, <1>15, <1>18, <3>1
    <3>3. m # a + 1 BY <1>12, <1>16, <1>18, <3>1
    <3>4. PICK j \in 1 .. b : m = a + 1 + j BY <1>11, <2>1, <3>2, <3>3
    <3>5. go[m] = line[Nth(Q, j)] BY <1>12, <3>4
    <3>6. i = j BY <1>17, <1>18, <3>1, <3>5
    <3> QED BY <2>4, <3>4, <3>6
  <2> QED BY <1>11, <2>1, <2>2, <2>3, <2>4
<1>19. ASSUME NEW m \in lines \cup {l}
       PROVE  \E k \in DOMAIN next : go[k] = m
  <2>1. CASE m = l BY <1>12, <2>1
  <2>2. CASE m \in lines
    <3>1. PICK p \in DOMAIN rows : line[p] = m BY <1>1, <2>2
    <3>2. CASE p \in P
      <4>1. PICK i \in 1 .. a : Nth(P, i) = p BY <1>8, <3>2
      <4> QED BY <1>12, <3>1, <4>1
    <3>3. CASE p \in Q
      <4>1. PICK i \in 1 .. b : Nth(Q, i) = p BY <1>9, <3>3
      <4> QED BY <1>12, <3>1, <4>1
    <3> QED BY <1>4, <3>2, <3>3
  <2> QED BY <2>1, <2>2
<1>20. go \in [DOMAIN next -> lines \cup {l}] BY <1>13, <1>14
<1> HIDE DEF go
<1>21. Matches(next, lines \cup {l}, r)  BY <1>14, <1>18, <1>19, <1>20 DEF Matches
<1> QED BY <1>21 DEF next, row

LEMMA CommonStands ==
    ASSUME tables' = tables, (corpus').items = corpus.items
    PROVE  /\ \A rows, lines, r : Matches(rows, lines, r)' <=> Matches(rows, lines, r)
           /\ \A r : CommonLines(r)' = CommonLines(r)
           /\ \A r, n : Above(r, n)' = Above(r, n)
           /\ (corpus').common = corpus.common =>
                \A r : CommonIsRead(r)' <=> CommonIsRead(r)
<1>1. \A b : CommonRow(b)' = CommonRow(b) BY DEF CommonRow
<1>2. \A l, r : LineRow(l, r)' = LineRow(l, r) BY <1>1 DEF LineRow
<1>3. \A rows, lines, r : Matches(rows, lines, r)' <=> Matches(rows, lines, r)
  BY <1>2 DEF Matches
<1>4. \A r : CommonLines(r)' = CommonLines(r) BY DEF CommonLines
<1>5. \A r, n : Above(r, n)' = Above(r, n) BY <1>4 DEF Above
<1>6. ASSUME (corpus').common = corpus.common, NEW r
      PROVE  CommonIsRead(r)' <=> CommonIsRead(r)
  BY <1>1, <1>4, <1>6 DEF CommonIsRead
<1> QED BY <1>3, <1>4, <1>5, <1>6

LEMMA CommonLineMatches ==
    ASSUME TextInv, RollsInv, CommonInv, ReadCommonLine,
           dropStage' # "refused"
    PROVE  CommonInv'
<1> DEFINE line == tables.common[at]
           blocks == [r \in Ranks |-> Block(line, r)]
           made(r) == IF line = <<>> \/ blocks[r].from = 0
                      THEN corpus.common[r]
                      ELSE Insert(corpus.common[r], CommonRow(blocks[r]))
<1>1. /\ at' = at + 1 /\ at <= Len(tables.common) /\ dropStage = "common"
      /\ corpus' = [corpus EXCEPT !.common = [r \in Ranks |-> made(r)]]
      /\ UNCHANGED <<tables, dropStage>>
  BY DEF ReadCommonLine, Refuse
<1>2. /\ (corpus').items = corpus.items
      /\ (corpus').common = [r \in Ranks |-> made(r)]
  <2> HIDE DEF made
  <2>1. DOMAIN corpus = {"items", "common", "groups"}  BY DEF RollsInv, CorpusHolds
  <2> QED BY <1>1, <2>1
<1>3. at \in Nat \ {0} /\ at \in DOMAIN tables.common
  <2>1. tables.common \in Seq(Range(tables.common)) BY DEF TextInv
  <2>2. at \in Nat \ {0} BY <1>1 DEF CommonInv
  <2> QED BY <1>1, <2>1, <2>2
<1>4. ASSUME NEW r \in Ranks PROVE Matches(made(r), Above(r, at + 1), r)
  <2> DEFINE rows == corpus.common[r] lines == Above(r, at)
  <2>1. Matches(rows, lines, r) BY <1>1 DEF CommonInv
  <2>2. Listed(rows) BY DEF RollsInv, CorpusHolds, Shaped
  <2>3. blocks[r] = Block(line, r) OBVIOUS
  <2>4. \A l \in CommonLines(r) : l \in Nat
    <3>1. tables.common \in Seq(Range(tables.common)) BY DEF TextInv
    <3> QED BY <3>1 DEF CommonLines
  <2>5. at \in CommonLines(r) <=> ~(line = <<>> \/ blocks[r].from = 0)
    BY <1>3, <2>3 DEF CommonLines
  <2>6. at \notin lines BY <1>3 DEF Above
  <2>7. LineRow(at, r) = CommonRow(blocks[r]) BY <2>3 DEF LineRow
  <2>8. Above(r, at + 1) = lines \cup (IF at \in CommonLines(r) THEN {at} ELSE {})
    BY <1>3, <2>4 DEF Above
  <2> HIDE DEF rows, lines, blocks, line
  <2>9. CASE at \in CommonLines(r)
    <3>1. Matches(Insert(rows, LineRow(at, r)), lines \cup {at}, r)
      BY <2>1, <2>2, <2>6, InsertMatches
    <3> QED BY <2>5, <2>7, <2>8, <2>9, <3>1 DEF rows
  <2>10. CASE at \notin CommonLines(r)  BY <2>1, <2>5, <2>8, <2>10 DEF rows
  <2> QED BY <2>9, <2>10
<1> HIDE DEF made
<1>5. \A r \in Ranks : Matches((corpus').common[r], Above(r, at'), r)
  BY <1>1, <1>2, <1>4
<1>6. \A r \in Ranks : Matches(corpus.common[r], Above(r, at), r)'
  BY <1>1, <1>2, <1>5, CommonStands
<1> QED BY <1>1, <1>3, <1>6 DEF CommonInv

LEMMA CommonBegins == ASSUME DropsInit PROVE CommonInv
  BY DEF DropsInit, DropsStart, CommonInv

LEMMA CommonStep ==
    ASSUME TextInv, RollsInv, CommonInv, [DropsNext]_dropVars
    PROVE  CommonInv'
<1> DEFINE read == dropStage \notin {"items", "common", "refused"}
<1>1. DOMAIN corpus = {"items", "common", "groups"}  BY DEF RollsInv, CorpusHolds
<1>2. CASE /\ tables' = tables /\ (corpus').items = corpus.items
           /\ (corpus').common = corpus.common /\ read /\ read'
  <2>1. \A r : CommonIsRead(r)' <=> CommonIsRead(r) BY <1>2, CommonStands
  <2> QED BY <1>2, <2>1 DEF CommonInv
<1>3. CASE dropStage' = "refused" BY <1>3 DEF CommonInv
<1>4. CASE ReadItems /\ dropStage' # "refused"
  <2>1. /\ dropStage = "items" /\ dropStage' = "common" /\ at' = 1
        /\ (corpus').common = corpus.common
    BY <1>1, <1>4 DEF ReadItems, Refuse, Arrives
  <2>2. \A r \in Ranks : (corpus').common[r] = <<>> BY <2>1 DEF CommonInv
  <2>3. ASSUME NEW r \in Ranks PROVE Above(r, 1)' = {}
    <3>1. tables' = tables BY <1>4 DEF ReadItems, Refuse
    <3>2. tables.common \in Seq(Range(tables.common)) BY DEF TextInv
    <3>3. \A l \in DOMAIN (tables').common : ~(l < 1) BY <3>1, <3>2
    <3> QED BY <3>3 DEF Above, CommonLines
  <2>4. ASSUME NEW r \in Ranks
        PROVE  Matches(corpus.common[r], Above(r, at), r)'
    <3>1. (corpus').common[r] = <<>> /\ Above(r, at)' = {}
      BY <2>1, <2>2, <2>3 DEF Above
    <3>2. DOMAIN <<>> = {} OBVIOUS
    <3>3. [x \in {} |-> x] \in [{} -> {}] OBVIOUS
    <3> QED BY <3>1, <3>2, <3>3 DEF Matches
  <2> QED BY <2>1, <2>4 DEF CommonInv
<1>5. CASE ReadCommonLine /\ dropStage' # "refused"  BY <1>5, CommonLineMatches
<1>6. CASE EndCommon
  <2>1. /\ dropStage = "common" /\ at > Len(tables.common)
        /\ dropStage' = "lines" /\ tables' = tables /\ corpus' = corpus
    BY <1>6 DEF EndCommon, Arrives
  <2>2. ASSUME NEW r \in Ranks PROVE CommonIsRead(r)
    <3>1. tables.common \in Seq(Range(tables.common)) BY DEF TextInv
    <3>2. \A l \in DOMAIN tables.common : l < at  BY <2>1, <3>1 DEF CommonInv
    <3>3. Above(r, at) = CommonLines(r) BY <3>2 DEF Above, CommonLines
    <3>4. Matches(corpus.common[r], CommonLines(r), r)  BY <2>1, <3>3 DEF CommonInv
    <3> QED BY <3>4, ReadIsMatched
  <2>3. \A r \in Ranks : CommonIsRead(r)' BY <2>1, <2>2, CommonStands
  <2> QED BY <2>1, <2>3 DEF CommonInv
<1>7. CASE SkipLine \/ CloseGroup \/ OpenGroup \/ ReadList \/ ReadRow \/ EndLines
  BY <1>2, <1>3, <1>7 DEF SkipLine, CloseGroup, OpenGroup, ReadList, ReadRow,
     EndLines, Refuse, Loading, Arrives
<1>8. CASE ReadGroup
  <2>1. CASE dropStage' = "refused" BY <1>3, <2>1
  <2>2. CASE dropStage' # "refused"
    <3> DEFINE node == Children[at] next == Installed(corpus.groups, node)
    <3>1. /\ dropStage = "groups" /\ dropStage' = "groups" /\ tables' = tables
          /\ corpus' = IF SkippedGroup(node) THEN corpus
                       ELSE [corpus EXCEPT !.groups = next]
      BY <1>8, <2>2 DEF ReadGroup, Refuse
    <3> HIDE DEF next, node
    <3>2. (corpus').items = corpus.items /\ (corpus').common = corpus.common
      BY <1>1, <3>1
    <3> QED BY <1>2, <3>1, <3>2
  <2> QED BY <2>1, <2>2
<1>9. CASE EndGroups \/ CompileRanks \/ CompileKind \/ BuildDrops
  <2>1. CASE dropStage' = "refused" BY <1>3, <2>1
  <2>2. CASE dropStage' # "refused"
    <3>1. /\ tables' = tables /\ corpus' = corpus
          /\ dropStage \in {"groups", "ranks", "kinds"}
          /\ dropStage' \in {"ranks", "kinds", "installed"}
      BY <1>9, <2>2 DEF EndGroups, CompileRanks, CompileKind, BuildDrops,
         Refuse, Arrives
    <3> QED BY <1>2, <3>1
  <2> QED BY <2>1, <2>2
<1>10. CASE UNCHANGED dropVars
  <2>1. UNCHANGED <<tables, dropStage, at, corpus>> BY <1>10 DEF dropVars
  <2>2. CASE read BY <1>2, <2>1, <2>2
  <2>3. CASE dropStage \in {"items", "refused"}  BY <2>1, <2>3 DEF CommonInv
  <2>4. CASE dropStage = "common"
    <3>1. \A r \in Ranks : Matches((corpus').common[r], Above(r, at'), r)
      BY <2>1, <2>4 DEF CommonInv
    <3>2. \A r \in Ranks : Matches(corpus.common[r], Above(r, at), r)'
      BY <2>1, <3>1, CommonStands
    <3> QED BY <2>1, <2>4, <3>2 DEF CommonInv
  <2> QED BY <2>2, <2>3, <2>4
<1> QED  BY <1>3, <1>4, <1>5, <1>6, <1>7, <1>8, <1>9, <1>10 DEF DropsNext

\* What is installed is what the original tables say: every row of a rank or of
\* a selected monster whose item is registered, as it was, and what a kill group
\* gives for a roll is the first of these rows that the roll reaches.
THEOREM DropsAreTheTablesCorrect == DropsSpec => []DropsAreTheTables
<1> DEFINE Inv == TextInv /\ RollsInv /\ GroupsInv /\ CommonInv
<1>1. DropsInit => Inv BY TextBegins, RollsBegin, GroupsStart, CommonBegins
<1>2. Inv /\ [DropsNext]_dropVars => Inv'
  BY TextStep, RollsStep, GroupsStep, CommonStep
<1>3. Inv => DropsAreTheTables
  <2> SUFFICES ASSUME Inv PROVE DropsAreTheTables OBVIOUS
  <2>1. dropStage \in {"ranks", "installed"} =>
          \A r \in Ranks : CommonIsRead(r)
    BY DEF CommonInv
  <2>2. RollsAreOriginal BY <2>1, RollsAreShown
  <2>3. ASSUME dropStage \in {"ranks", "installed"},
               NEW sort \in Range(Kinds)
        PROVE  /\ DOMAIN corpus.groups[sort]
                    = {MobOf(h) : h \in {g \in Heads(1, LastLine) :
                                           IsGroup(g, sort)}}
               /\ \A mob \in DOMAIN corpus.groups[sort] :
                    LET g == corpus.groups[sort][mob]
                        rows == RowsOfMob(sort, mob)
                    IN /\ [i \in DOMAIN g.items |-> ItemSays(sort, g.items[i])]
                            = [i \in DOMAIN rows |->
                                 RowSays(sort, corpus.items, rows[i])]
                       /\ \A h \in TableGroups(sort, mob) : Asks(sort, g, h)
                       /\ sort = "kill" => AddsUp(g.items)
    <3>1. CorpusSays BY <2>3 DEF GroupsInv
    <3>2. GroupsHold(corpus.groups) BY DEF RollsInv, CorpusHolds
    <3> QED BY <3>1, <3>2 DEF CorpusSays, GroupsHold, Made, Meant
  <2>4. CorpusIsTheText BY <2>1, <2>3 DEF CorpusIsTheText
  <2> QED BY <2>2, <2>4 DEF DropsAreTheTables
<1> QED BY <1>1, <1>2, <1>3, PTL DEF DropsSpec

HIDE DropsAssumption
=============================================================================
