------------------------------ MODULE Nodes_proofs ------------------------------
(***************************************************************************)
(* What holds of the parts side by side: the invariant of the perception   *)
(* nodes and their readers, and the theorems about Nodes.                  *)
(***************************************************************************)
EXTENDS NodeParts_proofs

(***************************************************************************)
(* Perception.                                                             *)
(***************************************************************************)

PNodes == {"vision", "segment", "grasp"}

\* What the nodes keep: results they made, in epochs that were, from sources that
\* were there.
ResultsInv(p) ==
  /\ nodeEpoch \in [PNodes -> 0..Revocations[p]]
  /\ nodeRun \in [PNodes -> [pc : {"idle", "reading", "inferring", "inferred", "checked"},
                            epoch : 0..Revocations[p], source : Perceive(p)!Ids]]
  /\ DOMAIN cache = PNodes /\ DOMAIN made = PNodes
  /\ latest \in [PNodes -> Perceive(p)!Ids]
  /\ \A n \in PNodes :
       /\ cache[n] \in Seq(Perceive(p)!Entries) /\ Len(cache[n]) <= ResultsKept
       /\ made[n] \in Seq(Perceive(p)!Ids) /\ Len(made[n]) <= ResultsMade[p]
       /\ \A i \in 1..Len(cache[n]) :
            cache[n][i].id \in 1..Len(made[n]) /\ cache[n][i].epoch <= nodeEpoch[n]
       /\ nodeRun[n].epoch <= nodeEpoch[n] /\ latest[n] <= Len(made[n])
       /\ nodeRun[n].pc # "idle" => Len(made[n]) < ResultsMade[p]
  /\ nodeRun["grasp"].pc # "idle" => nodeRun["grasp"].source \in 1..Len(made["segment"])
  /\ \A i \in 1..Len(made["grasp"]) : made["grasp"][i] \in 1..Len(made["segment"])

\* What is no longer valid, or no longer the latest, does not come back.
Lasting(p) ==
  \A n \in PNodes :
    /\ Len(made[n]) <= Len(made'[n])
    /\ \A id \in 1..Len(made[n]) :
         /\ made'[n][id] = made[n][id]
         /\ Perceive(p)!Valid(n, id)' => Perceive(p)!Valid(n, id)
         /\ latest'[n] = id => latest[n] = id

\* No node has made a result.
LEMMA ResultsInit == \A p \in Perceptions : Perceive(p)!Init => ResultsInv(p)
<1>1. /\ \A p \in Perceptions : ResultsMade[p] \in Nat /\ Revocations[p] \in Nat
      /\ ResultsKept \in Nat \ {0}
  BY NodesAssumption
<1> QED
  BY <1>1 DEF Perceive!Init, ResultsInv, Perceive!Nodes, Perceive!Ids, Perceive!NoRun, PNodes

\* Nothing is kept or forgotten.
LEMMA ResultsSame ==
  ASSUME NEW p \in Perceptions, ResultsInv(p),
         UNCHANGED <<nodeEpoch, nodeRun, cache, latest, made>>
  PROVE  ResultsInv(p)' /\ Lasting(p)
BY DEF ResultsInv, Lasting, Perceive!Valid

Runs(p) ==
  [pc : {"idle", "reading", "inferring", "inferred", "checked"},
   epoch : 0..Revocations[p], source : Perceive(p)!Ids]

\* An action of a node goes on, or ends without a result.
LEMMA RunGoesOn ==
  ASSUME NEW p \in Perceptions, ResultsInv(p), NEW n \in PNodes, NEW r,
         \/ r = Perceive(p)!NoRun
         \/ nodeRun[n].pc # "idle"
            /\ \E at \in {"inferring", "inferred", "checked"} : r = [nodeRun[n] EXCEPT !.pc = at],
         nodeRun' = [nodeRun EXCEPT ![n] = r], UNCHANGED <<nodeEpoch, cache, latest, made>>
  PROVE  ResultsInv(p)' /\ Lasting(p)
<1>0. nodeRun[n] \in Runs(p) /\ nodeRun[n].epoch <= nodeEpoch[n] /\ nodeEpoch[n] \in Nat
      /\ ResultsMade[p] \in Nat /\ Revocations[p] \in Nat
  BY NodesAssumption DEF ResultsInv, Runs
<1>1. /\ r \in Runs(p) /\ r.epoch <= nodeEpoch[n]
      /\ r.pc # "idle" => nodeRun[n].pc # "idle" /\ r.source = nodeRun[n].source
  <2>1. CASE r = Perceive(p)!NoRun
    BY <1>0, <2>1 DEF Perceive!NoRun, Perceive!Ids, Runs
  <2>2. CASE r # Perceive(p)!NoRun
    <3>1. PICK at \in {"inferring", "inferred", "checked"} : r = [nodeRun[n] EXCEPT !.pc = at]
      BY <2>2
    <3> QED
      BY <1>0, <2>2, <3>1 DEF Runs
  <2> QED
    BY <2>1, <2>2
<1>2. /\ \A m \in PNodes : nodeRun'[m] = IF m = n THEN r ELSE nodeRun[m]
      /\ nodeRun' \in [PNodes -> Runs(p)]
  BY <1>1 DEF ResultsInv, Runs
<1>3. ResultsInv(p)'
  BY <1>1, <1>2 DEF ResultsInv, PNodes, Runs
<1>4. Lasting(p)
  BY DEF ResultsInv, Lasting, Perceive!Valid
<1> QED
  BY <1>3, <1>4

\* An action begins from a source that was made.
LEMMA ResultsBegin ==
  ASSUME NEW p \in Perceptions, ResultsInv(p), NEW n \in PNodes, Perceive(p)!Begin(n)
  PROVE  ResultsInv(p)' /\ Lasting(p)
<1>0. ResultsMade[p] \in Nat /\ Revocations[p] \in Nat
  BY NodesAssumption
<1>1. PICK id \in IF Perceive(p)!Source[n] = "camera" THEN {0} ELSE DOMAIN made[Perceive(p)!Source[n]] :
        nodeRun' = [nodeRun EXCEPT ![n] =
          [pc |-> IF Perceive(p)!Source[n] = "camera" THEN "inferring" ELSE "reading",
           epoch |-> nodeEpoch[n], source |-> id]]
  BY DEF Perceive!Begin
<1>2. id \in Perceive(p)!Ids /\ (n = "grasp" => id \in 1..Len(made["segment"]))
  <2>1. CASE Perceive(p)!Source[n] = "camera"
    <3>1. id = 0 /\ n # "grasp"
      BY <1>1, <2>1 DEF Perceive!Source
    <3> QED
      BY <1>0, <3>1 DEF Perceive!Ids
  <2>2. CASE Perceive(p)!Source[n] # "camera"
    <3>1. Perceive(p)!Source[n] \in PNodes /\ (n = "grasp" => Perceive(p)!Source[n] = "segment")
      BY <2>2 DEF Perceive!Source, PNodes
    <3>2. id \in 1..Len(made[Perceive(p)!Source[n]])
      BY <1>1, <2>2, <3>1 DEF ResultsInv
    <3>3. Len(made[Perceive(p)!Source[n]]) \in Nat /\ Len(made[Perceive(p)!Source[n]]) <= ResultsMade[p]
      BY <3>1 DEF ResultsInv
    <3> QED
      BY <1>0, <3>1, <3>2, <3>3 DEF Perceive!Ids
  <2> QED
    BY <2>1, <2>2
<1> DEFINE r == [pc |-> IF Perceive(p)!Source[n] = "camera" THEN "inferring" ELSE "reading",
                 epoch |-> nodeEpoch[n], source |-> id]
<1>3. /\ latest' = [latest EXCEPT ![n] = 0] /\ UNCHANGED <<nodeEpoch, made>>
      /\ cache' = [cache EXCEPT ![n] = <<>>] \/ cache' = cache
  BY DEF Perceive!Begin
<1>4. r \in Runs(p) /\ r.epoch = nodeEpoch[n] /\ r.source = id
  BY <1>2 DEF Runs, ResultsInv
<1> HIDE DEF r
<1>5. /\ nodeRun' \in [PNodes -> Runs(p)]
      /\ \A m \in PNodes : nodeRun'[m] = IF m = n THEN r ELSE nodeRun[m]
  BY <1>1, <1>4 DEF ResultsInv, Runs, r
<1>6. /\ latest' \in [PNodes -> Perceive(p)!Ids]
      /\ \A m \in PNodes : latest'[m] = IF m = n THEN 0 ELSE latest[m]
  BY <1>0, <1>3 DEF ResultsInv, Perceive!Ids
<1>7. /\ DOMAIN cache' = PNodes
      /\ \A m \in PNodes : cache'[m] \in {cache[m], <<>>}
  BY <1>3 DEF ResultsInv
<1>8. \A m \in PNodes :
        /\ cache'[m] \in Seq(Perceive(p)!Entries) /\ Len(cache'[m]) <= ResultsKept
        /\ made'[m] \in Seq(Perceive(p)!Ids) /\ Len(made'[m]) <= ResultsMade[p]
        /\ \A i \in 1..Len(cache'[m]) :
             cache'[m][i].id \in 1..Len(made'[m]) /\ cache'[m][i].epoch <= nodeEpoch'[m]
  <2> TAKE m \in PNodes
  <2>1. CASE cache'[m] = cache[m]
    BY <1>3, <2>1 DEF ResultsInv
  <2>2. CASE cache'[m] = <<>>
    BY <1>3, <2>2, NodesAssumption DEF ResultsInv
  <2> QED
    BY <1>7, <2>1, <2>2
<1>9. \A m \in PNodes : /\ nodeRun'[m].epoch <= nodeEpoch'[m] /\ latest'[m] <= Len(made'[m])
                       /\ nodeRun'[m].pc # "idle" => Len(made'[m]) < ResultsMade[p]
  <2>1. Len(made[n]) < ResultsMade[p]
    BY DEF Perceive!Begin
  <2> QED
    BY <1>3, <1>4, <1>5, <1>6, <2>1 DEF ResultsInv
<1>10. ResultsInv(p)'
  BY <1>2, <1>3, <1>4, <1>5, <1>6, <1>7, <1>8, <1>9 DEF ResultsInv, Runs, PNodes
<1>11. Lasting(p)
  <2>1. \A m \in PNodes : /\ made'[m] = made[m]
                          /\ \A id0 \in 1..Len(made[m]) : latest'[m] = id0 => latest[m] = id0
    BY <1>3, <1>6
  <2>2. \A m \in PNodes : \A id0 \in 1..Len(made[m]) :
          Perceive(p)!Valid(m, id0)' => Perceive(p)!Valid(m, id0)
    BY <1>3, <1>7 DEF Perceive!Valid
  <2>3. \A m \in PNodes : Len(made[m]) \in Nat
    BY DEF ResultsInv
  <2> QED
    BY <2>1, <2>2, <2>3 DEF Lasting
<1> QED
  BY <1>10, <1>11

\* cache.put: the number is new.
LEMMA ResultsPut ==
  ASSUME NEW p \in Perceptions, ResultsInv(p), NEW n \in PNodes, Perceive(p)!Put(n),
         nodeRun[n].pc # "idle", UNCHANGED nodeEpoch
  PROVE  ResultsInv(p)' /\ Lasting(p)
<1> DEFINE id == Len(made[n]) + 1
           e == [id |-> id, epoch |-> nodeRun[n].epoch, succeeded |-> ~Perceive(p)!Stopped(n)]
           old == IF Len(cache[n]) < ResultsKept THEN cache[n] ELSE Tail(cache[n])
<1>0. /\ ResultsMade[p] \in Nat /\ Revocations[p] \in Nat /\ ResultsKept \in Nat \ {0}
      /\ Len(made[n]) \in Nat /\ Len(made[n]) < ResultsMade[p] /\ id \in Perceive(p)!Ids /\ id \in 1..ResultsMade[p]
      /\ nodeRun[n] \in Runs(p) /\ made[n] \in Seq(Perceive(p)!Ids)
      /\ cache[n] \in Seq(Perceive(p)!Entries) /\ Len(cache[n]) <= ResultsKept
      /\ \A i \in 1..Len(cache[n]) :
           cache[n][i].id \in 1..Len(made[n]) /\ cache[n][i].epoch <= nodeEpoch[n]
      /\ nodeRun[n].epoch <= nodeEpoch[n]
  BY NodesAssumption DEF ResultsInv, Runs, Perceive!Ids
<1>1. /\ cache' = [cache EXCEPT ![n] = Append(old, e)]
      /\ made' = [made EXCEPT ![n] = Append(made[n], nodeRun[n].source)]
      /\ latest' = [latest EXCEPT ![n] = IF n = "vision" THEN 0 ELSE id]
      /\ nodeRun' = [nodeRun EXCEPT ![n] = Perceive(p)!NoRun]
  BY DEF Perceive!Put
<1>2. e \in Perceive(p)!Entries /\ e.id = id /\ e.epoch = nodeRun[n].epoch
  BY <1>0 DEF Runs, Perceive!Entries, Perceive!Stopped
<1> HIDE DEF e
<1>3. /\ old \in Seq(Perceive(p)!Entries) /\ Len(old) < ResultsKept
      /\ \A i \in 1..Len(old) : \E j \in 1..Len(cache[n]) : old[i] = cache[n][j]
  <2>1. CASE Len(cache[n]) < ResultsKept
    BY <1>0, <2>1
  <2>2. CASE ~(Len(cache[n]) < ResultsKept)
    <3>1. cache[n] # <<>> /\ old = Tail(cache[n])
      BY <1>0, <2>2
    <3>2. /\ Tail(cache[n]) \in Seq(Perceive(p)!Entries) /\ Len(Tail(cache[n])) = Len(cache[n]) - 1
          /\ \A i \in 1..Len(Tail(cache[n])) :
               Tail(cache[n])[i] = cache[n][i + 1] /\ i + 1 \in 1..Len(cache[n])
      BY <1>0, <3>1
    <3> QED
      BY <1>0, <3>1, <3>2
  <2> QED
    BY <2>1, <2>2
<1> HIDE DEF old
<1> DEFINE new == Append(old, e)
<1>4. /\ new \in Seq(Perceive(p)!Entries) /\ Len(new) = Len(old) + 1
      /\ \A i \in 1..Len(new) : new[i] = IF i = Len(old) + 1 THEN e ELSE old[i]
  BY <1>2, <1>3
<1>5. Len(new) <= ResultsKept
  BY <1>0, <1>3, <1>4
<1>6. \A i \in 1..Len(new) : new[i] = e \/ \E j \in 1..Len(cache[n]) : new[i] = cache[n][j]
  BY <1>3, <1>4
<1> DEFINE more == Append(made[n], nodeRun[n].source)
<1>7. /\ more \in Seq(Perceive(p)!Ids) /\ Len(more) = id
      /\ \A i \in 1..Len(more) : more[i] = IF i = id THEN nodeRun[n].source ELSE made[n][i]
  BY <1>0 DEF Runs
<1>8. /\ DOMAIN cache' = PNodes /\ DOMAIN made' = PNodes
      /\ \A m \in PNodes : cache'[m] = IF m = n THEN new ELSE cache[m]
      /\ \A m \in PNodes : made'[m] = IF m = n THEN more ELSE made[m]
  BY <1>1 DEF ResultsInv
<1> HIDE DEF new, more
<1>9. /\ latest' \in [PNodes -> Perceive(p)!Ids]
      /\ \A m \in PNodes : latest'[m] = IF m # n THEN latest[m] ELSE IF n = "vision" THEN 0 ELSE id
  BY <1>0, <1>1 DEF ResultsInv, Perceive!Ids
<1>10. /\ nodeRun' \in [PNodes -> Runs(p)]
       /\ \A m \in PNodes : nodeRun'[m] = IF m = n THEN Perceive(p)!NoRun ELSE nodeRun[m]
       /\ Perceive(p)!NoRun.pc = "idle" /\ Perceive(p)!NoRun.epoch = 0
  BY <1>0, <1>1 DEF ResultsInv, Runs, Perceive!NoRun, Perceive!Ids
<1>11. \A i \in 1..Len(new) : new[i].id \in 1..Len(more) /\ new[i].epoch <= nodeEpoch[n]
  <2> TAKE i \in 1..Len(new)
  <2>1. CASE new[i] = e
    <3>1. id \in 1..Len(more)
      BY <1>0, <1>7
    <3> QED
      BY <1>0, <1>2, <2>1, <3>1
  <2>2. CASE \E j \in 1..Len(cache[n]) : new[i] = cache[n][j]
    <3>1. PICK j \in 1..Len(cache[n]) : new[i] = cache[n][j]
      BY <2>2
    <3>2. new[i].id \in 1..Len(made[n]) /\ new[i].epoch <= nodeEpoch[n]
      BY <1>0, <3>1
    <3>3. Len(made[n]) \in Nat /\ Len(more) = Len(made[n]) + 1
      BY <1>0, <1>7
    <3> QED
      BY <3>2, <3>3
  <2> QED
    BY <1>6, <2>1, <2>2
<1>12. \A m \in PNodes :
         /\ cache'[m] \in Seq(Perceive(p)!Entries) /\ Len(cache'[m]) <= ResultsKept
         /\ made'[m] \in Seq(Perceive(p)!Ids) /\ Len(made'[m]) <= ResultsMade[p]
         /\ \A i \in 1..Len(cache'[m]) :
              cache'[m][i].id \in 1..Len(made'[m]) /\ cache'[m][i].epoch <= nodeEpoch'[m]
  <2> TAKE m \in PNodes
  <2>1. CASE m = n
    BY <1>0, <1>4, <1>5, <1>7, <1>8, <1>11, <2>1
  <2>2. CASE m # n
    BY <1>8, <2>2 DEF ResultsInv
  <2> QED
    BY <2>1, <2>2
<1>13. \A m \in PNodes : /\ nodeRun'[m].epoch <= nodeEpoch'[m] /\ latest'[m] <= Len(made'[m])
                         /\ nodeRun'[m].pc # "idle" => Len(made'[m]) < ResultsMade[p]
  <2> TAKE m \in PNodes
  <2>1. nodeEpoch[m] \in Nat
    BY <1>0 DEF ResultsInv
  <2>2. CASE m = n
    BY <1>0, <1>7, <1>8, <1>9, <1>10, <2>1, <2>2
  <2>3. CASE m # n
    BY <1>8, <1>9, <1>10, <2>3 DEF ResultsInv
  <2> QED
    BY <2>2, <2>3
<1>14. nodeRun'["grasp"].pc # "idle" => nodeRun'["grasp"].source \in 1..Len(made'["segment"])
  <2>1. "segment" \in PNodes /\ Len(made["segment"]) \in Nat /\ Len(made["segment"]) <= Len(made'["segment"])
    BY <1>0, <1>7, <1>8 DEF PNodes, ResultsInv
  <2>2. nodeRun'["grasp"].pc # "idle" => nodeRun'["grasp"] = nodeRun["grasp"]
    BY <1>10 DEF PNodes
  <2>3. Len(made'["segment"]) \in Nat
    BY <1>12, <2>1
  <2> QED
    BY <2>1, <2>2, <2>3 DEF ResultsInv
<1>15. \A i \in 1..Len(made'["grasp"]) : made'["grasp"][i] \in 1..Len(made'["segment"])
  <2>1. "segment" \in PNodes /\ Len(made["segment"]) \in Nat /\ Len(made["segment"]) <= Len(made'["segment"])
        /\ Len(made'["segment"]) \in Nat
    <3>0. "segment" \in PNodes /\ Len(made["segment"]) \in Nat
      BY DEF PNodes, ResultsInv
    <3>1. CASE n = "segment"
      BY <1>0, <1>7, <1>8, <3>0, <3>1
    <3>2. CASE n # "segment"
      BY <1>8, <3>0, <3>2
    <3> QED
      BY <3>1, <3>2
  <2>2. ASSUME n = "grasp" PROVE nodeRun[n].source \in 1..Len(made["segment"])
    <3>1. nodeRun["grasp"].pc # "idle"
      BY <2>2
    <3> QED
      BY <2>2, <3>1 DEF ResultsInv
  <2>3. \A i \in 1..Len(made'["grasp"]) : made'["grasp"][i] \in 1..Len(made["segment"])
    <3>1. CASE n = "grasp"
      <4>1. made'["grasp"] = more
        BY <1>8, <3>1
      <4>2. \A i \in 1..id - 1 : made["grasp"][i] \in 1..Len(made["segment"])
        BY <1>0, <3>1 DEF ResultsInv
      <4>3. \A i \in 1..Len(more) : i = id \/ i \in 1..id - 1
        BY <1>0, <1>7
      <4> QED
        BY <1>7, <2>2, <3>1, <4>1, <4>2, <4>3
    <3>2. CASE n # "grasp"
      <4>1. made'["grasp"] = made["grasp"]
        BY <1>8, <3>2 DEF PNodes
      <4> QED
        BY <4>1 DEF ResultsInv
    <3> QED
      BY <3>1, <3>2
  <2> QED
    BY <2>1, <2>3
<1>16. ResultsInv(p)'
  <2>1. nodeEpoch' \in [PNodes -> 0..Revocations[p]]
    BY DEF ResultsInv
  <2>2. \A m \in PNodes :
          /\ cache'[m] \in Seq(Perceive(p)!Entries) /\ Len(cache'[m]) <= ResultsKept
          /\ made'[m] \in Seq(Perceive(p)!Ids) /\ Len(made'[m]) <= ResultsMade[p]
          /\ \A i \in 1..Len(cache'[m]) :
               cache'[m][i].id \in 1..Len(made'[m]) /\ cache'[m][i].epoch <= nodeEpoch'[m]
          /\ nodeRun'[m].epoch <= nodeEpoch'[m] /\ latest'[m] <= Len(made'[m])
          /\ nodeRun'[m].pc # "idle" => Len(made'[m]) < ResultsMade[p]
    BY <1>12, <1>13
  <2>3. /\ DOMAIN cache' = PNodes /\ DOMAIN made' = PNodes /\ latest' \in [PNodes -> Perceive(p)!Ids]
        /\ nodeRun' \in [PNodes -> [pc : {"idle", "reading", "inferring", "inferred", "checked"},
                                    epoch : 0..Revocations[p], source : Perceive(p)!Ids]]
    BY <1>8, <1>9, <1>10, Zenon DEF Runs
  <2> QED
    BY <1>14, <1>15, <2>1, <2>2, <2>3, Zenon DEF ResultsInv
<1>17. Lasting(p)
  <2> SUFFICES ASSUME NEW m \in PNodes
               PROVE  /\ Len(made[m]) <= Len(made'[m])
                      /\ \A k \in 1..Len(made[m]) :
                           /\ made'[m][k] = made[m][k]
                           /\ Perceive(p)!Valid(m, k)' => Perceive(p)!Valid(m, k)
                           /\ latest'[m] = k => latest[m] = k
    BY DEF Lasting
  <2>1. CASE m # n
    <3>1. Len(made[m]) \in Nat
      BY DEF ResultsInv
    <3> QED
      BY <1>8, <1>9, <2>1, <3>1 DEF Perceive!Valid
  <2>2. CASE m = n
    <3>1. Len(made[m]) <= Len(made'[m]) /\ id = Len(made[m]) + 1
      BY <1>0, <1>7, <1>8, <2>2
    <3>2. \A k \in 1..Len(made[m]) : made'[m][k] = made[m][k] /\ k # id /\ k # 0
      <4>1. made[m] = made[n] /\ made'[m] = more
        BY <1>8, <2>2
      <4>2. \A k \in 1..Len(made[n]) : k \in 1..Len(more) /\ k # id /\ k # 0
        BY <1>0, <1>7
      <4> QED
        BY <1>7, <4>1, <4>2
    <3>3. \A k \in 1..Len(made[m]) : latest'[m] = k => latest[m] = k
      <4>1. latest'[m] \in {0, id}
        BY <1>9, <2>2
      <4> QED
        BY <3>2, <4>1
    <3>4. ASSUME NEW k \in 1..Len(made[m]), Perceive(p)!Valid(m, k)' PROVE Perceive(p)!Valid(m, k)
      <4>1. PICK i \in DOMAIN cache'[m] : /\ cache'[m][i].id = k /\ cache'[m][i].epoch = nodeEpoch[m]
                                          /\ cache'[m][i].succeeded
        BY <3>4 DEF Perceive!Valid
      <4>2. i \in 1..Len(new) /\ cache'[m][i] = new[i]
        BY <1>4, <1>8, <2>2, <4>1
      <4>3. new[i] # e
        BY <1>2, <3>2, <4>1, <4>2
      <4>4. PICK j \in 1..Len(cache[n]) : new[i] = cache[n][j]
        BY <1>6, <4>2, <4>3
      <4>5. j \in DOMAIN cache[m]
        BY <1>0, <2>2
      <4> QED
        BY <2>2, <4>1, <4>2, <4>4, <4>5 DEF Perceive!Valid
    <3> QED
      BY <3>1, <3>2, <3>3, <3>4
  <2> QED
    BY <2>1, <2>2
<1> QED
  BY <1>16, <1>17

\* A stop revokes what the node made.
LEMMA ResultsStop ==
  ASSUME NEW p \in Perceptions, ResultsInv(p), NEW n \in PNodes, Perceive(p)!Stop(n)
  PROVE  ResultsInv(p)' /\ Lasting(p)
<1>0. nodeEpoch \in [PNodes -> 0..Revocations[p]] /\ Revocations[p] \in Nat
  BY NodesAssumption DEF ResultsInv
<1>1. nodeEpoch[n] + 1 \in 0..Revocations[p]
  <2>1. /\ nodeEpoch["vision"] \in Nat /\ nodeEpoch["segment"] \in Nat /\ nodeEpoch["grasp"] \in Nat
        /\ nodeEpoch["vision"] + nodeEpoch["segment"] + nodeEpoch["grasp"] < Revocations[p]
    BY <1>0 DEF Perceive!Stop, Perceive!Revoked, PNodes
  <2>2. n \in {"vision", "segment", "grasp"}
    BY DEF PNodes
  <2> QED
    BY <1>0, <2>1, <2>2
<1>2. /\ nodeEpoch' \in [PNodes -> 0..Revocations[p]] /\ UNCHANGED <<nodeRun, cache, latest, made>>
      /\ \A m \in PNodes : nodeEpoch'[m] = IF m = n THEN nodeEpoch[n] + 1 ELSE nodeEpoch[m]
  BY <1>0, <1>1 DEF Perceive!Stop
<1>3. \A m \in PNodes : nodeEpoch[m] \in Nat /\ nodeEpoch'[m] \in Nat /\ nodeEpoch[m] <= nodeEpoch'[m]
  BY <1>0, <1>1, <1>2
<1>4. \A m \in PNodes :
        /\ nodeRun[m].epoch <= nodeEpoch'[m]
        /\ \A i \in 1..Len(cache[m]) : cache[m][i].epoch <= nodeEpoch'[m]
  <2> TAKE m \in PNodes
  <2>1. /\ nodeRun[m].epoch \in Nat /\ nodeRun[m].epoch <= nodeEpoch[m]
        /\ \A i \in 1..Len(cache[m]) : cache[m][i].epoch \in Nat /\ cache[m][i].epoch <= nodeEpoch[m]
    <3>1. /\ nodeRun[m] \in Runs(p) /\ nodeRun[m].epoch <= nodeEpoch[m]
          /\ \A i \in 1..Len(cache[m]) : cache[m][i] \in Perceive(p)!Entries /\ cache[m][i].epoch <= nodeEpoch[m]
      BY DEF ResultsInv, Runs
    <3> QED
      BY <1>0, <3>1 DEF Runs, Perceive!Entries
  <2> QED
    BY <1>3, <2>1
<1>5. ResultsInv(p)'
  BY <1>2, <1>4 DEF ResultsInv
<1>6. Lasting(p)
  <2>0. \A m \in PNodes : Len(made[m]) \in Nat
    BY DEF ResultsInv
  <2> SUFFICES ASSUME NEW m \in PNodes, NEW id \in 1..Len(made[m]), Perceive(p)!Valid(m, id)'
               PROVE  Perceive(p)!Valid(m, id)
    BY <1>2, <2>0 DEF Lasting
  <2>1. PICK i \in DOMAIN cache[m] : /\ cache[m][i].id = id /\ cache[m][i].epoch = nodeEpoch'[m]
                                     /\ cache[m][i].succeeded
    BY <1>2 DEF Perceive!Valid
  <2>2. cache[m][i].epoch <= nodeEpoch[m]
    BY <2>1 DEF ResultsInv
  <2>3. m # n
    BY <1>2, <1>3, <2>1, <2>2
  <2> QED
    BY <1>2, <2>1, <2>3 DEF Perceive!Valid
<1> QED
  BY <1>5, <1>6

\* A restart forgets what the node kept.
LEMMA ResultsRestart ==
  ASSUME NEW p \in Perceptions, ResultsInv(p), NEW n \in PNodes, Perceive(p)!Restart(n)
  PROVE  ResultsInv(p)' /\ Lasting(p)
<1>0. nodeEpoch \in [PNodes -> 0..Revocations[p]] /\ Revocations[p] \in Nat /\ ResultsMade[p] \in Nat
      /\ ResultsKept \in Nat
  BY NodesAssumption DEF ResultsInv
<1>1. nodeEpoch[n] + 1 \in 0..Revocations[p]
  <2>1. /\ nodeEpoch["vision"] \in Nat /\ nodeEpoch["segment"] \in Nat /\ nodeEpoch["grasp"] \in Nat
        /\ nodeEpoch["vision"] + nodeEpoch["segment"] + nodeEpoch["grasp"] < Revocations[p]
    BY <1>0 DEF Perceive!Restart, Perceive!Revoked, PNodes
  <2>2. n \in {"vision", "segment", "grasp"}
    BY DEF PNodes
  <2> QED
    BY <1>0, <2>1, <2>2
<1>2. /\ nodeEpoch' \in [PNodes -> 0..Revocations[p]] /\ UNCHANGED made
      /\ \A m \in PNodes : nodeEpoch'[m] = IF m = n THEN nodeEpoch[n] + 1 ELSE nodeEpoch[m]
  BY <1>0, <1>1 DEF Perceive!Restart
<1>3. \A m \in PNodes : nodeEpoch[m] \in Nat /\ nodeEpoch'[m] \in Nat /\ nodeEpoch[m] <= nodeEpoch'[m]
  BY <1>0, <1>1, <1>2
<1>4. /\ nodeRun' \in [PNodes -> Runs(p)]
      /\ \A m \in PNodes : nodeRun'[m] = IF m = n THEN Perceive(p)!NoRun ELSE nodeRun[m]
      /\ Perceive(p)!NoRun.pc = "idle" /\ Perceive(p)!NoRun.epoch = 0
  BY <1>0 DEF Perceive!Restart, ResultsInv, Runs, Perceive!NoRun, Perceive!Ids
<1>5. /\ latest' \in [PNodes -> Perceive(p)!Ids]
      /\ \A m \in PNodes : latest'[m] = IF m = n THEN 0 ELSE latest[m]
  BY <1>0 DEF Perceive!Restart, ResultsInv, Perceive!Ids
<1>6. /\ DOMAIN cache' = PNodes
      /\ \A m \in PNodes : cache'[m] = IF m = n THEN <<>> ELSE cache[m]
  BY DEF Perceive!Restart, ResultsInv
<1>7. \A m \in PNodes :
        /\ cache'[m] \in Seq(Perceive(p)!Entries) /\ Len(cache'[m]) <= ResultsKept
        /\ made'[m] \in Seq(Perceive(p)!Ids) /\ Len(made'[m]) <= ResultsMade[p]
        /\ \A i \in 1..Len(cache'[m]) :
             cache'[m][i].id \in 1..Len(made'[m]) /\ cache'[m][i].epoch <= nodeEpoch'[m]
        /\ nodeRun'[m].epoch <= nodeEpoch'[m] /\ latest'[m] <= Len(made'[m])
        /\ nodeRun'[m].pc # "idle" => Len(made'[m]) < ResultsMade[p]
  <2> TAKE m \in PNodes
  <2>1. CASE m = n
    <3>1. made[m] \in Seq(Perceive(p)!Ids) /\ Len(made[m]) <= ResultsMade[p] /\ Len(made[m]) \in Nat
      BY DEF ResultsInv
    <3>2. cache'[m] = <<>> /\ latest'[m] = 0 /\ nodeRun'[m].pc = "idle" /\ nodeRun'[m].epoch = 0
      BY <1>4, <1>5, <1>6, <2>1
    <3> QED
      BY <1>0, <1>2, <1>3, <3>1, <3>2
  <2>2. CASE m # n
    <3>1. /\ nodeRun'[m] = nodeRun[m] /\ cache'[m] = cache[m] /\ latest'[m] = latest[m]
          /\ nodeEpoch'[m] = nodeEpoch[m]
      BY <1>2, <1>4, <1>5, <1>6, <2>2
    <3> QED
      BY <1>2, <3>1 DEF ResultsInv
  <2> QED
    BY <2>1, <2>2
<1>8. nodeRun'["grasp"].pc # "idle" => nodeRun'["grasp"].source \in 1..Len(made'["segment"])
  BY <1>2, <1>4 DEF ResultsInv, PNodes
<1>9. ResultsInv(p)'
  <2>1. \A i \in 1..Len(made'["grasp"]) : made'["grasp"][i] \in 1..Len(made'["segment"])
    BY <1>2 DEF ResultsInv
  <2>2. DOMAIN made' = PNodes
    BY <1>2 DEF ResultsInv
  <2> QED
    BY <1>2, <1>4, <1>5, <1>6, <1>7, <1>8, <2>1, <2>2 DEF ResultsInv, Runs
<1>10. Lasting(p)
  <2> SUFFICES ASSUME NEW m \in PNodes, NEW id \in 1..Len(made[m])
               PROVE  /\ Perceive(p)!Valid(m, id)' => Perceive(p)!Valid(m, id)
                      /\ latest'[m] = id => latest[m] = id
    BY <1>2 DEF Lasting, ResultsInv
  <2>1. CASE m = n
    BY <1>5, <1>6, <2>1 DEF Perceive!Valid
  <2>2. CASE m # n
    BY <1>2, <1>5, <1>6, <2>2 DEF Perceive!Valid
  <2> QED
    BY <2>1, <2>2
<1> QED
  BY <1>9, <1>10

\* An entry that expires is no longer valid.
LEMMA ResultsExpire ==
  ASSUME NEW p \in Perceptions, ResultsInv(p), NEW n \in PNodes, Perceive(p)!Expire(n)
  PROVE  ResultsInv(p)' /\ Lasting(p)
<1>0. cache[n] \in Seq(Perceive(p)!Entries) /\ cache[n] # <<>> /\ Len(cache[n]) <= ResultsKept
      /\ ResultsKept \in Nat
  BY NodesAssumption DEF ResultsInv, Perceive!Expire
<1>1. UNCHANGED <<nodeEpoch, nodeRun, latest, made>>
  BY DEF Perceive!Expire
<1>2. /\ DOMAIN cache' = PNodes
      /\ \A m \in PNodes : cache'[m] = IF m = n THEN Tail(cache[n]) ELSE cache[m]
  BY DEF Perceive!Expire, ResultsInv
<1>3. /\ Tail(cache[n]) \in Seq(Perceive(p)!Entries) /\ Len(Tail(cache[n])) = Len(cache[n]) - 1
      /\ \A i \in 1..Len(Tail(cache[n])) :
           Tail(cache[n])[i] = cache[n][i + 1] /\ i + 1 \in 1..Len(cache[n])
  BY <1>0
<1>4. \A m \in PNodes :
        /\ cache'[m] \in Seq(Perceive(p)!Entries) /\ Len(cache'[m]) <= ResultsKept
        /\ \A i \in 1..Len(cache'[m]) : \E j \in 1..Len(cache[m]) : cache'[m][i] = cache[m][j]
  <2> TAKE m \in PNodes
  <2>1. CASE m = n
    BY <1>0, <1>2, <1>3, <2>1
  <2>2. CASE m # n
    BY <1>2, <2>2 DEF ResultsInv
  <2> QED
    BY <2>1, <2>2
<1>5. \A m \in PNodes : \A i \in 1..Len(cache'[m]) :
        cache'[m][i].id \in 1..Len(made[m]) /\ cache'[m][i].epoch <= nodeEpoch[m]
  BY <1>4 DEF ResultsInv
<1>6. ResultsInv(p)'
  BY <1>1, <1>2, <1>4, <1>5 DEF ResultsInv
<1>7. Lasting(p)
  <2> SUFFICES ASSUME NEW m \in PNodes, NEW id \in 1..Len(made[m]), Perceive(p)!Valid(m, id)'
               PROVE  Perceive(p)!Valid(m, id)
    BY <1>1 DEF Lasting, ResultsInv
  <2>1. PICK i \in DOMAIN cache'[m] : /\ cache'[m][i].id = id /\ cache'[m][i].epoch = nodeEpoch[m]
                                      /\ cache'[m][i].succeeded
    BY <1>1 DEF Perceive!Valid
  <2>2. i \in 1..Len(cache'[m])
    BY <1>4, <2>1
  <2>3. PICK j \in 1..Len(cache[m]) : cache'[m][i] = cache[m][j]
    BY <1>4, <2>2
  <2>4. j \in DOMAIN cache[m]
    BY DEF ResultsInv
  <2> QED
    BY <2>1, <2>3, <2>4 DEF Perceive!Valid
<1> QED
  BY <1>6, <1>7

\* Whatever happens, a result that is revoked stays revoked.
LEMMA ResultsStep ==
  ASSUME NEW p \in Perceptions, ResultsInv(p), Perceive(p)!Next
  PROVE  ResultsInv(p)' /\ Lasting(p)
<1>0. Perceive(p)!InUse \subseteq PNodes /\ "vision" \in PNodes /\ "segment" \in PNodes /\ "grasp" \in PNodes
  BY DEF Perceive!InUse, Perceive!Nodes, PNodes
<1>1. ASSUME NEW n \in PNodes, Perceive(p)!Begin(n) PROVE ResultsInv(p)' /\ Lasting(p)
  BY <1>1, ResultsBegin
<1>2. ASSUME NEW n \in PNodes, Perceive(p)!SourceRead(n) PROVE ResultsInv(p)' /\ Lasting(p)
  <2>1. UNCHANGED <<nodeEpoch, cache, latest, made>> /\ nodeRun[n].pc # "idle"
    BY <1>2 DEF Perceive!SourceRead
  <2>2. \/ nodeRun' = [nodeRun EXCEPT ![n] = Perceive(p)!NoRun]
        \/ nodeRun' = [nodeRun EXCEPT ![n] = [nodeRun[n] EXCEPT !.pc = "inferring"]]
    BY <1>2 DEF Perceive!SourceRead, ResultsInv
  <2> QED
    BY <2>1, <2>2, RunGoesOn
<1>3. ASSUME NEW n \in PNodes, Perceive(p)!Stop(n) PROVE ResultsInv(p)' /\ Lasting(p)
  BY <1>3, ResultsStop
<1>4. ASSUME NEW n \in PNodes, Perceive(p)!Restart(n) PROVE ResultsInv(p)' /\ Lasting(p)
  BY <1>4, ResultsRestart
<1>5. ASSUME NEW n \in PNodes, Perceive(p)!Expire(n) PROVE ResultsInv(p)' /\ Lasting(p)
  BY <1>5, ResultsExpire
<1>6. ASSUME NEW n \in PNodes, nodeRun[n].pc # "idle", UNCHANGED nodeEpoch,
             Perceive(p)!Fails(n) \/ Perceive(p)!Put(n)
      PROVE  ResultsInv(p)' /\ Lasting(p)
  <2>1. CASE Perceive(p)!Put(n)
    BY <1>6, <2>1, ResultsPut
  <2>2. CASE Perceive(p)!Fails(n)
    <3>1. nodeRun' = [nodeRun EXCEPT ![n] = Perceive(p)!NoRun] /\ UNCHANGED <<nodeEpoch, cache, latest, made>>
      BY <1>6, <2>2 DEF Perceive!Fails
    <3> QED
      BY <3>1, RunGoesOn
  <2> QED
    BY <1>6, <2>1, <2>2
<1>7. CASE Perceive(p)!Located
  BY <1>0, <1>6, <1>7 DEF Perceive!Located, Perceive!Inferred
<1>8. CASE Perceive(p)!Segmented
  BY <1>0, <1>6, <1>8 DEF Perceive!Segmented, Perceive!Inferred
<1>9. CASE Perceive(p)!GraspsInferred
  <2>1. nodeRun["grasp"].pc # "idle" /\ UNCHANGED nodeEpoch
    BY <1>9 DEF Perceive!GraspsInferred, Perceive!Inferred
  <2>2. CASE Perceive(p)!Fails("grasp")
    BY <1>0, <1>6, <2>1, <2>2
  <2>3. CASE /\ nodeRun' = [nodeRun EXCEPT !["grasp"].pc = "inferred"]
             /\ UNCHANGED <<cache, latest, made>>
    <3>1. nodeRun' = [nodeRun EXCEPT !["grasp"] = [nodeRun["grasp"] EXCEPT !.pc = "inferred"]]
      BY <1>0, <2>3 DEF ResultsInv
    <3> QED
      BY <1>0, <2>1, <2>3, <3>1, RunGoesOn
  <2> QED
    BY <1>9, <2>2, <2>3 DEF Perceive!GraspsInferred
<1>10. CASE Perceive(p)!CheckSegment
  <2>1. nodeRun["grasp"].pc # "idle" /\ UNCHANGED <<nodeEpoch, cache, latest, made>>
    BY <1>10 DEF Perceive!CheckSegment
  <2>2. \/ nodeRun' = [nodeRun EXCEPT !["grasp"] = Perceive(p)!NoRun]
        \/ nodeRun' = [nodeRun EXCEPT !["grasp"] = [nodeRun["grasp"] EXCEPT !.pc = "checked"]]
    BY <1>10 DEF Perceive!CheckSegment
  <2> QED
    BY <1>0, <2>1, <2>2, RunGoesOn
<1>11. CASE Perceive(p)!PutGrasps
  BY <1>0, <1>6, <1>11 DEF Perceive!PutGrasps
<1>12. ASSUME UNCHANGED <<nodeEpoch, nodeRun, cache, latest, made>> PROVE ResultsInv(p)' /\ Lasting(p)
  BY <1>12, ResultsSame
<1>13. ASSUME NEW r \in Perceive(p)!Readers,
              \/ Perceive(p)!LookupLocation(r) \/ Perceive(p)!Lookup(r) \/ Perceive(p)!LookupSegment(r)
              \/ Perceive(p)!Reply(r) \/ Perceive(p)!ReplyLocation(r) \/ Perceive(p)!CallFails(r)
       PROVE  UNCHANGED <<nodeEpoch, nodeRun, cache, latest, made>>
  BY <1>13 DEF Perceive!LookupLocation, Perceive!Lookup, Perceive!LookupSegment, Perceive!Reply,
               Perceive!ReplyLocation, Perceive!CallFails, Perceive!others
<1>14. ASSUME \/ Perceive(p)!RobotBegins \/ Perceive(p)!RobotPlans \/ Perceive(p)!RobotPlanned
              \/ Perceive(p)!RobotMoves \/ Perceive(p)!RobotEnds
       PROVE  UNCHANGED <<nodeEpoch, nodeRun, cache, latest, made>>
  BY <1>14 DEF Perceive!RobotBegins, Perceive!RobotPlans, Perceive!RobotPlanned,
               Perceive!RobotMoves, Perceive!RobotEnds
<1>15. ASSUME \/ \E n \in {"segment", "grasp"} : Perceive(p)!ViewAsks(n) \/ Perceive(p)!ViewDrops(n)
              \/ Perceive(p)!ViewReads \/ Perceive(p)!ViewEncodes \/ Perceive(p)!ViewEncoded
              \/ Perceive(p)!ViewShows \/ Perceive(p)!ViewFails
       PROVE  UNCHANGED <<nodeEpoch, nodeRun, cache, latest, made>>
  BY <1>15 DEF Perceive!ViewAsks, Perceive!ViewDrops, Perceive!ViewReads, Perceive!ViewEncodes,
               Perceive!ViewEncoded, Perceive!ViewShows, Perceive!ViewFails
<1> QED
  BY <1>0, <1>1, <1>2, <1>3, <1>4, <1>5, <1>7, <1>8, <1>9, <1>10, <1>11, <1>12, <1>13, <1>14, <1>15
     DEF Perceive!Next

\* The readers and their requests.
Calls(p) ==
  [pc : {"none", "asked", "got", "checked", "replied", "failed"},
   of : {"none", "data", "latest"}, node : PNodes, id : Perceive(p)!Ids]

ReadersTyped(p) ==
  /\ call \in [Perceive(p)!Readers -> Calls(p)]
  /\ robot \in [pc : {"absent", "idle", "reading", "planning", "rereading", "moving"},
                id : Perceive(p)!Ids, fresh : BOOLEAN]
  /\ view \in [pc : {"absent", "idle", "asking", "reading", "encoding", "confirming"},
               node : {"segment", "grasp"}, id : Perceive(p)!Ids, fresh : BOOLEAN]
  /\ shown \in [{"segment", "grasp"} -> Perceive(p)!Ids]

\* What the robot saw last was of a grasp it had: when that no longer stood after the
\* motion was planned, the request that asks once more cannot come back.
RobotInv(p) ==
  LET c == call["robot"] IN
  /\ robot.pc \notin {"absent", "idle"} => robot.id \in 1..Len(made["grasp"])
  /\ robot.pc = "rereading" => c.of = "data" /\ c.node = "grasp" /\ c.id = robot.id
  /\ robot.pc = "rereading" /\ ~robot.fresh =>
       /\ c.pc # "replied" /\ ~Perceive(p)!ValidWithSource("grasp", robot.id)
       /\ c.pc = "checked" => ~Perceive(p)!Valid("grasp", robot.id)
  /\ robot.pc = "moving" => robot.fresh

\* The same of the picture and the latest result.
ViewInv(p) ==
  LET c == call["view"] IN
  /\ view.pc \in {"reading", "encoding", "confirming"} => view.id \in 1..Len(made[view.node])
  /\ view.pc \in {"asking", "confirming"} => c.of = "latest" /\ c.node = view.node
  /\ view.pc = "asking" /\ c.pc \in {"got", "checked", "replied"} => c.id \in 1..Len(made[view.node])
  /\ view.pc = "confirming" /\ ~view.fresh =>
       /\ ~(Perceive(p)!ValidWithSource(view.node, view.id) /\ latest[view.node] = view.id)
       /\ c.id = view.id /\ c.pc \in {"got", "checked"} =>
            view.node = "grasp" /\ ~Perceive(p)!ValidWithSource("grasp", view.id)
       /\ c.id = view.id /\ c.pc = "checked" => ~Perceive(p)!Valid("grasp", view.id)
       /\ c.id = view.id => c.pc # "replied"

PerceptionInv(p) == ResultsInv(p) /\ ReadersTyped(p) /\ RobotInv(p) /\ ViewInv(p)

\* What a step that is not its reader's does to a request: nothing, or it fails, or
\* the node goes on with it.
Served(p, r) ==
  LET c == call[r]  d == call'[r] IN
  \/ d = c
  \/ /\ d.of = c.of /\ d.node = c.node
     /\ \/ d.pc = "failed" /\ d.id = c.id
        \/ c.node = "vision" /\ d.pc = "got" /\ d.id = c.id
        \/ /\ c.node # "vision" /\ c.pc = "asked" /\ d.pc \in {"got", "replied"}
           /\ d.id = (IF c.of = "latest" THEN latest[c.node] ELSE c.id)
           /\ Perceive(p)!Valid(c.node, d.id) /\ (d.pc = "replied" => c.node # "grasp")
        \/ /\ c.node = "grasp" /\ c.pc = "got" /\ d.pc = "checked" /\ d.id = c.id
           /\ Perceive(p)!Valid("segment", made["grasp"][c.id])
        \/ /\ d.pc = "replied" /\ d.id = c.id /\ c.pc \in {"got", "checked"}
           /\ (c.node = "grasp" => c.pc = "checked") /\ Perceive(p)!Valid(c.node, c.id)

\* A request that changes is the only one that does.
LEMMA CallIs ==
  ASSUME NEW p \in Perceptions, call \in [Perceive(p)!Readers -> Calls(p)],
         NEW r \in Perceive(p)!Readers, NEW c \in Calls(p), call' = [call EXCEPT ![r] = c]
  PROVE  /\ call' \in [Perceive(p)!Readers -> Calls(p)] /\ call'[r] = c
         /\ \A s \in Perceive(p)!Readers : s # r => call'[s] = call[s]
OBVIOUS

\* A request that goes on is for the same result.
LEMMA BecameIs ==
  ASSUME NEW p \in Perceptions, call \in [Perceive(p)!Readers -> Calls(p)],
         NEW r \in Perceive(p)!Readers,
         NEW at \in {"none", "asked", "got", "checked", "replied", "failed"}, Perceive(p)!Became(r, at)
  PROVE  /\ call' \in [Perceive(p)!Readers -> Calls(p)]
         /\ call'[r].pc = at /\ call'[r].of = call[r].of /\ call'[r].node = call[r].node
         /\ call'[r].id = call[r].id
         /\ \A s \in Perceive(p)!Readers : s # r => call'[s] = call[s]
<1> DEFINE c == [call[r] EXCEPT !.pc = at]
<1>1. call[r] \in Calls(p)
  OBVIOUS
<1>2. c \in Calls(p) /\ c.pc = at /\ c.of = call[r].of /\ c.node = call[r].node /\ c.id = call[r].id
  BY <1>1 DEF Calls
<1>3. call' = [call EXCEPT ![r] = c]
  BY DEF Perceive!Became
<1> HIDE DEF c
<1> QED
  BY <1>2, <1>3, CallIs

\* A request to a node.
LEMMA RequestIs ==
  ASSUME NEW p \in Perceptions, ResultsInv(p), ReadersTyped(p), NEW r \in Perceive(p)!Readers,
         \/ Perceive(p)!LookupLocation(r) \/ Perceive(p)!Lookup(r) \/ Perceive(p)!LookupSegment(r)
         \/ Perceive(p)!Reply(r) \/ Perceive(p)!ReplyLocation(r) \/ Perceive(p)!CallFails(r)
  PROVE  /\ ReadersTyped(p)' /\ UNCHANGED <<robot, view, shown>>
         /\ \A s \in Perceive(p)!Readers : Served(p, s)
<1>0. call \in [Perceive(p)!Readers -> Calls(p)] /\ call[r] \in Calls(p)
  BY DEF ReadersTyped
<1>1. CASE Perceive(p)!LookupLocation(r)
  <2> DEFINE at == IF Perceive(p)!Valid("vision", call[r].id) THEN "got" ELSE "failed"
  <2>1. /\ call[r].node = "vision" /\ Perceive(p)!Became(r, at) /\ UNCHANGED <<robot, view, shown>>
        /\ at \in {"got", "failed"}
    BY <1>1 DEF Perceive!LookupLocation, Perceive!others
  <2> HIDE DEF at
  <2> QED
    BY <1>0, <2>1, BecameIs DEF ReadersTyped, Served
<1>2. CASE Perceive(p)!Lookup(r)
  <2> DEFINE c == call[r]
             id == IF c.of = "latest" THEN latest[c.node] ELSE c.id
             bad == [c EXCEPT !.pc = "failed"]
             good == [c EXCEPT !.id = id,
                        !.pc = IF c.node # "grasp" /\ c.of = "latest" THEN "replied" ELSE "got"]
  <2>1. /\ c.pc = "asked" /\ c.node # "vision" /\ UNCHANGED <<robot, view, shown>>
        /\ \/ call' = [call EXCEPT ![r] = bad]
           \/ Perceive(p)!Valid(c.node, id) /\ call' = [call EXCEPT ![r] = good]
    BY <1>2 DEF Perceive!Lookup, Perceive!others
  <2>2. id \in Perceive(p)!Ids /\ c \in Calls(p)
    BY <1>0 DEF ResultsInv, Calls
  <2>3. CASE call' = [call EXCEPT ![r] = bad]
    <3>1. bad \in Calls(p) /\ bad.pc = "failed" /\ bad.of = c.of /\ bad.node = c.node /\ bad.id = c.id
      BY <2>2 DEF Calls
    <3> HIDE DEF bad
    <3> QED
      BY <1>0, <2>1, <2>3, <3>1, CallIs DEF ReadersTyped, Served
  <2>4. CASE Perceive(p)!Valid(c.node, id) /\ call' = [call EXCEPT ![r] = good]
    <3>1. /\ good \in Calls(p) /\ good.of = c.of /\ good.node = c.node /\ good.id = id
          /\ good.pc \in {"got", "replied"} /\ (good.pc = "replied" => c.node # "grasp")
      BY <2>2 DEF Calls
    <3> HIDE DEF good
    <3> QED
      BY <1>0, <2>1, <2>4, <3>1, CallIs DEF ReadersTyped, Served
  <2> QED
    BY <2>1, <2>3, <2>4
<1>3. CASE Perceive(p)!LookupSegment(r)
  <2> DEFINE at == IF Perceive(p)!Valid("segment", made["grasp"][call[r].id]) THEN "checked" ELSE "failed"
  <2>1. /\ call[r].node = "grasp" /\ call[r].pc = "got" /\ Perceive(p)!Became(r, at)
        /\ UNCHANGED <<robot, view, shown>>
        /\ at \in {"checked", "failed"}
        /\ at = "checked" => Perceive(p)!Valid("segment", made["grasp"][call[r].id])
    BY <1>3 DEF Perceive!LookupSegment, Perceive!others
  <2> HIDE DEF at
  <2> QED
    BY <1>0, <2>1, BecameIs DEF ReadersTyped, Served
<1>4. CASE Perceive(p)!Reply(r) \/ Perceive(p)!ReplyLocation(r)
  <2> DEFINE at == IF Perceive(p)!Confirmed(call[r]) THEN "replied" ELSE "failed"
  <2>1. /\ call[r].pc \in {"got", "checked"} /\ (call[r].node = "grasp" => call[r].pc = "checked")
        /\ Perceive(p)!Became(r, at) /\ UNCHANGED <<robot, view, shown>>
        /\ at \in {"replied", "failed"}
        /\ at = "replied" => Perceive(p)!Valid(call[r].node, call[r].id)
    BY <1>4 DEF Perceive!Reply, Perceive!ReplyLocation, Perceive!Confirmed, Perceive!others
  <2> HIDE DEF at
  <2> QED
    BY <1>0, <2>1, BecameIs DEF ReadersTyped, Served
<1>5. CASE Perceive(p)!CallFails(r)
  <2>1. Perceive(p)!Became(r, "failed") /\ UNCHANGED <<robot, view, shown>>
    BY <1>5 DEF Perceive!CallFails, Perceive!others
  <2> QED
    BY <1>0, <2>1, BecameIs DEF ReadersTyped, Served
<1> QED
  BY <1>1, <1>2, <1>3, <1>4, <1>5

\* The restart of a node fails the requests it had not answered.
LEMMA RestartIs ==
  ASSUME NEW p \in Perceptions, ReadersTyped(p), NEW n \in PNodes, Perceive(p)!Restart(n)
  PROVE  /\ ReadersTyped(p)' /\ UNCHANGED <<robot, view, shown>>
         /\ Served(p, "robot") /\ Served(p, "view")
         /\ \A s \in Perceive(p)!Readers : call'[s].pc = "replied" => call[s].pc = "replied"
<1>1. /\ UNCHANGED <<robot, view, shown>>
      /\ call' = [s \in Perceive(p)!Readers |->
                   IF s = n THEN Perceive(p)!NoCall
                   ELSE IF call[s].node = n /\ call[s].pc \in {"asked", "got", "checked"}
                   THEN [call[s] EXCEPT !.pc = "failed"] ELSE call[s]]
  BY DEF Perceive!Restart
<1>2. /\ Perceive(p)!NoCall \in Calls(p) /\ Perceive(p)!NoCall.pc = "none"
      /\ "robot" \in Perceive(p)!Readers /\ "view" \in Perceive(p)!Readers
      /\ "robot" # n /\ "view" # n
  BY NodesAssumption DEF Perceive!NoCall, Calls, Perceive!Ids, PNodes, Perceive!Readers
<1>3. ASSUME NEW s \in Perceive(p)!Readers
      PROVE  /\ call'[s] \in Calls(p) /\ (call'[s].pc = "replied" => call[s].pc = "replied")
             /\ s # n => \/ call'[s] = call[s]
                         \/ call'[s].pc = "failed" /\ call'[s].of = call[s].of
                            /\ call'[s].node = call[s].node /\ call'[s].id = call[s].id
  <2> DEFINE failed == [call[s] EXCEPT !.pc = "failed"]
  <2>1. call[s] \in Calls(p)
    BY DEF ReadersTyped
  <2>2. /\ failed \in Calls(p) /\ failed.pc = "failed" /\ failed.of = call[s].of
        /\ failed.node = call[s].node /\ failed.id = call[s].id
    BY <2>1 DEF Calls
  <2>3. call'[s] \in {call[s], failed} \/ (s = n /\ call'[s] = Perceive(p)!NoCall)
    BY <1>1
  <2> HIDE DEF failed
  <2> QED
    BY <1>2, <2>1, <2>2, <2>3
<1>4. call' \in [Perceive(p)!Readers -> Calls(p)]
  BY <1>1, <1>3
<1> QED
  BY <1>1, <1>2, <1>3, <1>4 DEF ReadersTyped, Served

\* A result that is not valid, or whose mask is not, does not become so.
LEMMA NeverAgain ==
  ASSUME NEW p \in Perceptions, ResultsInv(p), Lasting(p),
         NEW n \in PNodes, NEW id \in 1..Len(made[n])
  PROVE  /\ id \in 1..Len(made'[n])
         /\ Perceive(p)!Valid(n, id)' => Perceive(p)!Valid(n, id)
         /\ Perceive(p)!ValidWithSource(n, id)' => Perceive(p)!ValidWithSource(n, id)
<1>1. /\ Len(made[n]) <= Len(made'[n]) /\ made'[n][id] = made[n][id]
      /\ Perceive(p)!Valid(n, id)' => Perceive(p)!Valid(n, id)
      /\ Len(made[n]) \in Nat
  BY DEF Lasting, ResultsInv
<1>2. ASSUME n = "grasp"
      PROVE  Perceive(p)!Valid("segment", made[n][id])' => Perceive(p)!Valid("segment", made[n][id])
  <2>1. made["grasp"][id] \in 1..Len(made["segment"]) /\ "segment" \in PNodes
    BY <1>2 DEF ResultsInv, PNodes
  <2>2. PICK mask \in 1..Len(made["segment"]) : mask = made[n][id]
    BY <1>2, <2>1
  <2>3. Perceive(p)!Valid("segment", mask)' => Perceive(p)!Valid("segment", mask)
    BY <2>1 DEF Lasting
  <2> QED
    BY <1>1, <2>2, <2>3 DEF Perceive!Valid
<1> QED
  BY <1>1, <1>2 DEF Perceive!ValidWithSource

\* While its reader waits.
LEMMA RobotWaits ==
  ASSUME NEW p \in Perceptions, ResultsInv(p), ReadersTyped(p), RobotInv(p), Lasting(p),
         Served(p, "robot"), UNCHANGED robot
  PROVE  RobotInv(p)'
<1> DEFINE c == call["robot"]
           d == call'["robot"]
<1>0. "grasp" \in PNodes
  BY DEF PNodes
<1>1. robot.pc \notin {"absent", "idle"} => robot.id \in 1..Len(made'["grasp"])
  BY <1>0, NeverAgain DEF RobotInv
<1>2. ASSUME robot.pc = "rereading" PROVE d.of = "data" /\ d.node = "grasp" /\ d.id = robot.id
  BY <1>2 DEF RobotInv, Served
<1>3. ASSUME robot.pc = "rereading", ~robot.fresh
      PROVE  /\ d.pc # "replied" /\ ~Perceive(p)!ValidWithSource("grasp", robot.id)'
             /\ d.pc = "checked" => ~Perceive(p)!Valid("grasp", robot.id)'
  <2>1. /\ c.pc # "replied" /\ ~Perceive(p)!ValidWithSource("grasp", robot.id)
        /\ c.pc = "checked" => ~Perceive(p)!Valid("grasp", robot.id)
        /\ c.of = "data" /\ c.node = "grasp" /\ c.id = robot.id
        /\ robot.id \in 1..Len(made["grasp"])
    BY <1>3 DEF RobotInv
  <2>2. PICK id \in 1..Len(made["grasp"]) : id = robot.id
    BY <2>1
  <2>3. /\ Perceive(p)!Valid("grasp", id)' => Perceive(p)!Valid("grasp", id)
        /\ Perceive(p)!ValidWithSource("grasp", id)' => Perceive(p)!ValidWithSource("grasp", id)
    BY <1>0, NeverAgain
  <2>4. /\ Perceive(p)!Valid("grasp", robot.id)' = Perceive(p)!Valid("grasp", id)'
        /\ Perceive(p)!ValidWithSource("grasp", robot.id)' = Perceive(p)!ValidWithSource("grasp", id)'
    BY <2>2 DEF Perceive!Valid, Perceive!ValidWithSource
  <2>5. d.pc # "replied"
    BY <2>1 DEF Served
  <2>6. d.pc = "checked" => ~Perceive(p)!Valid("grasp", id)
    BY <2>1, <2>2 DEF Served, Perceive!ValidWithSource
  <2> QED
    BY <2>1, <2>2, <2>3, <2>4, <2>5, <2>6
<1> QED
  BY <1>1, <1>2, <1>3 DEF RobotInv

\* The same of the preview.
LEMMA ViewWaits ==
  ASSUME NEW p \in Perceptions, ResultsInv(p), ReadersTyped(p), ViewInv(p), Lasting(p),
         Served(p, "view"), UNCHANGED view
  PROVE  ViewInv(p)'
<1> DEFINE c == call["view"]
           d == call'["view"]
<1>0. view.node \in PNodes /\ view.node # "vision" /\ view.node \in {"segment", "grasp"}
  BY DEF PNodes, ReadersTyped
<1>1. view.pc \in {"reading", "encoding", "confirming"} => view.id \in 1..Len(made'[view.node])
  <2>1. PICK n \in PNodes : n = view.node
    BY <1>0
  <2> QED
    BY <2>1, NeverAgain DEF ViewInv
<1>2. view.pc \in {"asking", "confirming"} => d.of = "latest" /\ d.node = view.node
  BY DEF ViewInv, Served
<1>3. ASSUME view.pc = "asking", d.pc \in {"got", "checked", "replied"}
      PROVE  d.id \in 1..Len(made'[view.node])
  <2>1. c.of = "latest" /\ c.node = view.node
    BY <1>3 DEF ViewInv
  <2>2. d.id \in 1..Len(made[view.node])
    <3>1. CASE c.pc \in {"got", "checked", "replied"} /\ d.id = c.id
      BY <1>3, <3>1 DEF ViewInv
    <3>2. CASE Perceive(p)!Valid(c.node, d.id)
      BY <1>0, <2>1, <3>2 DEF Perceive!Valid, ResultsInv
    <3> QED
      BY <1>0, <1>3, <2>1, <3>1, <3>2 DEF Served
  <2>3. PICK n \in PNodes : n = view.node
    BY <1>0
  <2> QED
    BY <2>2, <2>3, NeverAgain
<1>4. ASSUME view.pc = "confirming", ~view.fresh
      PROVE  /\ ~(Perceive(p)!ValidWithSource(view.node, view.id)' /\ latest'[view.node] = view.id)
             /\ d.id = view.id /\ d.pc \in {"got", "checked"} =>
                  view.node = "grasp" /\ ~Perceive(p)!ValidWithSource("grasp", view.id)'
             /\ d.id = view.id /\ d.pc = "checked" => ~Perceive(p)!Valid("grasp", view.id)'
             /\ d.id = view.id => d.pc # "replied"
  <2>1. /\ ~(Perceive(p)!ValidWithSource(view.node, view.id) /\ latest[view.node] = view.id)
        /\ c.id = view.id /\ c.pc \in {"got", "checked"} =>
             view.node = "grasp" /\ ~Perceive(p)!ValidWithSource("grasp", view.id)
        /\ c.id = view.id /\ c.pc = "checked" => ~Perceive(p)!Valid("grasp", view.id)
        /\ c.id = view.id => c.pc # "replied"
        /\ c.of = "latest" /\ c.node = view.node
        /\ view.id \in 1..Len(made[view.node])
    BY <1>4 DEF ViewInv
  <2> PICK n \in PNodes : n = view.node
    BY <1>0
  <2>2. PICK id \in 1..Len(made[n]) : n = view.node /\ id = view.id
    BY <1>0, <2>1
  <2>3. /\ Perceive(p)!Valid(n, id)' => Perceive(p)!Valid(n, id)
        /\ Perceive(p)!ValidWithSource(n, id)' => Perceive(p)!ValidWithSource(n, id)
        /\ latest'[n] = id => latest[n] = id
    BY NeverAgain DEF Lasting
  <2>4. /\ Perceive(p)!Valid(view.node, view.id)' = Perceive(p)!Valid(n, id)'
        /\ Perceive(p)!ValidWithSource(view.node, view.id)' = Perceive(p)!ValidWithSource(n, id)'
    BY <2>2 DEF Perceive!Valid, Perceive!ValidWithSource
  <2>5. d.id = id => d.pc # "replied"
    BY <1>0, <2>1, <2>2 DEF Served, Perceive!ValidWithSource
  <2>6. d.id = id /\ d.pc \in {"got", "checked"} =>
          n = "grasp" /\ ~Perceive(p)!ValidWithSource("grasp", id)
    BY <1>0, <2>1, <2>2 DEF Served, Perceive!ValidWithSource
  <2>7. d.id = id /\ d.pc = "checked" => ~Perceive(p)!Valid("grasp", id)
    BY <1>0, <2>1, <2>2 DEF Served, Perceive!ValidWithSource
  <2> QED
    BY <2>1, <2>2, <2>3, <2>4, <2>5, <2>6, <2>7
<1> QED
  BY <1>1, <1>2, <1>3, <1>4 DEF ViewInv

\* A reply that has just come is of a valid result.
Honest(p) ==
  \A s \in Perceive(p)!Readers :
    call'[s].pc = "replied" /\ call[s].pc # "replied"
      => Perceive(p)!Valid(call'[s].node, call'[s].id)

\* A picture appears only of what was the latest after it was drawn.
Drawn(p) == \A n \in DOMAIN shown : shown'[n] \notin {0, shown[n]} => view.fresh

\* A request that was only served was answered with a valid result.
LEMMA ServedIsHonest ==
  ASSUME NEW p \in Perceptions, ReadersTyped(p), \A s \in Perceive(p)!Readers : Served(p, s)
  PROVE  Honest(p)
<1> SUFFICES ASSUME NEW s \in Perceive(p)!Readers,
                    call'[s].pc = "replied", call[s].pc # "replied"
             PROVE  Perceive(p)!Valid(call'[s].node, call'[s].id)
  BY DEF Honest
<1> QED
  BY DEF Served

\* What the actions of nodes do to requests.
LEMMA NodesAsk ==
  ASSUME NEW p \in Perceptions, ResultsInv(p), ReadersTyped(p), NEW n \in PNodes,
         Perceive(p)!Begin(n) \/ Perceive(p)!SourceRead(n)
  PROVE  /\ ReadersTyped(p)' /\ UNCHANGED <<robot, view, shown>>
         /\ Served(p, "robot") /\ Served(p, "view") /\ Honest(p)
<1>0. /\ call \in [Perceive(p)!Readers -> Calls(p)] /\ UNCHANGED <<robot, view, shown>>
      /\ "robot" \in Perceive(p)!Readers /\ "view" \in Perceive(p)!Readers /\ "robot" # n /\ "view" # n
  BY DEF ReadersTyped, Perceive!Begin, Perceive!SourceRead, Perceive!Readers, PNodes
<1>1. ASSUME NEW r \in Perceive(p)!Readers, r \in PNodes, NEW c \in Calls(p), c.pc \in {"none", "asked"},
             call' = [call EXCEPT ![r] = c]
      PROVE  /\ ReadersTyped(p)' /\ UNCHANGED <<robot, view, shown>>
             /\ Served(p, "robot") /\ Served(p, "view") /\ Honest(p)
  <2>1. /\ call' \in [Perceive(p)!Readers -> Calls(p)] /\ call'[r] = c
        /\ \A s \in Perceive(p)!Readers : s # r => call'[s] = call[s]
    BY <1>0, <1>1, CallIs
  <2>2. "robot" # r /\ "view" # r
    BY <1>1 DEF PNodes
  <2>3. ReadersTyped(p)' /\ Served(p, "robot") /\ Served(p, "view")
    BY <1>0, <2>1, <2>2 DEF ReadersTyped, Served
  <2>4. Honest(p)
    BY <1>1, <2>1 DEF Honest
  <2> QED
    BY <1>0, <2>3, <2>4
<1>2. CASE call' = call
  BY <1>0, <1>2 DEF ReadersTyped, Served, Honest
<1>3. CASE Perceive(p)!SourceRead(n)
  <2>1. Perceive(p)!NoCall \in Calls(p) /\ Perceive(p)!NoCall.pc = "none"
    BY NodesAssumption DEF Perceive!NoCall, Calls, Perceive!Ids, PNodes
  <2>2. call' = [call EXCEPT ![n] = Perceive(p)!NoCall]
    BY <1>3 DEF Perceive!SourceRead, Perceive!Drop
  <2>3. CASE n \in Perceive(p)!Readers
    BY <1>1, <2>1, <2>2, <2>3
  <2>4. CASE n \notin Perceive(p)!Readers
    <3>1. call' = call
      BY <1>0, <2>2, <2>4
    <3> QED
      BY <1>2, <3>1
  <2> QED
    BY <2>3, <2>4
<1>4. CASE Perceive(p)!Begin(n)
  <2>1. CASE Perceive(p)!Source[n] = "camera"
    BY <1>2, <1>4, <2>1 DEF Perceive!Begin
  <2>2. CASE Perceive(p)!Source[n] # "camera"
    <3>1. n \in Perceive(p)!Readers /\ Perceive(p)!Source[n] \in PNodes
      BY <2>2 DEF Perceive!Source, Perceive!Readers, PNodes
    <3>2. PICK id \in DOMAIN made[Perceive(p)!Source[n]] :
            Perceive(p)!Ask(n, "data", Perceive(p)!Source[n], id)
      BY <1>4, <2>2 DEF Perceive!Begin
    <3>3. id \in Perceive(p)!Ids
      <4>1. made[Perceive(p)!Source[n]] \in Seq(Perceive(p)!Ids) /\ Len(made[Perceive(p)!Source[n]]) <= ResultsMade[p]
        BY <3>1 DEF ResultsInv
      <4>2. ResultsMade[p] \in Nat
        BY NodesAssumption
      <4> QED
        BY <3>2, <4>1, <4>2 DEF Perceive!Ids
    <3> DEFINE c == [pc |-> "asked", of |-> "data", node |-> Perceive(p)!Source[n], id |-> id]
    <3>4. c \in Calls(p) /\ c.pc = "asked" /\ call' = [call EXCEPT ![n] = c]
      BY <3>1, <3>2, <3>3 DEF Calls, Perceive!Ask
    <3> HIDE DEF c
    <3> QED
      BY <1>1, <3>1, <3>4
  <2> QED
    BY <2>1, <2>2
<1> QED
  BY <1>3, <1>4

\* The actions of the robot.
LEMMA RobotActs ==
  ASSUME NEW p \in Perceptions, ResultsInv(p), ReadersTyped(p), RobotInv(p),
         \/ Perceive(p)!RobotBegins \/ Perceive(p)!RobotPlans \/ Perceive(p)!RobotPlanned
         \/ Perceive(p)!RobotMoves \/ Perceive(p)!RobotEnds
  PROVE  /\ ReadersTyped(p)' /\ UNCHANGED <<view, shown>> /\ RobotInv(p)'
         /\ Served(p, "view") /\ Honest(p)
<1>0. /\ call \in [Perceive(p)!Readers -> Calls(p)]
      /\ "robot" \in Perceive(p)!Readers /\ "view" \in Perceive(p)!Readers
      /\ ResultsMade[p] \in Nat /\ 0 \in Perceive(p)!Ids
      /\ made["grasp"] \in Seq(Perceive(p)!Ids) /\ Len(made["grasp"]) <= ResultsMade[p]
      /\ robot.id \in Perceive(p)!Ids /\ robot.fresh \in BOOLEAN
  BY NodesAssumption DEF ReadersTyped, Perceive!Readers, ResultsInv, PNodes, Perceive!Ids
<1>1. UNCHANGED <<made, nodeEpoch, cache, latest, view, shown>>
  BY DEF Perceive!RobotBegins, Perceive!RobotPlans, Perceive!RobotPlanned, Perceive!RobotMoves,
         Perceive!RobotEnds
<1> DEFINE Robots == [pc : {"absent", "idle", "reading", "planning", "rereading", "moving"},
                      id : Perceive(p)!Ids, fresh : BOOLEAN]
<1>2. ASSUME NEW c \in Calls(p), c.pc \in {"none", "asked"}, call' = [call EXCEPT !["robot"] = c],
             robot' \in Robots
      PROVE  /\ ReadersTyped(p)' /\ call'["robot"] = c /\ Served(p, "view") /\ Honest(p)
  <2>1. /\ call' \in [Perceive(p)!Readers -> Calls(p)] /\ call'["robot"] = c
        /\ \A s \in Perceive(p)!Readers : s # "robot" => call'[s] = call[s]
    BY <1>0, <1>2, CallIs
  <2>2. ReadersTyped(p)' /\ Served(p, "view")
    BY <1>0, <1>1, <1>2, <2>1 DEF ReadersTyped, Served
  <2>3. Honest(p)
    BY <1>2, <2>1 DEF Honest
  <2> QED
    BY <2>1, <2>2, <2>3
<1>3. Perceive(p)!NoCall \in Calls(p) /\ Perceive(p)!NoCall.pc = "none"
  BY <1>0 DEF Perceive!NoCall, Calls, PNodes
<1>4. CASE Perceive(p)!RobotBegins
  <2>1. PICK id \in DOMAIN made["grasp"] :
          /\ robot' = [Perceive(p)!NoMotion EXCEPT !.pc = "reading", !.id = id]
          /\ call' = [call EXCEPT !["robot"] = [pc |-> "asked", of |-> "data", node |-> "grasp", id |-> id]]
    BY <1>4 DEF Perceive!RobotBegins, Perceive!Ask
  <2>2. id \in 1..Len(made["grasp"]) /\ id \in Perceive(p)!Ids
    BY <1>0, <2>1 DEF Perceive!Ids
  <2>3. robot' \in Robots /\ robot'.pc = "reading" /\ robot'.id = id
    BY <2>1, <2>2 DEF Perceive!NoMotion
  <2> DEFINE c == [pc |-> "asked", of |-> "data", node |-> "grasp", id |-> id]
  <2>4. c \in Calls(p) /\ c.pc = "asked"
    BY <2>2 DEF Calls, PNodes
  <2>5. ReadersTyped(p)' /\ call'["robot"] = c /\ Served(p, "view") /\ Honest(p)
    BY <1>2, <2>1, <2>3, <2>4
  <2>6. RobotInv(p)'
    BY <1>1, <2>2, <2>3 DEF RobotInv
  <2> QED
    BY <1>1, <2>5, <2>6
<1>5. CASE Perceive(p)!RobotPlans
  <2>1. /\ robot.pc = "reading" /\ robot' = [robot EXCEPT !.pc = "planning"]
        /\ call' = [call EXCEPT !["robot"] = Perceive(p)!NoCall]
    BY <1>5 DEF Perceive!RobotPlans, Perceive!Drop
  <2>2. robot' \in Robots /\ robot'.pc = "planning" /\ robot'.id = robot.id
    BY <2>1 DEF ReadersTyped
  <2>3. ReadersTyped(p)' /\ Served(p, "view") /\ Honest(p)
    BY <1>2, <1>3, <2>1, <2>2
  <2>4. RobotInv(p)'
    BY <1>1, <2>1, <2>2 DEF RobotInv
  <2> QED
    BY <1>1, <2>3, <2>4
<1>6. CASE Perceive(p)!RobotPlanned
  <2>1. /\ robot.pc = "planning"
        /\ robot' = [robot EXCEPT !.pc = "rereading",
                                  !.fresh = Perceive(p)!ValidWithSource("grasp", robot.id)]
        /\ call' = [call EXCEPT !["robot"] =
                     [pc |-> "asked", of |-> "data", node |-> "grasp", id |-> robot.id]]
    BY <1>6 DEF Perceive!RobotPlanned, Perceive!Ask
  <2> DEFINE c == [pc |-> "asked", of |-> "data", node |-> "grasp", id |-> robot.id]
             good == Perceive(p)!ValidWithSource("grasp", robot.id)
  <2>2. c \in Calls(p) /\ c.pc = "asked" /\ c.of = "data" /\ c.node = "grasp" /\ c.id = robot.id
    BY <1>0 DEF Calls, PNodes
  <2>3. good \in BOOLEAN
    BY DEF Perceive!ValidWithSource, Perceive!Valid
  <2>4. /\ robot' \in Robots /\ robot'.pc = "rereading" /\ robot'.id = robot.id
        /\ robot'.fresh = good
    <3> HIDE DEF good
    <3>1. robot' = [robot EXCEPT !.pc = "rereading", !.fresh = good]
      BY <2>1 DEF good
    <3> QED
      BY <2>3, <3>1 DEF ReadersTyped
  <2>5. ReadersTyped(p)' /\ call'["robot"] = c /\ Served(p, "view") /\ Honest(p)
    <3> HIDE DEF c
    <3>1. call' = [call EXCEPT !["robot"] = c]
      BY <2>1 DEF c
    <3> QED
      BY <1>2, <2>2, <2>4, <3>1
  <2>6. Perceive(p)!ValidWithSource("grasp", robot.id)' = Perceive(p)!ValidWithSource("grasp", robot.id)
    BY <1>1, <2>4 DEF Perceive!ValidWithSource, Perceive!Valid
  <2>7. RobotInv(p)'
    <3>1. robot.id \in 1..Len(made["grasp"])
      BY <2>1 DEF RobotInv
    <3> QED
      BY <1>1, <2>2, <2>4, <2>5, <2>6, <3>1 DEF RobotInv
  <2> QED
    BY <1>1, <2>5, <2>7
<1>7. CASE Perceive(p)!RobotMoves
  <2>1. /\ robot.pc = "rereading" /\ call["robot"].pc = "replied"
        /\ robot' = [robot EXCEPT !.pc = "moving"]
        /\ call' = [call EXCEPT !["robot"] = Perceive(p)!NoCall]
    BY <1>7 DEF Perceive!RobotMoves, Perceive!Drop
  <2>2. robot' \in Robots /\ robot'.pc = "moving" /\ robot'.id = robot.id /\ robot'.fresh = robot.fresh
    BY <2>1 DEF ReadersTyped
  <2>3. ReadersTyped(p)' /\ Served(p, "view") /\ Honest(p)
    BY <1>2, <1>3, <2>1, <2>2
  <2>4. robot.fresh /\ robot.id \in 1..Len(made["grasp"])
    BY <2>1 DEF RobotInv
  <2>5. RobotInv(p)'
    BY <1>1, <2>1, <2>2, <2>4 DEF RobotInv
  <2> QED
    BY <1>1, <2>3, <2>5
<1>8. CASE Perceive(p)!RobotEnds
  <2>1. robot' = Perceive(p)!NoMotion /\ call' = [call EXCEPT !["robot"] = Perceive(p)!NoCall]
    BY <1>8 DEF Perceive!RobotEnds, Perceive!Drop
  <2>2. robot' \in Robots /\ robot'.pc = "idle"
    BY <1>0, <2>1 DEF Perceive!NoMotion
  <2>3. ReadersTyped(p)' /\ Served(p, "view") /\ Honest(p)
    BY <1>2, <1>3, <2>1, <2>2
  <2>4. RobotInv(p)'
    BY <2>2 DEF RobotInv
  <2> QED
    BY <1>1, <2>3, <2>4
<1> QED
  BY <1>4, <1>5, <1>6, <1>7, <1>8

Views(p) == [pc : {"absent", "idle", "asking", "reading", "encoding", "confirming"},
             node : {"segment", "grasp"}, id : Perceive(p)!Ids, fresh : BOOLEAN]

\* The actions of the preview.
LEMMA ViewActs ==
  ASSUME NEW p \in Perceptions, ResultsInv(p), ReadersTyped(p), ViewInv(p),
         \/ \E n \in {"segment", "grasp"} : Perceive(p)!ViewAsks(n) \/ Perceive(p)!ViewDrops(n)
         \/ Perceive(p)!ViewReads \/ Perceive(p)!ViewEncodes \/ Perceive(p)!ViewEncoded
         \/ Perceive(p)!ViewShows \/ Perceive(p)!ViewFails
  PROVE  /\ ReadersTyped(p)' /\ UNCHANGED robot /\ ViewInv(p)'
         /\ Served(p, "robot") /\ Honest(p) /\ Drawn(p)
<1>0. /\ call \in [Perceive(p)!Readers -> Calls(p)]
      /\ "robot" \in Perceive(p)!Readers /\ "view" \in Perceive(p)!Readers
      /\ 0 \in Perceive(p)!Ids /\ view \in Views(p) /\ shown \in [{"segment", "grasp"} -> Perceive(p)!Ids]
      /\ call["view"].id \in Perceive(p)!Ids
  BY NodesAssumption DEF ReadersTyped, Perceive!Readers, Perceive!Ids, Views, Calls
<1>1. UNCHANGED <<made, nodeEpoch, cache, latest, robot>>
  BY DEF Perceive!ViewAsks, Perceive!ViewDrops, Perceive!ViewReads, Perceive!ViewEncodes,
         Perceive!ViewEncoded, Perceive!ViewShows, Perceive!ViewFails
<1>2. ASSUME NEW c \in Calls(p), c.pc \in {"none", "asked"}, call' = [call EXCEPT !["view"] = c],
             view' \in Views(p), shown' \in [{"segment", "grasp"} -> Perceive(p)!Ids]
      PROVE  /\ ReadersTyped(p)' /\ call'["view"] = c /\ Served(p, "robot") /\ Honest(p)
  <2>1. /\ call' \in [Perceive(p)!Readers -> Calls(p)] /\ call'["view"] = c
        /\ \A s \in Perceive(p)!Readers : s # "view" => call'[s] = call[s]
    BY <1>0, <1>2, CallIs
  <2>2. ReadersTyped(p)' /\ Served(p, "robot")
    BY <1>0, <1>1, <1>2, <2>1 DEF ReadersTyped, Served, Views
  <2>3. Honest(p)
    BY <1>2, <2>1 DEF Honest
  <2> QED
    BY <2>1, <2>2, <2>3
<1>3. Perceive(p)!NoCall \in Calls(p) /\ Perceive(p)!NoCall.pc = "none"
  BY <1>0 DEF Perceive!NoCall, Calls, PNodes
<1>4. Perceive(p)!NoUpdate \in Views(p) /\ Perceive(p)!NoUpdate.pc = "idle"
  BY <1>0 DEF Perceive!NoUpdate, Views
<1>5. ASSUME shown' = shown PROVE Drawn(p)
  BY <1>5 DEF Drawn
<1>6. ASSUME NEW id \in Perceive(p)!Ids, Perceive(p)!Show(id)
      PROVE  /\ shown' \in [{"segment", "grasp"} -> Perceive(p)!Ids]
             /\ id \in {0, shown[view.node]} \/ view.fresh => Drawn(p)
  <2>1. /\ shown' \in [{"segment", "grasp"} -> Perceive(p)!Ids]
        /\ \A n \in {"segment", "grasp"} : shown'[n] = IF n = view.node THEN id ELSE shown[n]
    BY <1>0, <1>6 DEF Perceive!Show
  <2>2. DOMAIN shown = {"segment", "grasp"}
    BY <1>0
  <2>3. ASSUME id \in {0, shown[view.node]} PROVE Drawn(p)
    BY <2>1, <2>2, <2>3 DEF Drawn
  <2>4. ASSUME view.fresh PROVE Drawn(p)
    BY <2>4 DEF Drawn
  <2> QED
    BY <2>1, <2>3, <2>4
<1>7. ASSUME NEW n \in {"segment", "grasp"}, Perceive(p)!ViewAsks(n)
      PROVE  /\ ReadersTyped(p)' /\ ViewInv(p)' /\ Served(p, "robot") /\ Honest(p) /\ Drawn(p)
  <2> DEFINE c == [pc |-> "asked", of |-> "latest", node |-> n, id |-> 0]
  <2>1. /\ view' = [Perceive(p)!NoUpdate EXCEPT !.pc = "asking", !.node = n]
        /\ call' = [call EXCEPT !["view"] = c] /\ shown' = shown
    BY <1>7 DEF Perceive!ViewAsks, Perceive!Ask
  <2>2. view' \in Views(p) /\ view'.pc = "asking" /\ view'.node = n
    BY <1>0, <2>1 DEF Perceive!NoUpdate, Views
  <2>3. c \in Calls(p) /\ c.pc = "asked" /\ c.of = "latest" /\ c.node = n
    BY <1>0 DEF Calls, PNodes
  <2> HIDE DEF c
  <2>4. ReadersTyped(p)' /\ call'["view"] = c /\ Served(p, "robot") /\ Honest(p)
    BY <1>0, <1>2, <2>1, <2>2, <2>3
  <2>5. ViewInv(p)'
    BY <2>2, <2>3, <2>4 DEF ViewInv
  <2> QED
    BY <1>5, <2>1, <2>4, <2>5
<1>8. ASSUME NEW n \in {"segment", "grasp"}, Perceive(p)!ViewDrops(n)
      PROVE  /\ ReadersTyped(p)' /\ ViewInv(p)' /\ Served(p, "robot") /\ Honest(p) /\ Drawn(p)
  <2>1. shown' = [shown EXCEPT ![n] = 0] /\ UNCHANGED <<call, view>>
    BY <1>8 DEF Perceive!ViewDrops
  <2>2. ReadersTyped(p)'
    BY <1>0, <1>1, <2>1 DEF ReadersTyped
  <2>3. ViewInv(p)'
    BY <1>1, <2>1 DEF ViewInv, Perceive!Valid, Perceive!ValidWithSource
  <2>4. Drawn(p)
    BY <1>0, <2>1 DEF Drawn
  <2> QED
    BY <2>1, <2>2, <2>3, <2>4 DEF Served, Honest
<1>9. ASSUME Perceive(p)!ViewReads
      PROVE  /\ ReadersTyped(p)' /\ ViewInv(p)' /\ Served(p, "robot") /\ Honest(p) /\ Drawn(p)
  <2>1. CASE call["view"].id = shown[view.node]
    <3>1. view' = Perceive(p)!NoUpdate /\ call' = [call EXCEPT !["view"] = Perceive(p)!NoCall] /\ shown' = shown
      BY <1>9, <2>1 DEF Perceive!ViewReads, Perceive!Drop
    <3>2. ReadersTyped(p)' /\ Served(p, "robot") /\ Honest(p)
      BY <1>0, <1>2, <1>3, <1>4, <3>1
    <3>3. ViewInv(p)'
      BY <1>4, <3>1 DEF ViewInv
    <3> QED
      BY <1>5, <3>1, <3>2, <3>3
  <2>2. CASE call["view"].id # shown[view.node]
    <3> DEFINE c == [pc |-> "asked", of |-> "data", node |-> view.node, id |-> call["view"].id]
               left == IF view.node = "grasp" THEN 0 ELSE shown[view.node]
    <3>1. /\ view' = [view EXCEPT !.pc = "reading", !.id = call["view"].id]
          /\ call' = [call EXCEPT !["view"] = c] /\ Perceive(p)!Show(left)
          /\ view.pc = "asking" /\ call["view"].pc = "replied"
      BY <1>9, <2>2 DEF Perceive!ViewReads, Perceive!Ask
    <3>2. view' \in Views(p) /\ view'.pc = "reading" /\ view'.id = call["view"].id /\ view'.node = view.node
      BY <1>0, <3>1 DEF Views
    <3>3. c \in Calls(p) /\ c.pc = "asked"
      BY <1>0 DEF Calls, PNodes, Views
    <3>4. left \in Perceive(p)!Ids /\ left \in {0, shown[view.node]}
      BY <1>0 DEF Views
    <3> HIDE DEF c, left
    <3>5. shown' \in [{"segment", "grasp"} -> Perceive(p)!Ids] /\ Drawn(p)
      BY <1>6, <3>1, <3>4
    <3>6. ReadersTyped(p)' /\ Served(p, "robot") /\ Honest(p)
      BY <1>0, <1>2, <3>1, <3>2, <3>3, <3>5
    <3>7. ViewInv(p)'
      <4>1. call["view"].id \in 1..Len(made[view.node])
        BY <3>1 DEF ViewInv
      <4> QED
        BY <1>1, <3>2, <4>1 DEF ViewInv
    <3> QED
      BY <3>5, <3>6, <3>7
  <2> QED
    BY <2>1, <2>2
<1>10. ASSUME Perceive(p)!ViewEncodes
       PROVE  /\ ReadersTyped(p)' /\ ViewInv(p)' /\ Served(p, "robot") /\ Honest(p) /\ Drawn(p)
  <2>1. /\ view.pc = "reading" /\ view' = [view EXCEPT !.pc = "encoding"] /\ shown' = shown
        /\ call' = [call EXCEPT !["view"] = Perceive(p)!NoCall]
    BY <1>10 DEF Perceive!ViewEncodes, Perceive!Drop
  <2>2. view' \in Views(p) /\ view'.pc = "encoding" /\ view'.id = view.id /\ view'.node = view.node
    BY <1>0, <2>1 DEF Views
  <2>3. ReadersTyped(p)' /\ Served(p, "robot") /\ Honest(p)
    BY <1>0, <1>2, <1>3, <2>1, <2>2
  <2>4. ViewInv(p)'
    BY <1>1, <2>1, <2>2 DEF ViewInv
  <2> QED
    BY <1>5, <2>1, <2>3, <2>4
<1>11. ASSUME Perceive(p)!ViewEncoded
       PROVE  /\ ReadersTyped(p)' /\ ViewInv(p)' /\ Served(p, "robot") /\ Honest(p) /\ Drawn(p)
  <2> DEFINE c == [pc |-> "asked", of |-> "latest", node |-> view.node, id |-> 0]
             good == Perceive(p)!ValidWithSource(view.node, view.id) /\ latest[view.node] = view.id
  <2>1. /\ view.pc = "encoding" /\ view' = [view EXCEPT !.pc = "confirming", !.fresh = good]
        /\ call' = [call EXCEPT !["view"] = c] /\ shown' = shown
    BY <1>11 DEF Perceive!ViewEncoded, Perceive!Ask
  <2>2. good \in BOOLEAN
    BY DEF Perceive!ValidWithSource, Perceive!Valid
  <2>3. c \in Calls(p) /\ c.pc = "asked" /\ c.of = "latest" /\ c.node = view.node
    BY <1>0 DEF Calls, PNodes, Views
  <2>4. /\ view' \in Views(p) /\ view'.pc = "confirming" /\ view'.id = view.id
        /\ view'.node = view.node /\ view'.fresh = good
    <3> HIDE DEF good
    <3> QED
      BY <1>0, <2>1, <2>2 DEF Views
  <2>5. /\ Perceive(p)!ValidWithSource(view.node, view.id)' = Perceive(p)!ValidWithSource(view.node, view.id)
        /\ latest' = latest
    BY <1>1, <2>4 DEF Perceive!ValidWithSource, Perceive!Valid
  <2> HIDE DEF c
  <2>6. ReadersTyped(p)' /\ call'["view"] = c /\ Served(p, "robot") /\ Honest(p)
    BY <1>0, <1>2, <2>1, <2>3, <2>4
  <2>7. ViewInv(p)'
    <3>1. view.id \in 1..Len(made[view.node])
      BY <2>1 DEF ViewInv
    <3> QED
      BY <1>1, <2>3, <2>4, <2>5, <2>6, <3>1 DEF ViewInv
  <2> QED
    BY <1>5, <2>1, <2>6, <2>7
<1>12. ASSUME Perceive(p)!ViewShows
       PROVE  /\ ReadersTyped(p)' /\ ViewInv(p)' /\ Served(p, "robot") /\ Honest(p) /\ Drawn(p)
  <2> DEFINE id == IF call["view"].id = view.id THEN view.id ELSE 0
  <2>1. /\ view.pc = "confirming" /\ call["view"].pc = "replied" /\ Perceive(p)!Show(id)
        /\ view' = Perceive(p)!NoUpdate /\ call' = [call EXCEPT !["view"] = Perceive(p)!NoCall]
    BY <1>12 DEF Perceive!ViewShows, Perceive!Drop
  <2>2. id \in Perceive(p)!Ids /\ (id = 0 \/ view.fresh)
    BY <1>0, <2>1 DEF ViewInv, Views
  <2> HIDE DEF id
  <2>3. shown' \in [{"segment", "grasp"} -> Perceive(p)!Ids] /\ Drawn(p)
    BY <1>6, <2>1, <2>2
  <2>4. ReadersTyped(p)' /\ Served(p, "robot") /\ Honest(p)
    BY <1>0, <1>2, <1>3, <1>4, <2>1, <2>3
  <2>5. ViewInv(p)'
    BY <1>4, <2>1 DEF ViewInv
  <2> QED
    BY <2>3, <2>4, <2>5
<1>13. ASSUME Perceive(p)!ViewFails
       PROVE  /\ ReadersTyped(p)' /\ ViewInv(p)' /\ Served(p, "robot") /\ Honest(p) /\ Drawn(p)
  <2>1. /\ Perceive(p)!Show(0)
        /\ view' = Perceive(p)!NoUpdate /\ call' = [call EXCEPT !["view"] = Perceive(p)!NoCall]
    BY <1>13 DEF Perceive!ViewFails, Perceive!Drop
  <2>2. shown' \in [{"segment", "grasp"} -> Perceive(p)!Ids] /\ Drawn(p)
    BY <1>0, <1>6, <2>1
  <2>3. ReadersTyped(p)' /\ Served(p, "robot") /\ Honest(p)
    BY <1>0, <1>2, <1>3, <1>4, <2>1, <2>2
  <2>4. ViewInv(p)'
    BY <1>4, <2>1 DEF ViewInv
  <2> QED
    BY <2>2, <2>3, <2>4
<1> QED
  BY <1>1, <1>7, <1>8, <1>9, <1>10, <1>11, <1>12, <1>13

\* The three parts of the state together.
LEMMA ReadersWait ==
  ASSUME NEW p \in Perceptions, PerceptionInv(p), Perceive(p)!Next, ReadersTyped(p)',
         UNCHANGED <<robot, view>>, Served(p, "robot"), Served(p, "view")
  PROVE  PerceptionInv(p)'
BY ResultsStep, RobotWaits, ViewWaits DEF PerceptionInv

\* Every step keeps the invariant, and uses nothing that was revoked.
LEMMA PerceptionStep ==
  ASSUME NEW p \in Perceptions, PerceptionInv(p), [Perceive(p)!Next]_perception
  PROVE  PerceptionInv(p)' /\ [Perceive(p)!NoRevokedData]_perception
<1>0. ResultsInv(p) /\ ReadersTyped(p) /\ RobotInv(p) /\ ViewInv(p)
  BY DEF PerceptionInv
<1>1. CASE UNCHANGED perception
  <2>1. PerceptionInv(p)'
    BY <1>1 DEF perception, PerceptionInv, ResultsInv, ReadersTyped, RobotInv, ViewInv, Perceive!Valid,
                Perceive!ValidWithSource
  <2> QED
    BY <1>1, <2>1
<1> SUFFICES ASSUME Perceive(p)!Next PROVE PerceptionInv(p)' /\ Perceive(p)!NoRevokedData
  BY <1>1
<1>2. ResultsInv(p)' /\ Lasting(p)
  BY <1>0, ResultsStep
<1>3. ASSUME PerceptionInv(p)', Honest(p), Drawn(p) PROVE Perceive(p)!NoRevokedData
  <2>1. robot'.pc = "moving" => robot'.fresh
    BY <1>3 DEF PerceptionInv, RobotInv
  <2> QED
    BY <1>3, <2>1 DEF Perceive!NoRevokedData, Honest, Drawn
<1>4. ASSUME ReadersTyped(p)', UNCHANGED <<robot, view, shown>>, Served(p, "robot"), Served(p, "view"),
             Honest(p)
      PROVE  PerceptionInv(p)' /\ Perceive(p)!NoRevokedData
  <2>1. PerceptionInv(p)'
    BY <1>4, ReadersWait
  <2>2. Drawn(p)
    BY <1>4 DEF Drawn
  <2> QED
    BY <1>3, <1>4, <2>1, <2>2
<1>5. Perceive(p)!InUse \subseteq PNodes
  BY DEF Perceive!InUse, Perceive!Nodes, PNodes
<1>6. ASSUME NEW n \in PNodes, Perceive(p)!Begin(n) \/ Perceive(p)!SourceRead(n)
      PROVE  PerceptionInv(p)' /\ Perceive(p)!NoRevokedData
  BY <1>0, <1>4, <1>6, NodesAsk
<1>7. ASSUME NEW n \in PNodes, Perceive(p)!Restart(n)
      PROVE  PerceptionInv(p)' /\ Perceive(p)!NoRevokedData
  <2>1. /\ ReadersTyped(p)' /\ UNCHANGED <<robot, view, shown>>
        /\ Served(p, "robot") /\ Served(p, "view")
        /\ \A s \in Perceive(p)!Readers : call'[s].pc = "replied" => call[s].pc = "replied"
    BY <1>0, <1>7, RestartIs
  <2> QED
    BY <1>4, <2>1 DEF Honest
<1>8. ASSUME UNCHANGED <<call, robot, view, shown>>
      PROVE  PerceptionInv(p)' /\ Perceive(p)!NoRevokedData
  <2>1. ReadersTyped(p)'
    BY <1>0, <1>8 DEF ReadersTyped
  <2>2. Served(p, "robot") /\ Served(p, "view") /\ Honest(p)
    BY <1>8 DEF Served, Honest
  <2> QED
    BY <1>4, <1>8, <2>1, <2>2
<1>9. ASSUME NEW n \in PNodes, Perceive(p)!Stop(n) \/ Perceive(p)!Expire(n)
      PROVE  UNCHANGED <<call, robot, view, shown>>
  BY <1>9 DEF Perceive!Stop, Perceive!Expire
<1>10. ASSUME \/ Perceive(p)!Located \/ Perceive(p)!Segmented \/ Perceive(p)!GraspsInferred
              \/ Perceive(p)!CheckSegment \/ Perceive(p)!PutGrasps
       PROVE  UNCHANGED <<call, robot, view, shown>>
  BY <1>10 DEF Perceive!Located, Perceive!Segmented, Perceive!GraspsInferred, Perceive!CheckSegment,
               Perceive!PutGrasps, Perceive!Inferred
<1>11. ASSUME NEW r \in Perceive(p)!Readers,
              \/ Perceive(p)!LookupLocation(r) \/ Perceive(p)!Lookup(r) \/ Perceive(p)!LookupSegment(r)
              \/ Perceive(p)!Reply(r) \/ Perceive(p)!ReplyLocation(r) \/ Perceive(p)!CallFails(r)
       PROVE  PerceptionInv(p)' /\ Perceive(p)!NoRevokedData
  <2>1. /\ ReadersTyped(p)' /\ UNCHANGED <<robot, view, shown>>
        /\ \A s \in Perceive(p)!Readers : Served(p, s)
    BY <1>0, <1>11, RequestIs
  <2>2. Honest(p)
    BY <1>0, <2>1, ServedIsHonest
  <2>3. "robot" \in Perceive(p)!Readers /\ "view" \in Perceive(p)!Readers
    BY DEF Perceive!Readers
  <2> QED
    BY <1>4, <2>1, <2>2, <2>3
<1>12. ASSUME \/ Perceive(p)!RobotBegins \/ Perceive(p)!RobotPlans \/ Perceive(p)!RobotPlanned
              \/ Perceive(p)!RobotMoves \/ Perceive(p)!RobotEnds
       PROVE  PerceptionInv(p)' /\ Perceive(p)!NoRevokedData
  <2>1. /\ ReadersTyped(p)' /\ UNCHANGED <<view, shown>> /\ RobotInv(p)'
        /\ Served(p, "view") /\ Honest(p)
    BY <1>0, <1>12, RobotActs
  <2>2. PerceptionInv(p)'
    BY <1>0, <1>2, <2>1, ViewWaits DEF PerceptionInv
  <2>3. Drawn(p)
    BY <2>1 DEF Drawn
  <2> QED
    BY <1>3, <2>1, <2>2, <2>3
<1>13. ASSUME \/ \E n \in {"segment", "grasp"} : Perceive(p)!ViewAsks(n) \/ Perceive(p)!ViewDrops(n)
              \/ Perceive(p)!ViewReads \/ Perceive(p)!ViewEncodes \/ Perceive(p)!ViewEncoded
              \/ Perceive(p)!ViewShows \/ Perceive(p)!ViewFails
       PROVE  PerceptionInv(p)' /\ Perceive(p)!NoRevokedData
  <2>1. /\ ReadersTyped(p)' /\ UNCHANGED robot /\ ViewInv(p)'
        /\ Served(p, "robot") /\ Honest(p) /\ Drawn(p)
    BY <1>0, <1>13, ViewActs
  <2>2. PerceptionInv(p)'
    BY <1>0, <1>2, <2>1, RobotWaits DEF PerceptionInv
  <2> QED
    BY <1>3, <2>1, <2>2
<1> QED
  BY <1>5, <1>6, <1>7, <1>8, <1>9, <1>10, <1>11, <1>12, <1>13 DEF Perceive!Next

\* Nobody reads before there is a result.
LEMMA PerceptionInit == \A p \in Perceptions : Perceive(p)!Init => PerceptionInv(p)
<1> SUFFICES ASSUME NEW p \in Perceptions, Perceive(p)!Init PROVE PerceptionInv(p)
  OBVIOUS
<1>1. ResultsInv(p)
  BY ResultsInit
<1>2. 0 \in Perceive(p)!Ids
  BY NodesAssumption DEF Perceive!Ids
<1>3. ReadersTyped(p) /\ robot.pc \in {"absent", "idle"} /\ view.pc \in {"absent", "idle"}
  <2>1. Perceive(p)!NoCall \in Calls(p)
    BY <1>2 DEF Perceive!NoCall, Calls, PNodes
  <2>2. call \in [Perceive(p)!Readers -> Calls(p)] /\ shown \in [{"segment", "grasp"} -> Perceive(p)!Ids]
    BY <1>2, <2>1 DEF Perceive!Init
  <2>3. CASE robot = Perceive(p)!NoMotion /\ view = [Perceive(p)!NoUpdate EXCEPT !.pc = "absent"]
    BY <1>2, <2>2, <2>3 DEF ReadersTyped, Perceive!NoMotion, Perceive!NoUpdate
  <2>4. CASE robot = [Perceive(p)!NoMotion EXCEPT !.pc = "absent"] /\ view = Perceive(p)!NoUpdate
    BY <1>2, <2>2, <2>4 DEF ReadersTyped, Perceive!NoMotion, Perceive!NoUpdate
  <2> QED
    BY <2>3, <2>4 DEF Perceive!Init
<1> QED
  BY <1>1, <1>3 DEF PerceptionInv, RobotInv, ViewInv

\* What the invariant says of the variables.
LEMMA PerceptionTyped == \A p \in Perceptions : PerceptionInv(p) => Perceive(p)!TypeOK
BY DEF PerceptionInv, ResultsInv, ReadersTyped, Calls, Perceive!TypeOK, PNodes, Perceive!Nodes

-------------------------------------------------------------------------------
(***************************************************************************)
(* The parts side by side.                                                 *)
(***************************************************************************)

NodesInv ==
  /\ WakeInv /\ Inbox!TypeOK /\ LifeInv /\ StackInv /\ ReplyInv /\ OrderInv /\ CameraInv
  /\ DetectorInv /\ Readiness /\ CacheInv /\ HandleInv /\ ClientInv
  /\ SpeechInv /\ ArmInv /\ JawInv /\ MockInv /\ ModelInv /\ GraspInv
  /\ \A v \in Voices : part = v => VoiceInv(v)
  /\ \A p \in Perceptions : part = p => PerceptionInv(p)

\* A step is a step of one part, and the others stutter.
LEMMA PartsStep ==
  ASSUME [Next]_vars
  PROVE  /\ [Inbox!Next]_Inbox!vars /\ [Life!Next]_Life!vars /\ [Stack!Next]_Stack!vars
         /\ [Reply!Next]_Reply!vars /\ [Order!Next]_Order!vars /\ [Camera!Next]_Camera!vars
         /\ [Detector!Next]_Detector!vars /\ [Cache!Next]_Cache!vars
         /\ [Handle!Next]_handle /\ [Client!Next]_task_client
         /\ [Speech!Next]_speech /\ [Arm!Next]_ur /\ [Jaw!Next]_jaw
         /\ [Mock!Next]_mock /\ [Model!Next]_model /\ [Grasp!Next]_grasp
         /\ part' = part
         /\ \A v \in Voices : part = v => [Voice(v)!Next]_voice
         /\ \A p \in Perceptions : part = p => [Perceive(p)!Next]_perception
<1>1. CASE UNCHANGED vars
  BY <1>1 DEF vars, transport, life, stack, replies, order, camera, detector, plans, perception,
              Inbox!vars, Life!vars, Stack!vars, Reply!vars, Order!vars, Camera!vars,
              Detector!vars, Cache!vars, Camera!device, Camera!handoff, Camera!view
<1>2. CASE Next
  <2>1. part' = part /\ Others
    BY <1>2 DEF Next
  <2>2. /\ part = "transport" => Inbox!Next
        /\ part = "life" => Life!Next
        /\ part = "stack" => Stack!Next
        /\ part = "reply" => Reply!Next
        /\ part = "order" => Order!Next
        /\ part = "camera" => Camera!Next
        /\ part = "detector" => Detector!Next
        /\ part = "cache" => Cache!Next
        /\ part = "handle" => Handle!Next
        /\ part = "task" => Client!Next
        /\ part = "speech" => Speech!Next
        /\ part = "arm" => Arm!Next
        /\ part = "jaw" => Jaw!Next
        /\ part = "mock" => Mock!Next
        /\ part = "model" => Model!Next
        /\ part = "grasp" => Grasp!Next
        /\ \A v \in Voices : part = v => Voice(v)!Next
        /\ \A p \in Perceptions : part = p => Perceive(p)!Next
    BY <1>2 DEF Next, Voices, Perceptions
  <2>3. /\ part # "transport" => UNCHANGED transport
        /\ part # "life" => UNCHANGED life
        /\ part # "stack" => UNCHANGED stack
        /\ part # "reply" => UNCHANGED replies
        /\ part # "order" => UNCHANGED order
        /\ part # "camera" => UNCHANGED camera
        /\ part # "detector" => UNCHANGED detector
        /\ part # "cache" => UNCHANGED plans
        /\ part # "handle" => UNCHANGED handle
        /\ part # "task" => UNCHANGED task_client
        /\ part # "speech" => UNCHANGED speech
        /\ part # "arm" => UNCHANGED ur
        /\ part # "jaw" => UNCHANGED jaw
        /\ part # "mock" => UNCHANGED mock
        /\ part # "model" => UNCHANGED model
        /\ part # "grasp" => UNCHANGED grasp
    BY <2>1 DEF Others
  <2> QED
    BY <2>1, <2>2, <2>3
       DEF transport, life, stack, replies, order, camera, detector, plans,
           Inbox!vars, Life!vars, Stack!vars, Reply!vars, Order!vars, Camera!vars,
           Detector!vars, Cache!vars, Camera!device, Camera!handoff, Camera!view
<1> QED
  BY <1>1, <1>2

LEMMA NodesInvariant == Spec => []NodesInv
<1>1. Init => NodesInv
  BY WakeInit, LifeInit, StackInit, ReplyInit, OrderInit, CameraInit, DetectorInit, CacheInit,
     PerceptionInit, HandleInit, TaskClientInit, VoiceInit, InboxTypesInit,
     SpeechInit, ArmInit, JawInit, MockInit, ModelInit, GraspInit DEF Init, NodesInv
<1>2. ASSUME NodesInv, [Next]_vars PROVE NodesInv'
  <2>1. PlanSteps \in Nat
    BY NodesAssumption
  <2>2. WakeInv' /\ LifeInv' /\ StackInv' /\ ReplyInv' /\ OrderInv'
    BY <1>2, <2>1, PartsStep, WakeStep, LifeStep, StackStep, ReplyStep, OrderStep DEF NodesInv
  <2>3. CameraInv'
    BY <1>2, PartsStep, HandoffStep, CameraStatesStep, ReadableStep DEF NodesInv, CameraInv
  <2>4. DetectorInv' /\ Readiness' /\ CacheInv'
    BY <1>2, PartsStep, DetectorStep, ReadinessStep, CacheStep DEF NodesInv
  <2>5. \A p \in Perceptions : part' = p => PerceptionInv(p)'
    BY <1>2, PartsStep, PerceptionStep DEF NodesInv
  <2>6. HandleInv' /\ ClientInv'
    BY <1>2, PartsStep, HandleStep, TaskClientStep DEF NodesInv
  <2>7. \A v \in Voices : part' = v => VoiceInv(v)'
    BY <1>2, PartsStep, VoiceStep DEF NodesInv
  <2>8. SpeechInv' /\ ArmInv' /\ JawInv' /\ MockInv' /\ ModelInv' /\ GraspInv'
    BY <1>2, PartsStep, SpeechStep, ArmStep, JawStep, MockStep, ModelStep, GraspStep DEF NodesInv
  <2>9. Inbox!TypeOK'
    BY <1>2, PartsStep, InboxTypesStep DEF NodesInv
  <2> QED
    BY <2>2, <2>3, <2>4, <2>5, <2>6, <2>7, <2>8, <2>9 DEF NodesInv
<1> QED
  BY <1>1, <1>2, PTL DEF Spec

\* While a request is queued no worker sleeps without a wakeup on its way,
\* whatever the callback threads do between a worker's look at the empty queue
\* and its wait (transport.py, Inbox).
THEOREM NoWakeupIsLost == Spec => []NoLostWakeup
<1>1. NodesInv => NoLostWakeup
  BY DEF NodesInv, WakeInv, NoLostWakeup, Inbox!NoLostWakeup
<1> QED
  BY <1>1, NodesInvariant, PTL

\* Two processes never own one node, what a node opened is closed when it ends, and
\* no child of a launcher outlives it but the router of a cancelled start
\* (node.py, processes.py).
THEOREM NothingOutlives == Spec => []NothingLeftRunning
<1>1. NodesInv => NothingLeftRunning
  BY LifeOneOwner, StackLeavesNothing DEF NodesInv, NothingLeftRunning
<1> QED
  BY <1>1, NodesInvariant, PTL

\* Only a plan the model proposed is executed, and no two steps of it that may run
\* at once need what one of them changes (planner/providers, plan_validation.py).
THEOREM PlansLeaveNoRace == Spec => []PlansAreSound
<1>1. NodesInv => PlansAreSound
  BY OrderSafe, NodesAssumption DEF NodesInv, ReplyInv, PlansAreSound
<1> QED
  BY <1>1, NodesInvariant, PTL

\* What can be read is of the stream that is, in its order, and no item waits for a
\* loop that nobody wakes (camera/node.py, vision/node.py).
THEOREM ReadersSeeTheStream == Spec => []FramesAreLive
<1>1. NodesInv => FramesAreLive
  BY CameraSafe, DetectorSafe DEF NodesInv, FramesAreLive
<1> QED
  BY <1>1, NodesInvariant, PTL

\* A stop stops what it was meant for: a repeated one nothing newer, and one that
\* is recorded as confirmed, and not as the refusal of a replayed one, has stopped it
\* or found nothing to stop. A handle says what its own action or task came to, its cancel
\* reaches no other one, and what was refused never runs, whatever is lost, late or
\* repeated and whoever restarts (voice/node.py, asr/node.py, action_rpc.py,
\* handles.py).
THEOREM StopsStand == Spec => []StopsAreTrue
<1>1. NodesInv => StopsAreTrue
  BY VoiceSafe, HandleSafe DEF NodesInv, ClientInv, StopsAreTrue
<1> QED
  BY <1>1, NodesInvariant, PTL

\* When an action has a definite outcome, no sound and no motion is left of it, the
\* device of a running one is not exchanged under it, and what is said of the jaw,
\* the object or the pose is what the device or the model is in, whatever stops,
\* faults, cancels and mode switches come between (tts/backend.py, ur.py,
\* ur_rtde.py, wrs.py, wrs_grasp.py, mock.py).
THEOREM SettledStands == Spec => []SettledAsReported
<1>1. NodesInv => SettledAsReported
  BY SpeechSafe, ArmSafe, JawSafe, MockSafe, GraspSafe DEF NodesInv, ModelInv, SettledAsReported
<1> QED
  BY <1>1, NodesInvariant, PTL

\* The variables of every part have their types, within the bounds of its queues
\* and caches (transport.py, camera/node.py, vision/node.py, cache.py and the
\* other sources of the parts).
THEOREM NodesTypes == Spec => []NodesTypeOK
<1>1. NodesInv => NodesTypeOK
  <2> SUFFICES ASSUME NodesInv PROVE NodesTypeOK
    OBVIOUS
  <2>1. /\ Inbox!TypeOK /\ Life!TypeOK /\ Stack!TypeOK /\ Order!TypeOK /\ Cache!TypeOK
        /\ Reply!TypeOK /\ Handle!TypeOK /\ Client!TypeOK
    BY StackTyped, CacheTyped DEF NodesInv, LifeInv, OrderInv, ReplyInv, HandleInv, ClientInv
  <2>2. Camera!TypeOK /\ Detector!TypeOK
    BY CameraSafe, DetectorSafe DEF NodesInv
  <2>3. /\ Speech!TypeOK /\ Arm!TypeOK /\ Jaw!TypeOK /\ Mock!TypeOK /\ Model!TypeOK
        /\ Grasp!TypeOK
    BY GraspSafe DEF NodesInv, SpeechInv, ArmInv, JawInv, MockInv, ModelInv
  <2>4. \A v \in Voices : part = v => Voice(v)!TypeOK
    BY VoiceSafe DEF NodesInv
  <2>5. \A p \in Perceptions : part = p => Perceive(p)!TypeOK
    BY PerceptionTyped DEF NodesInv
  <2> QED
    BY <2>1, <2>2, <2>3, <2>4, <2>5 DEF NodesTypeOK
<1> QED
  BY <1>1, NodesInvariant, PTL

\* What a stop, a restart or a newer result revoked is not used: no reply carries a
\* result that its node no longer stands by, the robot moves only by a grasp that
\* stood after the motion was planned, a picture appears only of the latest
\* result, and a kept plan is used only where it has proved itself
\* (segmentation/node.py, grasp/node.py, wrs_grasp.py, preview.py; cache.py).
THEOREM RevokedIsNotUsed == Spec => NothingStaleIsUsed
<1>1. ASSUME NodesInv, [Next]_vars
      PROVE  /\ \A p \in Perceptions : part = p => [Perceive(p)!NoRevokedData]_perception
             /\ [Cache!CachedAsVerified]_plans
  <2>1. \A p \in Perceptions : part = p => [Perceive(p)!NoRevokedData]_perception
    BY <1>1, PartsStep, PerceptionStep DEF NodesInv
  <2>2. [Cache!CachedAsVerified]_plans
    BY <1>1, PartsStep, CacheStep DEF NodesInv, plans, Cache!vars
  <2> QED
    BY <2>1, <2>2
<1> QED
  BY <1>1, NodesInvariant, PTL DEF Spec, NothingStaleIsUsed
================================================================================
