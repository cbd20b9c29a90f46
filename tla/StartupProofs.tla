--------------------------- MODULE StartupProofs ---------------------------
(* Proofs about Release and Startup, for every number of machines,         *)
(* modules, keys, launches and ports and for every sequence of edits,      *)
(* signings and checkouts.                                                 *)
EXTENDS Startup, WellFoundedInduction, TLAPS

(* The contents are numbered from 1; the highest number is MaxSchema.      *)
LEMMA VersionNumbers ==
  /\ MaxSchema \in Versions /\ MaxSchema \in Nat
  /\ \A v : v \in Versions <=> v \in Nat /\ 1 <= v /\ v <= MaxSchema
<1>1. PICK n \in Versions : Versions = 1 .. n
  BY ReleaseAssumption
<1>2. n \in Nat \ {0} /\ \A w \in Versions : w <= n
  BY <1>1, ReleaseAssumption
<1>3. \A v \in Versions : (\A w \in Versions : w <= v) => v = n
  BY <1>1, <1>2
<1>4. MaxSchema = n
  BY <1>1, <1>2, <1>3 DEF MaxSchema
<1> QED BY <1>1, <1>2, <1>4

-----------------------------------------------------------------------------
(* The working trees.                                                      *)

(* A tree that passed a gate is signed with the key it holds, or by the    *)
(* secret of the machine whose release gate it passed, and agrees with its *)
(* manifest; nothing is asked of its kernel.                               *)
Vouched(m) == EdValid(m) \/ (gated[m] = "release" /\ SignedElsewhere(m))

GatedInv ==
    \A m \in Machines : gated[m] # "none" =>
        /\ Vouched(m)
        /\ \E f \in Modules : manifest[m].code[f] # 0
        /\ \A f \in Listed(m) : code[m][f] = manifest[m].code[f]

(* A signature that the tree's public key confirms was reported as made,   *)
(* and a key pair that is half written has signed nothing there yet.       *)
SignedInv ==
    \A m \in Machines :
        /\ sigEd[m].by = public[m] => sigEd[m].over \in signed
        /\ newKey[m] # None => sigEd[m].by # newKey[m]
        /\ sigHmac[m] # None => sigHmac[m].over \in signed

CoreInv == \A m \in Machines : \A f \in Core : code[m][f] # 0

RelInv == RelTypeOK /\ CoreInv /\ GatedInv /\ SignedInv

LEMMA InitRelInv == RelInit => RelInv
<1> SUFFICES ASSUME RelInit PROVE RelInv
  OBVIOUS
<1> DEFINE ones == [f \in Modules |-> 1]
           repo == [code |-> ones, kernel |-> 0, public |-> FirstKey]
<1>1. 1 \in Versions /\ FirstKey \in SigningKeys /\ Core \subseteq Modules /\ Core # {}
  BY VersionNumbers, ReleaseAssumption
<1>2. ones \in [Modules -> Content] /\ repo \in Manifest
  BY <1>1 DEF Content, Manifest
<1>3. /\ code = [m \in Machines |-> ones]
      /\ kernel \in [Machines -> {None, 1}]
      /\ manifest = [m \in Machines |-> repo]
      /\ sigEd = [m \in Machines |-> [by |-> FirstKey, over |-> repo]]
      /\ sigHmac = [m \in Machines |-> None]
      /\ public = [m \in Machines |-> FirstKey]
      /\ private = [m \in Machines |-> IF m = Signer THEN FirstKey ELSE None]
      /\ secret = [m \in Machines |-> FALSE]
      /\ newKey = [m \in Machines |-> None]
      /\ signed = {repo}
      /\ gated = [m \in Machines |-> "ci"]
      /\ ops = 0
  BY DEF RelInit
<1>4. RelTypeOK
  <2> HIDE DEF repo, ones
  <2> QED BY <1>1, <1>2, <1>3, ReleaseAssumption DEF RelTypeOK, Content
<1>5. CoreInv
  BY <1>1, <1>3 DEF CoreInv
<1>6. GatedInv
  BY <1>1, <1>3, ReleaseAssumption DEF GatedInv, Vouched, EdValid, Listed
<1>7. SignedInv
  BY <1>3 DEF SignedInv
<1> QED BY <1>4, <1>5, <1>6, <1>7 DEF RelInv

LEMMA RelStepInv ==
  ASSUME RelInv, NEW m \in Machines, RelStep(m)
  PROVE  RelInv'
<1> USE ReleaseAssumption DEF RelInv, RelTypeOK, trees
<1>0. Core \subseteq Modules
  OBVIOUS
<1>1. CASE Edit(m)
  <2>1. PICK f \in Modules, v \in Content :
          /\ v # code[m][f] /\ (f \in Core => v # 0)
          /\ code' = [code EXCEPT ![m][f] = v]
    BY <1>1 DEF Edit
  <2>2. /\ gated' = [gated EXCEPT ![m] = "none"] /\ ops' \in 0 .. MaxOps
        /\ UNCHANGED <<kernel, manifest, sigEd, sigHmac, public, private, secret, newKey, signed>>
    BY <1>1 DEF Edit, Op
  <2>3. /\ code'[m] = [code[m] EXCEPT ![f] = v]
        /\ \A n \in Machines \ {m} : code'[n] = code[n]
        /\ code' \in [Machines -> [Modules -> Content]]
    BY <2>1
  <2>4. CoreInv'
    BY <2>1, <2>3 DEF CoreInv
  <2>5. GatedInv' /\ SignedInv'
    BY <2>2, <2>3 DEF GatedInv, SignedInv, Vouched, SignedElsewhere, EdValid, Listed
  <2> QED BY <2>2, <2>3, <2>4, <2>5
<1>2. CASE Generate(m)
  <2>1. PICK noComfy \in BOOLEAN : manifest' = [manifest EXCEPT ![m] = Scan(m, noComfy)]
    BY <1>2 DEF Generate
  <2>2. /\ gated' = [gated EXCEPT ![m] = "none"] /\ ops' \in 0 .. MaxOps
        /\ UNCHANGED <<code, kernel, sigEd, sigHmac, public, private, secret, newKey, signed>>
    BY <1>2 DEF Generate, Op
  <2>3. Scan(m, noComfy) \in Manifest
    <3>1. (IF noComfy \/ kernel[m] = None THEN 0 ELSE kernel[m]) \in Content
      <4>1. kernel[m] = None \/ kernel[m] \in Content
        OBVIOUS
      <4>2. 0 \in Content
        BY DEF Content
      <4> QED BY <4>1, <4>2, Zenon
    <3>2. code[m] \in [Modules -> Content] /\ public[m] \in SigningKeys \cup {None}
      OBVIOUS
    <3> QED BY <3>1, <3>2, Zenon DEF Scan, Manifest
  <2>4. manifest' \in [Machines -> Manifest] /\ \A n \in Machines \ {m} : manifest'[n] = manifest[n]
    BY <2>1, <2>3
  <2>5. CoreInv' /\ SignedInv'
    BY <2>2 DEF CoreInv, SignedInv
  <2>6. GatedInv'
    <3> SUFFICES ASSUME NEW n \in Machines, gated'[n] # "none"
                 PROVE  /\ Vouched(n)'
                        /\ \E f \in Modules : manifest'[n].code[f] # 0
                        /\ \A f \in Modules : manifest'[n].code[f] # 0 =>
                               code'[n][f] = manifest'[n].code[f]
      BY DEF GatedInv, Listed
    <3>1. n # m /\ gated[n] # "none" /\ gated'[n] = gated[n]
      BY <2>2
    <3>2. /\ manifest'[n] = manifest[n] /\ code'[n] = code[n]
          /\ public'[n] = public[n] /\ sigEd'[n] = sigEd[n] /\ sigHmac'[n] = sigHmac[n]
      BY <2>2, <2>4, <3>1
    <3>3. /\ Vouched(n)
          /\ \E f \in Modules : manifest[n].code[f] # 0
          /\ \A f \in Listed(n) : code[n][f] = manifest[n].code[f]
      BY <3>1 DEF GatedInv
    <3> QED BY <3>1, <3>2, <3>3 DEF Vouched, SignedElsewhere, EdValid, Listed
  <2> QED BY <2>2, <2>4, <2>5, <2>6
<1>3. CASE NewKeys(m)
  <2>1. PICK k \in SigningKeys \ KeysInUse : /\ private' = [private EXCEPT ![m] = k]
                                             /\ newKey' = [newKey EXCEPT ![m] = k]
    BY <1>3 DEF NewKeys
  <2>2. /\ ops' \in 0 .. MaxOps
        /\ UNCHANGED <<code, kernel, manifest, sigEd, sigHmac, public, secret, signed, gated>>
    BY <1>3 DEF NewKeys, Op
  <2>3. sigEd[m].by # k
    BY <2>1 DEF KeysInUse
  <2>4. CoreInv' /\ GatedInv' /\ SignedInv'
    BY <2>1, <2>2, <2>3
    DEF CoreInv, GatedInv, SignedInv, Vouched, SignedElsewhere, EdValid, Listed
  <2> QED BY <2>1, <2>2, <2>4
<1>4. CASE WritePublicKey(m)
  <2>1. /\ newKey[m] # None /\ newKey' = [newKey EXCEPT ![m] = None]
        /\ UNCHANGED <<code, kernel, manifest, sigEd, sigHmac, private, secret, signed, ops>>
        /\ \/ /\ public' = [public EXCEPT ![m] = newKey[m]]
              /\ gated' = [gated EXCEPT ![m] = "none"]
           \/ UNCHANGED <<public, gated>>
    BY <1>4 DEF WritePublicKey
  <2>2. RelTypeOK'
    BY <2>1
  <2>3. CoreInv' /\ GatedInv' /\ SignedInv'
    BY <2>1 DEF CoreInv, GatedInv, SignedInv, Vouched, SignedElsewhere, EdValid, Listed
  <2> QED BY <2>2, <2>3
<1>5. CASE Sign(m)
  <2>1. /\ newKey[m] = None /\ ops' \in 0 .. MaxOps
        /\ gated' = [gated EXCEPT ![m] = "none"]
        /\ UNCHANGED <<code, kernel, manifest, public, private, newKey>>
    BY <1>5 DEF Sign, Op
  <2>2. CASE private[m] # None
    <3>1. /\ sigEd' = [sigEd EXCEPT ![m] = [by |-> private[m], over |-> manifest[m]]]
          /\ signed' = IF ReadBack(m) THEN signed \cup {manifest[m]} ELSE signed
          /\ UNCHANGED <<sigHmac, secret>>
      BY <1>5, <2>2 DEF Sign, Ed25519Signature
    <3>2. RelTypeOK'
      <4>1. [by |-> private[m], over |-> manifest[m]] \in [by : SigningKeys, over : Manifest]
        BY <2>2
      <4>2. sigEd' \in [Machines -> [by : SigningKeys, over : Manifest]]
        BY <3>1, <4>1
      <4>3. signed' \subseteq Manifest
        BY <3>1
      <4> QED BY <2>1, <3>1, <4>2, <4>3
    <3>3. CoreInv' /\ GatedInv'
      BY <2>1, <3>1 DEF CoreInv, GatedInv, Vouched, SignedElsewhere, EdValid, Listed
    <3>4. SignedInv'
      <4>1. /\ sigEd'[m].by = private[m] /\ sigEd'[m].over = manifest[m]
            /\ \A n \in Machines \ {m} : sigEd'[n] = sigEd[n]
            /\ signed \subseteq signed'
        BY <3>1
      <4>2. private[m] = public[m] => manifest[m] \in signed'
        BY <3>1 DEF ReadBack
      <4> QED BY <2>1, <3>1, <4>1, <4>2 DEF SignedInv
    <3> QED BY <3>2, <3>3, <3>4
  <2>3. CASE private[m] = None
    <3>1. /\ sigHmac' = [sigHmac EXCEPT ![m] = [by |-> m, over |-> manifest[m]]]
          /\ secret' = [secret EXCEPT ![m] = TRUE]
          /\ signed' = signed \cup {manifest[m]}
          /\ UNCHANGED sigEd
      BY <1>5, <2>3 DEF Sign, HmacSignature
    <3>2. RelTypeOK'
      <4>1. [by |-> m, over |-> manifest[m]] \in [by : Machines, over : Manifest]
        OBVIOUS
      <4>2. sigHmac' \in [Machines -> [by : Machines, over : Manifest] \cup {None}]
        BY <3>1, <4>1
      <4> QED BY <2>1, <3>1, <4>2
    <3>3. CoreInv' /\ GatedInv' /\ SignedInv'
      BY <2>1, <3>1
      DEF CoreInv, GatedInv, SignedInv, Vouched, SignedElsewhere, EdValid, Listed
    <3> QED BY <3>2, <3>3
  <2> QED BY <2>2, <2>3
<1>6. ASSUME NEW to \in Machines, CheckOut(m, to) PROVE RelInv'
  <2>1. /\ m # to /\ newKey[to] = None /\ ops' \in 0 .. MaxOps
        /\ code' = [code EXCEPT ![to] = code[m]]
        /\ manifest' = [manifest EXCEPT ![to] = manifest[m]]
        /\ sigEd' = [sigEd EXCEPT ![to] = sigEd[m]]
        /\ sigHmac' = [sigHmac EXCEPT ![to] = sigHmac[m]]
        /\ public' = [public EXCEPT ![to] = public[m]]
        /\ gated' = [gated EXCEPT ![to] = Passed(m)]
        /\ UNCHANGED <<kernel, private, secret, newKey, signed>>
    BY <1>6 DEF CheckOut, Op
  <2>2. Passed(m) \in {"ci", "release", "none"}
    BY DEF Passed
  <2>3. RelTypeOK' /\ CoreInv' /\ SignedInv'
    BY <2>1, <2>2 DEF CoreInv, SignedInv
  <2>4. Passed(m) # "none" =>
          /\ EdValid(m) \/ (Passed(m) = "release" /\ HmacValid(m, Secrets))
          /\ \E f \in Modules : manifest[m].code[f] # 0
          /\ \A f \in Listed(m) : code[m][f] = manifest[m].code[f]
    <3>1. CASE CiGate(m)
      <4>1. EdValid(m) /\ Fresh(m)
        BY <3>1 DEF CiGate, VerifySignature, HmacValid
      <4>2. PICK f \in Core : code[m][f] # 0
        BY DEF CoreInv
      <4> QED BY <4>1, <4>2, <1>0 DEF Fresh, Listed
    <3>2. CASE ~CiGate(m) /\ ReleaseGate(m)
      <4>1. Passed(m) = "release"
        BY <3>2 DEF Passed
      <4> QED BY <3>2, <4>1 DEF ReleaseGate, SelfCheck, FilesMatch
    <3>3. CASE ~CiGate(m) /\ ~ReleaseGate(m)
      BY <3>3 DEF Passed
    <3> QED BY <3>1, <3>2, <3>3
  <2>5. GatedInv'
    <3> SUFFICES ASSUME NEW n \in Machines, gated'[n] # "none"
                 PROVE  /\ Vouched(n)'
                        /\ \E f \in Modules : manifest'[n].code[f] # 0
                        /\ \A f \in Modules : manifest'[n].code[f] # 0 =>
                               code'[n][f] = manifest'[n].code[f]
      BY DEF GatedInv, Listed
    <3>1. CASE n = to
      <4>1. /\ gated'[to] = Passed(m) /\ code'[to] = code[m] /\ manifest'[to] = manifest[m]
            /\ sigEd'[to] = sigEd[m] /\ sigHmac'[to] = sigHmac[m] /\ public'[to] = public[m]
        BY <2>1, <2>2
      <4>2. Vouched(to)'
        <5>1. CASE EdValid(m)
          BY <4>1, <5>1 DEF Vouched, EdValid
        <5>2. CASE Passed(m) = "release" /\ HmacValid(m, Secrets)
          <6>1. sigHmac[m] = [by |-> m, over |-> manifest[m]]
            BY <5>2 DEF HmacValid
          <6>2. sigHmac[m] # None /\ sigHmac[m].by = m /\ sigHmac[m].over = manifest[m]
            BY <6>1
          <6> QED BY <2>1, <4>1, <5>2, <6>2 DEF Vouched, SignedElsewhere
        <5> QED BY <2>4, <3>1, <4>1, <5>1, <5>2
      <4> QED BY <2>4, <3>1, <4>1, <4>2 DEF Listed
    <3>2. CASE n # to
      BY <2>1, <3>2 DEF GatedInv, Vouched, SignedElsewhere, EdValid, Listed
    <3> QED BY <3>1, <3>2
  <2> QED BY <2>3, <2>5
<1> QED BY <1>1, <1>2, <1>3, <1>4, <1>5, <1>6 DEF RelStep

(* The self-check may create the server's secret and changes nothing else. *)
LEMMA CheckRelInv ==
  ASSUME RelInv, secret' \in [Machines -> BOOLEAN],
         UNCHANGED <<trees, private, newKey, signed, gated, ops>>
  PROVE  RelInv'
  BY DEF RelInv, RelTypeOK, CoreInv, GatedInv, SignedInv, Vouched, SignedElsewhere, EdValid,
         Listed, trees

LEMMA UnchangedRelInv == RelInv /\ UNCHANGED relVars => RelInv'
  BY DEF RelInv, RelTypeOK, CoreInv, GatedInv, SignedInv, Vouched, SignedElsewhere, EdValid,
         Listed, trees, relVars

LEMMA CheckSelfSecret ==
  ASSUME RelTypeOK, NEW l \in Launches, CheckSelf(l)
  PROVE  secret' \in [Machines -> BOOLEAN]
<1>1. PICK b \in BOOLEAN : secret' = [secret EXCEPT ![Server] = b]
  <2> DEFINE b == secret[Server] \/ (~EdValid(Server) /\ sigHmac[Server] # None)
  <2>1. b \in BOOLEAN
    BY ZenonT(10)
  <2>2. secret' = [secret EXCEPT ![Server] = b]
    BY DEF CheckSelf
  <2> QED BY <2>1, <2>2
<1> QED BY <1>1 DEF RelTypeOK

LEMMA NextRelInv == RelInv /\ [Next]_vars => RelInv'
<1> SUFFICES ASSUME RelInv, [Next]_vars PROVE RelInv'
  OBVIOUS
<1>1. ASSUME NEW m \in Machines, RelStep(m) PROVE RelInv'
  BY <1>1, RelStepInv
<1>2. ASSUME NEW l \in Launches, CheckSelf(l),
             UNCHANGED <<trees, private, newKey, signed, gated, ops>>
      PROVE  RelInv'
  BY <1>2, CheckSelfSecret, CheckRelInv DEF RelInv
<1>3. CASE UNCHANGED relVars
  BY <1>3, UnchangedRelInv
<1>4. CASE UNCHANGED vars
  BY <1>4, UnchangedRelInv DEF vars
<1> QED BY <1>1, <1>2, <1>3, <1>4 DEF Next

LEMMA RelInvHolds == Spec => []RelInv
<1>1. Init => RelInv
  BY InitRelInv DEF Init
<1> QED BY <1>1, NextRelInv, PTL DEF Spec

(* A checkout that passed the gate of CI and was not edited starts without *)
(* a secret wherever its kernel is the listed one; one that passed the     *)
(* release gate does unless an HMAC of another machine is all that signs   *)
(* it (test.yml, verify_release_integrity.py, integrity_selfcheck.py).     *)
THEOREM GatesCoverSelfCheck == Spec => []GatedStarts
<1>1. RelInv => GatedStarts
  BY DEF RelInv, GatedInv, Vouched, GatedStarts, SelfCheck, FilesMatch
<1> QED BY <1>1, RelInvHolds, PTL
-----------------------------------------------------------------------------
(* The launched processes.                                                 *)

Checked   == (Starting \ {"spawned", "imported"}) \cup {"serving"}
Migrating == {"altering", "stamping"}

(* A launcher that opened nothing yet shares its port only with processes  *)
(* that are gone, unless it was raced.                                     *)
PortInv ==
    /\ \A l \in Launches : phase[l] = "none" <=> port[l] = None
    /\ \A l, k \in Launches :
          l # k /\ ~raced[l] /\ opened[l] = None /\ port[l] # None /\ port[k] = port[l]
          => phase[k] = "dead"

(* What a process knows of the database while it migrates it.              *)
MigrationInv ==
    /\ \A l \in Launches : phase[l] \in Checked \cup {"imported"} => schema[l] \in Versions
    /\ columns = None => version = 0 /\ \A l \in Launches : phase[l] \notin Migrating
    /\ columns # None => 1 .. version \subseteq columns
    /\ \A l \in Launches : phase[l] \in Migrating =>
          /\ target[l] \in Versions /\ target[l] <= schema[l]
          /\ 1 .. (target[l] - 1) \subseteq columns
          /\ phase[l] = "stamping" => target[l] \in columns

(* Beside a process that nothing overlaps no other one is starting, so the *)
(* version is its own.                                                     *)
AloneInv ==
    \A l \in Launches : ~overlapped[l] =>
        /\ phase[l] \in Starting \cup {"serving"} =>
               \A k \in Launches \ {l} : phase[k] \notin Starting
        /\ phase[l] \in {"resuming", "binding", "serving"} => version = schema[l]
        /\ phase[l] \in Migrating => version = target[l] - 1

(* Without a torn or shared start the tables have nothing that the version *)
(* does not tell, or that the migrating process does not know.             *)
TornInv ==
    ~torn =>
        /\ \A l, k \in Launches : phase[l] \in Starting /\ phase[k] \in Starting => l = k
        /\ \A l \in Launches : phase[l] \in Migrating => columns \subseteq 1 .. schema[l]
        /\ columns # None /\ (\A l \in Launches : phase[l] \notin Migrating)
               => columns \subseteq 1 .. version

StartInv ==
    TypeOK /\ RunsSignedCode /\ PortInv /\ OpensItsOwn /\ MigrationInv /\ AloneInv /\ TornInv

LEMMA InitStartInv == Init => StartInv
<1> SUFFICES ASSUME Init PROVE StartInv
  OBVIOUS
<1>1. RelTypeOK
  BY InitRelInv DEF Init, RelInv
<1>2. TypeOK
  <2>1. /\ phase \in [Launches -> Starting \cup {"none", "serving", "dead"}]
        /\ port \in [Launches -> Ports \cup {None}]
        /\ opened \in [Launches -> Launches \cup {None}]
    BY DEF Init
  <2>2. /\ schema \in [Launches -> Content]
        /\ target \in [Launches -> 0 .. MaxSchema + 1]
        /\ version \in 0 .. MaxSchema
    BY VersionNumbers DEF Init, Content
  <2>3. columns = None \/ columns \subseteq Versions
    BY DEF Init
  <2>4. /\ loaded \in [Launches -> [Modules -> Content] \cup {None}]
        /\ checked \in [Launches -> BOOLEAN] /\ overlapped \in [Launches -> BOOLEAN]
        /\ raced \in [Launches -> BOOLEAN] /\ torn \in BOOLEAN
    BY DEF Init
  <2> QED BY <1>1, <2>1, <2>2, <2>3, <2>4 DEF TypeOK
<1>3. RunsSignedCode /\ OpensItsOwn /\ AloneInv
  BY DEF Init, RunsSignedCode, OpensItsOwn, AloneInv, Starting, Migrating
<1>4. PortInv /\ MigrationInv /\ TornInv
  BY DEF Init, PortInv, MigrationInv, TornInv, Starting, Migrating, Checked
<1> QED BY <1>2, <1>3, <1>4 DEF StartInv

(* The lowest free port.                                                   *)
LEMMA LowestPort ==
  ASSUME Free # {}
  PROVE  (CHOOSE q \in Free : \A r \in Free : q <= r) \in Free
<1>1. Free \subseteq Nat
  BY StartupAssumption DEF Free
<1>2. PICK x \in Free : \A y \in Free : ~(<<y, x>> \in OpToRel(<, Nat))
  BY <1>1, NatLessThanWellFounded, WFMin, Zenon
<1>3. \A y \in Free : x <= y
  <2> SUFFICES ASSUME NEW y \in Free PROVE ~(y < x)
    BY <1>1
  <2>1. y \in Nat /\ x \in Nat /\ ~(<<y, x>> \in OpToRel(<, Nat))
    BY <1>1, <1>2
  <2> QED BY <2>1 DEF OpToRel
<1> QED BY <1>3

(* What launch() changes.                                                  *)
LEMMA LaunchEffect ==
  ASSUME TypeOK, NEW l \in Launches, Launch(l)
  PROVE  \E p \in Free :
            /\ port' = [port EXCEPT ![l] = p]
            /\ phase[l] = "none" /\ phase' = [phase EXCEPT ![l] = "spawned"]
            /\ raced' \in [Launches -> BOOLEAN] /\ overlapped' \in [Launches -> BOOLEAN]
            /\ torn' \in BOOLEAN
            /\ \A k \in Launches :
                  /\ raced[k] => raced'[k]
                  /\ port[k] = p /\ (opened[k] = None \/ phase[k] \in Starting) =>
                         raced'[k] /\ raced'[l]
                  /\ overlapped[k] => overlapped'[k]
                  /\ phase[k] \in Starting \cup {"serving"} => overlapped'[k]
                  /\ phase[k] \in Starting => overlapped'[l] /\ torn'
            /\ torn => torn'
            /\ UNCHANGED <<loaded, schema, target, opened, version, columns, checked>>
<1> DEFINE p    == CHOOSE q \in Free : \A r \in Free : q <= r
           same == {k \in Launches :
                       port[k] = p /\ (opened[k] = None \/ phase[k] \in Starting)}
           busy == {k \in Launches : phase[k] \in Starting}
<1>1. p \in Free
  BY LowestPort DEF Launch
<1>2. /\ phase[l] = "none"
      /\ port' = [port EXCEPT ![l] = p]
      /\ raced' = [k \in Launches |-> raced[k] \/ k \in same \/ (k = l /\ same # {})]
      /\ overlapped' = [k \in Launches |-> \/ overlapped[k]
                                           \/ k \in busy \cup Serving
                                           \/ k = l /\ busy # {}]
      /\ torn' = (torn \/ busy # {})
      /\ phase' = [phase EXCEPT ![l] = "spawned"]
      /\ UNCHANGED <<loaded, schema, target, opened, version, columns, checked>>
  BY DEF Launch, Go
<1>3. /\ \A k \in Launches : k \in same <=>
             port[k] = p /\ (opened[k] = None \/ phase[k] \in Starting)
      /\ \A k \in Launches : k \in busy <=> phase[k] \in Starting
      /\ \A k \in Launches : k \in Serving <=> phase[k] = "serving"
  BY DEF Serving
<1> HIDE DEF p, same, busy
<1>4. /\ raced' \in [Launches -> BOOLEAN]
      /\ \A k \in Launches : raced'[k] <=> raced[k] \/ k \in same \/ (k = l /\ same # {})
  BY <1>2, ZenonT(20)
<1>5. /\ overlapped' \in [Launches -> BOOLEAN]
      /\ \A k \in Launches :
            overlapped'[k] <=> overlapped[k] \/ k \in busy \cup Serving \/ (k = l /\ busy # {})
  BY <1>2, ZenonT(20)
<1>6. torn' \in BOOLEAN /\ (torn' <=> torn \/ busy # {})
  BY <1>2, ZenonT(20)
<1>7. \A k \in Launches :
         /\ raced[k] => raced'[k]
         /\ port[k] = p /\ (opened[k] = None \/ phase[k] \in Starting) =>
                raced'[k] /\ raced'[l]
  BY <1>3, <1>4
<1>8. \A k \in Launches :
         /\ overlapped[k] => overlapped'[k]
         /\ phase[k] \in Starting \cup {"serving"} => overlapped'[k]
         /\ phase[k] \in Starting => overlapped'[l] /\ torn'
  BY <1>3, <1>5, <1>6
<1>9. torn => torn'
  BY <1>6
<1> QED BY <1>1, <1>2, <1>4, <1>5, <1>6, <1>7, <1>8, <1>9

(* A process that moves on, and is neither launched nor revived by it,     *)
(* disturbs no launcher.                                                   *)
LEMMA MoveKeeps ==
  ASSUME TypeOK, PortInv, OpensItsOwn, RunsSignedCode,
         NEW l \in Launches, NEW x, x # "none",
         phase' = [phase EXCEPT ![l] = x], phase[l] \notin {"none", "dead"},
         x \in Checked => phase[l] \in Checked,
         UNCHANGED <<port, opened, raced, checked>>
  PROVE  PortInv' /\ OpensItsOwn' /\ RunsSignedCode'
<1>1. /\ phase'[l] = x /\ \A k \in Launches \ {l} : phase'[k] = phase[k]
  BY DEF TypeOK
<1>2. PortInv'
  BY <1>1 DEF PortInv
<1>3. OpensItsOwn'
  BY DEF OpensItsOwn
<1>4. RunsSignedCode'
  BY <1>1 DEF RunsSignedCode, Checked
<1> QED BY <1>2, <1>3, <1>4

LEMMA LaunchStep ==
  ASSUME StartInv, RelTypeOK', NEW l \in Launches, Launch(l)
  PROVE  StartInv'
<1> USE DEF StartInv
<1>1. PICK p \in Free :
            /\ port' = [port EXCEPT ![l] = p]
            /\ phase[l] = "none" /\ phase' = [phase EXCEPT ![l] = "spawned"]
            /\ raced' \in [Launches -> BOOLEAN] /\ overlapped' \in [Launches -> BOOLEAN]
            /\ torn' \in BOOLEAN
            /\ \A k \in Launches :
                  /\ raced[k] => raced'[k]
                  /\ port[k] = p /\ (opened[k] = None \/ phase[k] \in Starting) =>
                         raced'[k] /\ raced'[l]
                  /\ overlapped[k] => overlapped'[k]
                  /\ phase[k] \in Starting \cup {"serving"} => overlapped'[k]
                  /\ phase[k] \in Starting => overlapped'[l] /\ torn'
            /\ torn => torn'
            /\ UNCHANGED <<loaded, schema, target, opened, version, columns, checked>>
  BY LaunchEffect
<1>2. p \in Ports /\ p # None /\ \A k \in Launches : phase[k] = "serving" => port[k] # p
  BY StartupAssumption DEF Free, Serving
<1>3. /\ phase'[l] = "spawned" /\ \A k \in Launches \ {l} : phase'[k] = phase[k]
      /\ port'[l] = p /\ \A k \in Launches \ {l} : port'[k] = port[k]
  BY <1>1 DEF TypeOK
<1>4. TypeOK'
  <2>1. /\ phase' \in [Launches -> Starting \cup {"none", "serving", "dead"}]
        /\ port' \in [Launches -> Ports \cup {None}]
    BY <1>1, <1>2 DEF TypeOK, Starting
  <2> QED BY <1>1, <2>1 DEF TypeOK
<1>5. RunsSignedCode'
  BY <1>1, <1>3 DEF RunsSignedCode, Starting
<1>6. PortInv'
  <2>1. \A k \in Launches : phase'[k] = "none" <=> port'[k] = None
    BY <1>2, <1>3 DEF PortInv
  <2>2. ASSUME NEW j \in Launches, NEW k \in Launches, j # k, ~raced'[j], opened[j] = None,
               port'[j] # None, port'[k] = port'[j]
        PROVE  phase'[k] = "dead"
    <3>1. CASE j = l
      <4>1. port[k] = p /\ phase'[k] = phase[k] /\ phase[k] # "none"
        BY <1>2, <1>3, <2>2, <3>1 DEF PortInv
      <4>2. phase[k] \notin Starting
        BY <1>1, <2>2, <3>1, <4>1
      <4>3. phase[k] # "serving"
        BY <1>2, <4>1
      <4> QED BY <4>1, <4>2, <4>3 DEF TypeOK
    <3>2. CASE k = l
      BY <1>1, <1>3, <2>2, <3>2
    <3>3. CASE j # l /\ k # l
      <4>1. ~raced[j] /\ port[j] # None /\ port[k] = port[j] /\ phase'[k] = phase[k]
        BY <1>1, <1>3, <2>2, <3>3 DEF TypeOK
      <4> QED BY <2>2, <4>1 DEF PortInv
    <3> QED BY <3>1, <3>2, <3>3
  <2> QED BY <1>1, <2>1, <2>2 DEF PortInv
<1>7. OpensItsOwn'
  BY <1>1 DEF OpensItsOwn
<1>8. MigrationInv'
  <2>1. \A k \in Launches : /\ phase'[k] \in Checked \cup {"imported"} =>
                                   phase[k] \in Checked \cup {"imported"}
                            /\ phase'[k] \in Migrating <=> phase[k] \in Migrating
                            /\ phase'[k] = "stamping" <=> phase[k] = "stamping"
    BY <1>1, <1>3 DEF Checked, Migrating, Starting
  <2> QED BY <1>1, <2>1 DEF MigrationInv
<1>9. AloneInv'
  <2> SUFFICES ASSUME NEW k \in Launches, ~overlapped'[k]
               PROVE  /\ phase'[k] \in Starting \cup {"serving"} =>
                             \A j \in Launches \ {k} : phase'[j] \notin Starting
                      /\ phase'[k] \in {"resuming", "binding", "serving"} =>
                             version = schema[k]
                      /\ phase'[k] \in Migrating => version = target[k] - 1
    BY <1>1 DEF AloneInv
  <2>1. CASE k = l
    BY <1>1, <1>3, <2>1 DEF Migrating
  <2>2. CASE k # l
    BY <1>1, <1>3, <2>2 DEF Starting, Migrating
  <2> QED BY <2>1, <2>2
<1>10. TornInv'
  <2> SUFFICES ASSUME ~torn'
               PROVE  /\ \A j, k \in Launches :
                             phase'[j] \in Starting /\ phase'[k] \in Starting => j = k
                      /\ \A k \in Launches : phase'[k] \in Migrating =>
                             columns \subseteq 1 .. schema[k]
                      /\ columns # None /\ (\A k \in Launches : phase'[k] \notin Migrating)
                             => columns \subseteq 1 .. version
    BY <1>1 DEF TornInv
  <2>1. ~torn /\ \A k \in Launches : phase[k] \notin Starting
    BY <1>1
  <2>2. \A k \in Launches : phase'[k] \notin Migrating /\ phase[k] \notin Migrating
    BY <1>3, <2>1 DEF Migrating, Starting
  <2> QED BY <1>3, <2>1, <2>2 DEF TornInv
<1> QED BY <1>4, <1>5, <1>6, <1>7, <1>8, <1>9, <1>10

LEMMA WaitStep ==
  ASSUME StartInv, RelTypeOK', NEW l \in Launches, WaitPort(l)
  PROVE  StartInv'
<1> USE DEF StartInv
<1>1. PICK k \in Serving : port[k] = port[l] /\ opened' = [opened EXCEPT ![l] = k]
  BY DEF WaitPort
<1>2. /\ phase[l] # "none" /\ opened[l] = None /\ k \in Launches /\ phase[k] = "serving"
      /\ UNCHANGED <<phase, port, loaded, schema, target, version, columns, checked>>
      /\ UNCHANGED <<overlapped, raced, torn>>
  BY <1>1 DEF WaitPort, Serving
<1>3. k # None
  BY <1>2, StartupAssumption
<1>4. TypeOK' /\ RunsSignedCode' /\ MigrationInv' /\ AloneInv' /\ TornInv'
  BY <1>1, <1>2 DEF TypeOK, RunsSignedCode, MigrationInv, AloneInv, TornInv
<1>5. PortInv'
  BY <1>1, <1>2, <1>3 DEF PortInv, TypeOK
<1>6. OpensItsOwn'
  <2>1. raced[l] \/ k = l
    BY <1>1, <1>2 DEF PortInv
  <2> QED BY <1>1, <1>2, <2>1 DEF OpensItsOwn, TypeOK
<1> QED BY <1>4, <1>5, <1>6

LEMMA CreateStep ==
  ASSUME StartInv, RelTypeOK', NEW l \in Launches, Create(l)
  PROVE  StartInv'
<1> USE DEF StartInv
<1> DEFINE x == IF version > schema[l] THEN "dead" ELSE FirstStep(l)
<1>1. /\ phase[l] = "creating" /\ phase' = [phase EXCEPT ![l] = x]
      /\ columns' = IF columns = None THEN 1 .. schema[l] ELSE columns
      /\ target' = IF version > schema[l] THEN target ELSE [target EXCEPT ![l] = version + 1]
      /\ UNCHANGED <<port, loaded, schema, opened, version, checked, overlapped, raced, torn>>
  BY DEF Create, Go
<1>2. /\ schema[l] \in Versions /\ schema[l] \in Nat /\ schema[l] >= 1
      /\ schema[l] <= MaxSchema /\ version \in Nat
  BY <1>1, VersionNumbers DEF MigrationInv, Checked, Starting, TypeOK
<1>3. /\ version > schema[l] => x = "dead"
      /\ version = schema[l] => x = "resuming"
      /\ version < schema[l] => x = "altering"
  BY <1>2 DEF FirstStep
<1> HIDE DEF x
<1>4. x \in {"dead", "resuming", "altering"} /\ (x # "dead" => version <= schema[l])
  BY <1>2, <1>3
<1>5. /\ phase'[l] = x /\ \A k \in Launches \ {l} : phase'[k] = phase[k]
  BY <1>1 DEF TypeOK
<1>6. /\ columns' # None /\ columns' \subseteq Versions
      /\ 1 .. version \subseteq columns' /\ (columns # None => columns' = columns)
      /\ columns = None => columns' = 1 .. schema[l] /\ version = 0
  <2>1. CASE columns = None
    <3>1. 1 .. schema[l] \subseteq Versions
      BY <1>2, VersionNumbers
    <3>2. version = 0 /\ 1 .. version = {}
      BY <2>1 DEF MigrationInv
    <3>3. columns' = 1 .. schema[l]
      BY <1>1, <2>1
    <3>4. 1 .. schema[l] # None
      BY <3>1, StartupAssumption
    <3> QED BY <2>1, <3>1, <3>2, <3>3, <3>4
  <2>2. CASE columns # None
    BY <1>1, <2>2 DEF MigrationInv, TypeOK
  <2> QED BY <2>1, <2>2
<1>7. /\ x # "dead" => target'[l] = version + 1
      /\ \A k \in Launches \ {l} : target'[k] = target[k]
      /\ target' \in [Launches -> 0 .. MaxSchema + 1]
  <2>1. CASE version > schema[l]
    BY <1>1, <1>3, <2>1 DEF TypeOK
  <2>2. CASE ~(version > schema[l])
    <3>1. version + 1 \in 0 .. MaxSchema + 1
      BY <1>2, <2>2, VersionNumbers
    <3> QED BY <1>1, <2>2, <3>1 DEF TypeOK
  <2> QED BY <2>1, <2>2
<1>8. TypeOK'
  <2>1. phase' \in [Launches -> Starting \cup {"none", "serving", "dead"}]
    BY <1>1, <1>4 DEF TypeOK, Starting
  <2> QED BY <1>1, <1>6, <1>7, <2>1 DEF TypeOK
<1>9. PortInv' /\ OpensItsOwn' /\ RunsSignedCode'
  BY <1>1, <1>4, MoveKeeps DEF Checked, Starting
<1>10. MigrationInv'
  <2>1. \A k \in Launches : phase'[k] \in Checked \cup {"imported"} => schema[k] \in Versions
    BY <1>2, <1>5 DEF MigrationInv
  <2>2. ASSUME NEW k \in Launches, phase'[k] \in Migrating
        PROVE  /\ target'[k] \in Versions /\ target'[k] <= schema[k]
               /\ 1 .. (target'[k] - 1) \subseteq columns'
               /\ phase'[k] = "stamping" => target'[k] \in columns'
    <3>1. CASE k = l
      <4>1. x = "altering" /\ target'[l] = version + 1 /\ version < schema[l]
        BY <1>2, <1>3, <1>4, <1>5, <1>7, <2>2, <3>1 DEF Migrating
      <4>2. version + 1 \in Versions
        BY <1>2, <4>1, VersionNumbers
      <4> QED BY <1>2, <1>5, <1>6, <3>1, <4>1, <4>2
    <3>2. CASE k # l
      <4>1. phase[k] \in Migrating /\ columns # None
        BY <1>5, <2>2, <3>2 DEF MigrationInv
      <4> QED BY <1>5, <1>6, <1>7, <3>2, <4>1 DEF MigrationInv
    <3> QED BY <3>1, <3>2
  <2> QED BY <1>1, <1>6, <2>1, <2>2 DEF MigrationInv
<1>11. AloneInv'
  <2> SUFFICES ASSUME NEW k \in Launches, ~overlapped[k]
               PROVE  /\ phase'[k] \in Starting \cup {"serving"} =>
                             \A j \in Launches \ {k} : phase'[j] \notin Starting
                      /\ phase'[k] \in {"resuming", "binding", "serving"} =>
                             version = schema[k]
                      /\ phase'[k] \in Migrating => version = target'[k] - 1
    BY <1>1 DEF AloneInv
  <2>1. CASE k = l
    <3>1. \A j \in Launches \ {l} : phase'[j] \notin Starting
      BY <1>1, <1>5, <2>1 DEF AloneInv, Starting
    <3> QED BY <1>2, <1>3, <1>4, <1>5, <1>7, <2>1, <3>1 DEF Migrating
  <2>2. CASE k # l
    <3>1. phase'[k] = phase[k] /\ target'[k] = target[k]
      BY <1>5, <1>7, <2>2
    <3>2. phase[k] \notin Starting \cup {"serving"}
      BY <1>1, <2>2 DEF AloneInv, Starting
    <3> QED BY <3>1, <3>2 DEF Starting, Migrating
  <2> QED BY <2>1, <2>2
<1>12. TornInv'
  <2> SUFFICES ASSUME ~torn
               PROVE  /\ \A j, k \in Launches :
                             phase'[j] \in Starting /\ phase'[k] \in Starting => j = k
                      /\ \A k \in Launches : phase'[k] \in Migrating =>
                             columns' \subseteq 1 .. schema[k]
                      /\ columns' # None /\ (\A k \in Launches : phase'[k] \notin Migrating)
                             => columns' \subseteq 1 .. version
    BY <1>1 DEF TornInv
  <2>1. \A k \in Launches \ {l} : phase[k] \notin Starting /\ phase'[k] \notin Starting
    BY <1>1, <1>5 DEF TornInv, Starting
  <2>2. \A k \in Launches : phase[k] \notin Migrating
    BY <1>1, <2>1 DEF Migrating, Starting
  <2>3. columns # None => columns \subseteq 1 .. version
    BY <2>2 DEF TornInv
  <2>4. x = "altering" => columns' \subseteq 1 .. schema[l]
    BY <1>2, <1>4, <1>6, <2>3
  <2>5. x # "altering" => columns' \subseteq 1 .. version
    <3>1. columns = None => version < schema[l]
      BY <1>2, <1>6
    <3> QED BY <1>2, <1>3, <1>6, <2>3, <3>1
  <2> QED BY <1>4, <1>5, <2>1, <2>4, <2>5 DEF Migrating, Starting
<1> QED BY <1>8, <1>9, <1>10, <1>11, <1>12

(* A process that migrates: no other one does when nothing overlapped it.  *)
LEMMA AlterStep ==
  ASSUME StartInv, RelTypeOK', NEW l \in Launches, Alter(l)
  PROVE  StartInv'
<1> USE DEF StartInv
<1>1. /\ phase[l] = "altering" /\ phase' = [phase EXCEPT ![l] = "stamping"]
      /\ columns' = columns \cup {target[l]}
      /\ UNCHANGED <<port, loaded, schema, target, opened, version, checked>>
      /\ UNCHANGED <<overlapped, raced, torn>>
  BY DEF Alter, Go
<1>2. /\ phase'[l] = "stamping" /\ \A k \in Launches \ {l} : phase'[k] = phase[k]
  BY <1>1 DEF TypeOK
<1>3. /\ columns # None /\ target[l] \in Versions /\ target[l] <= schema[l]
      /\ target[l] \in Nat /\ schema[l] \in Versions /\ schema[l] \in Nat /\ target[l] >= 1
  BY <1>1, VersionNumbers DEF MigrationInv, Migrating, Checked, Starting
<1>4. /\ columns' # None /\ columns' \subseteq Versions
      /\ columns \subseteq columns' /\ target[l] \in columns'
  BY <1>1, <1>3, StartupAssumption DEF TypeOK
<1>5. TypeOK'
  <2>1. phase' \in [Launches -> Starting \cup {"none", "serving", "dead"}]
    BY <1>1 DEF TypeOK, Starting
  <2> QED BY <1>1, <1>4, <2>1 DEF TypeOK
<1>6. PortInv' /\ OpensItsOwn' /\ RunsSignedCode'
  BY <1>1, MoveKeeps DEF Checked, Starting
<1>7. MigrationInv'
  <2>1. \A k \in Launches : phase'[k] \in Checked \cup {"imported"} => schema[k] \in Versions
    BY <1>2, <1>3 DEF MigrationInv
  <2>2. 1 .. version \subseteq columns'
    BY <1>3, <1>4 DEF MigrationInv
  <2>3. ASSUME NEW k \in Launches, phase'[k] \in Migrating
        PROVE  /\ target[k] \in Versions /\ target[k] <= schema[k]
               /\ 1 .. (target[k] - 1) \subseteq columns'
               /\ phase'[k] = "stamping" => target[k] \in columns'
    <3>1. phase[k] \in Migrating /\ (k # l => phase[k] = phase'[k])
      BY <1>1, <1>2, <2>3 DEF Migrating
    <3> QED BY <1>4, <3>1 DEF MigrationInv
  <2> QED BY <1>1, <1>4, <2>1, <2>2, <2>3 DEF MigrationInv
<1>8. AloneInv'
  <2>1. \A k \in Launches : /\ phase'[k] \in Starting <=> phase[k] \in Starting
                            /\ phase'[k] \in Migrating <=> phase[k] \in Migrating
                            /\ phase'[k] \in {"resuming", "binding", "serving"} <=>
                                   phase[k] \in {"resuming", "binding", "serving"}
                            /\ phase'[k] = "serving" <=> phase[k] = "serving"
    BY <1>1, <1>2 DEF Starting, Migrating
  <2> QED BY <1>1, <2>1 DEF AloneInv
<1>9. TornInv'
  <2> SUFFICES ASSUME ~torn
               PROVE  /\ \A j, k \in Launches :
                             phase'[j] \in Starting /\ phase'[k] \in Starting => j = k
                      /\ \A k \in Launches : phase'[k] \in Migrating =>
                             columns' \subseteq 1 .. schema[k]
                      /\ columns' # None /\ (\A k \in Launches : phase'[k] \notin Migrating)
                             => columns' \subseteq 1 .. version
    BY <1>1 DEF TornInv
  <2>1. \A k \in Launches \ {l} : phase[k] \notin Starting /\ phase'[k] \notin Starting
    BY <1>1, <1>2 DEF TornInv, Starting
  <2>2. columns' \subseteq 1 .. schema[l]
    BY <1>1, <1>3 DEF TornInv, Migrating
  <2> QED BY <1>2, <2>1, <2>2 DEF Migrating, Starting
<1> QED BY <1>5, <1>6, <1>7, <1>8, <1>9

LEMMA StampStep ==
  ASSUME StartInv, RelTypeOK', NEW l \in Launches, Stamp(l)
  PROVE  StartInv'
<1> USE DEF StartInv
<1> DEFINE x == IF target[l] = schema[l] THEN "resuming" ELSE "altering"
<1>1. /\ phase[l] = "stamping" /\ phase' = [phase EXCEPT ![l] = x]
      /\ version' = target[l]
      /\ target' = [target EXCEPT ![l] = target[l] + 1]
      /\ UNCHANGED <<port, loaded, schema, opened, columns, checked, overlapped, raced, torn>>
  BY DEF Stamp, Go
<1>2. /\ target[l] = schema[l] => x = "resuming"
      /\ target[l] # schema[l] => x = "altering"
      /\ x \in {"resuming", "altering"}
  OBVIOUS
<1> HIDE DEF x
<1>3. /\ phase'[l] = x /\ \A k \in Launches \ {l} : phase'[k] = phase[k]
  BY <1>1 DEF TypeOK
<1>4. /\ columns # None /\ target[l] \in Versions /\ target[l] <= schema[l]
      /\ target[l] \in Nat /\ schema[l] \in Versions /\ schema[l] \in Nat /\ target[l] >= 1
      /\ 1 .. (target[l] - 1) \subseteq columns /\ target[l] \in columns
      /\ target[l] <= MaxSchema
  BY <1>1, VersionNumbers DEF MigrationInv, Migrating, Checked, Starting
<1>5. 1 .. target[l] \subseteq columns
  BY <1>4
<1>6. /\ target'[l] = target[l] + 1 /\ \A k \in Launches \ {l} : target'[k] = target[k]
      /\ target' \in [Launches -> 0 .. MaxSchema + 1]
  <2>1. target[l] + 1 \in 0 .. MaxSchema + 1
    BY <1>4, VersionNumbers
  <2> QED BY <1>1, <2>1 DEF TypeOK
<1>7. TypeOK'
  <2>1. phase' \in [Launches -> Starting \cup {"none", "serving", "dead"}]
    BY <1>1, <1>2 DEF TypeOK, Starting
  <2>2. version' \in 0 .. MaxSchema
    BY <1>1, <1>4, VersionNumbers
  <2> QED BY <1>1, <1>6, <2>1, <2>2 DEF TypeOK
<1>8. PortInv' /\ OpensItsOwn' /\ RunsSignedCode'
  BY <1>1, <1>2, MoveKeeps DEF Checked, Starting
<1>9. MigrationInv'
  <2>1. \A k \in Launches : phase'[k] \in Checked \cup {"imported"} => schema[k] \in Versions
    BY <1>3, <1>4 DEF MigrationInv
  <2>2. ASSUME NEW k \in Launches, phase'[k] \in Migrating
        PROVE  /\ target'[k] \in Versions /\ target'[k] <= schema[k]
               /\ 1 .. (target'[k] - 1) \subseteq columns
               /\ phase'[k] = "stamping" => target'[k] \in columns
    <3>1. CASE k = l
      <4>1. x = "altering" /\ target[l] < schema[l] /\ target'[l] - 1 = target[l]
        BY <1>2, <1>3, <1>4, <1>6, <2>2, <3>1 DEF Migrating
      <4>2. target[l] + 1 \in Versions
        BY <1>4, <4>1, VersionNumbers
      <4> QED BY <1>3, <1>4, <1>5, <1>6, <3>1, <4>1, <4>2
    <3>2. CASE k # l
      BY <1>3, <1>6, <2>2, <3>2 DEF MigrationInv
    <3> QED BY <3>1, <3>2
  <2> QED BY <1>1, <1>4, <1>5, <2>1, <2>2 DEF MigrationInv
<1>10. AloneInv'
  <2> SUFFICES ASSUME NEW k \in Launches, ~overlapped[k]
               PROVE  /\ phase'[k] \in Starting \cup {"serving"} =>
                             \A j \in Launches \ {k} : phase'[j] \notin Starting
                      /\ phase'[k] \in {"resuming", "binding", "serving"} =>
                             version' = schema[k]
                      /\ phase'[k] \in Migrating => version' = target'[k] - 1
    BY <1>1 DEF AloneInv
  <2>1. CASE k = l
    <3>1. \A j \in Launches \ {l} : phase'[j] \notin Starting
      BY <1>1, <1>3, <2>1 DEF AloneInv, Starting
    <3> QED BY <1>1, <1>2, <1>3, <1>4, <1>6, <2>1, <3>1 DEF Migrating
  <2>2. CASE k # l
    <3>1. phase'[k] = phase[k]
      BY <1>3, <2>2
    <3>2. phase[k] \notin Starting \cup {"serving"}
      BY <1>1, <2>2 DEF AloneInv, Starting
    <3> QED BY <3>1, <3>2 DEF Starting, Migrating
  <2> QED BY <2>1, <2>2
<1>11. TornInv'
  <2> SUFFICES ASSUME ~torn
               PROVE  /\ \A j, k \in Launches :
                             phase'[j] \in Starting /\ phase'[k] \in Starting => j = k
                      /\ \A k \in Launches : phase'[k] \in Migrating =>
                             columns \subseteq 1 .. schema[k]
                      /\ columns # None /\ (\A k \in Launches : phase'[k] \notin Migrating)
                             => columns \subseteq 1 .. version'
    BY <1>1 DEF TornInv
  <2>1. \A k \in Launches \ {l} : phase[k] \notin Starting /\ phase'[k] \notin Starting
    BY <1>1, <1>3 DEF TornInv, Starting
  <2>2. columns \subseteq 1 .. schema[l]
    BY <1>1 DEF TornInv, Migrating
  <2>3. x = "resuming" => version' = schema[l]
    BY <1>1, <1>2
  <2> QED BY <1>2, <1>3, <2>1, <2>2, <2>3 DEF Migrating, Starting
<1> QED BY <1>7, <1>8, <1>9, <1>10, <1>11

(* Resume, Bind and End: a process moves on behind its migration, or ends. *)
LEMMA LeaveStep ==
  ASSUME StartInv, RelTypeOK', NEW l \in Launches, Resume(l) \/ Bind(l) \/ End(l)
  PROVE  StartInv'
<1> USE DEF StartInv
<1>1. PICK x \in {"binding", "serving", "dead"} :
         /\ phase' = [phase EXCEPT ![l] = x]
         /\ x # "dead" => phase[l] \in {"resuming", "binding"}
         /\ x = "binding" => phase[l] = "resuming"
         /\ loaded' \in {loaded, [loaded EXCEPT ![l] = None]}
  BY DEF Resume, Bind, End, Go
<1>2. /\ phase[l] \in Starting \cup {"serving"}
      /\ UNCHANGED <<port, schema, target, opened, version, columns, checked>>
      /\ UNCHANGED <<overlapped, raced>>
  BY DEF Resume, Bind, End, Starting
<1>3. torn' \in BOOLEAN /\ (torn => torn') /\ (phase[l] \in Migrating => torn')
  <2>1. CASE End(l)
    <3>1. torn' = (torn \/ phase[l] \in {"altering", "stamping"})
      BY <2>1 DEF End
    <3> QED BY <3>1, ZenonT(20) DEF Migrating
  <2>2. CASE ~End(l)
    BY <2>2 DEF Resume, Bind, Migrating, TypeOK
  <2> QED BY <2>1, <2>2
<1>4. /\ phase'[l] = x /\ \A k \in Launches \ {l} : phase'[k] = phase[k]
  BY <1>1 DEF TypeOK
<1>5. TypeOK'
  <2>1. phase' \in [Launches -> Starting \cup {"none", "serving", "dead"}]
    BY <1>1 DEF TypeOK, Starting
  <2>2. loaded' \in [Launches -> [Modules -> Content] \cup {None}]
    BY <1>1 DEF TypeOK
  <2> QED BY <1>2, <1>3, <2>1, <2>2 DEF TypeOK
<1>6. PortInv' /\ OpensItsOwn' /\ RunsSignedCode'
  BY <1>1, <1>2, MoveKeeps DEF Checked, Starting
<1>7. \A k \in Launches :
         /\ phase'[k] \in Checked \cup {"imported"} => phase[k] \in Checked \cup {"imported"}
         /\ phase'[k] \in Starting => phase[k] \in Starting
         /\ phase'[k] \in Starting \cup {"serving"} => phase[k] \in Starting \cup {"serving"}
         /\ phase'[k] \in Migrating => k # l /\ phase[k] \in Migrating
         /\ phase'[k] = "stamping" => phase[k] = "stamping"
         /\ phase'[k] \in {"resuming", "binding", "serving"} =>
                phase[k] \in {"resuming", "binding", "serving"}
  BY <1>1, <1>4 DEF Checked, Starting, Migrating
<1>8. MigrationInv'
  BY <1>2, <1>7 DEF MigrationInv
<1>9. AloneInv'
  BY <1>2, <1>7 DEF AloneInv
<1>10. TornInv'
  <2> SUFFICES ASSUME ~torn'
               PROVE  /\ \A j, k \in Launches :
                             phase'[j] \in Starting /\ phase'[k] \in Starting => j = k
                      /\ \A k \in Launches : phase'[k] \in Migrating =>
                             columns \subseteq 1 .. schema[k]
                      /\ columns # None /\ (\A k \in Launches : phase'[k] \notin Migrating)
                             => columns \subseteq 1 .. version
    BY <1>2 DEF TornInv
  <2>1. ~torn /\ phase[l] \notin Migrating
    BY <1>3
  <2>2. (\A k \in Launches : phase'[k] \notin Migrating) =>
            \A k \in Launches : phase[k] \notin Migrating
    BY <1>4, <2>1
  <2> QED BY <1>7, <2>1, <2>2 DEF TornInv
<1> QED BY <1>5, <1>6, <1>8, <1>9, <1>10

(* What the self-check compares is a manifest that was signed.             *)
LEMMA SelfCheckSigned ==
  ASSUME RelInv, SelfCheck(Server, Secrets), NEW l \in Launches
  PROVE  Confirmed(l)
<1>1. Server \in Machines
  BY StartupAssumption
<1>2. manifest[Server] \in signed
  <2>1. CASE EdValid(Server)
    <3>1. sigEd[Server].by = public[Server] /\ sigEd[Server].over = manifest[Server]
      BY <2>1 DEF EdValid
    <3> QED BY <1>1, <3>1 DEF RelInv, SignedInv
  <2>2. CASE HmacValid(Server, Secrets)
    <3>1. sigHmac[Server] = [by |-> Server, over |-> manifest[Server]]
      BY <2>2 DEF HmacValid
    <3>2. [by |-> Server, over |-> manifest[Server]] \in [by : Machines, over : Manifest]
      BY <1>1 DEF RelInv, RelTypeOK
    <3>3. sigHmac[Server] # None /\ sigHmac[Server].over = manifest[Server]
      BY <3>1, <3>2, ReleaseAssumption
    <3> QED BY <1>1, <3>3 DEF RelInv, SignedInv
  <2> QED BY <2>1, <2>2 DEF SelfCheck
<1>3. \A f \in Modules : manifest[Server].code[f] # 0 =>
          manifest[Server].code[f] = code[Server][f]
  BY DEF SelfCheck, FilesMatch, Listed
<1> QED BY <1>2, <1>3 DEF Confirmed

(* What is imported is what the tree holds, the database module with it.   *)
LEMMA ImportStep ==
  ASSUME RelInv, StartInv, RelTypeOK', NEW l \in Launches, Import(l)
  PROVE  StartInv'
<1> USE DEF StartInv
<1>1. /\ phase[l] = "spawned" /\ phase' = [phase EXCEPT ![l] = "imported"]
      /\ loaded' = [loaded EXCEPT ![l] = code[Server]]
      /\ schema' = [schema EXCEPT ![l] = code[Server][Database]]
      /\ UNCHANGED <<port, target, opened, version, columns, checked, overlapped, raced, torn>>
  BY DEF Import, Go
<1>2. /\ code[Server] \in [Modules -> Content]
      /\ code[Server][Database] \in Versions /\ code[Server][Database] \in Content
  BY StartupAssumption, ReleaseAssumption DEF RelInv, RelTypeOK, CoreInv, Content
<1>3. /\ phase'[l] = "imported" /\ \A k \in Launches \ {l} : phase'[k] = phase[k]
      /\ schema'[l] \in Versions /\ \A k \in Launches \ {l} : schema'[k] = schema[k]
  BY <1>1, <1>2 DEF TypeOK
<1>4. TypeOK'
  <2>1. phase' \in [Launches -> Starting \cup {"none", "serving", "dead"}]
    BY <1>1 DEF TypeOK, Starting
  <2>2. /\ schema' \in [Launches -> Content]
        /\ loaded' \in [Launches -> [Modules -> Content] \cup {None}]
    BY <1>1, <1>2 DEF TypeOK
  <2> QED BY <1>1, <2>1, <2>2 DEF TypeOK
<1>5. PortInv' /\ OpensItsOwn' /\ RunsSignedCode'
  BY <1>1, MoveKeeps DEF Checked
<1>6. \A k \in Launches :
         /\ phase'[k] \in Starting <=> phase[k] \in Starting
         /\ phase'[k] \in Migrating <=> phase[k] \in Migrating
         /\ phase'[k] = "stamping" <=> phase[k] = "stamping"
         /\ phase'[k] \in {"resuming", "binding", "serving"} <=>
                phase[k] \in {"resuming", "binding", "serving"}
         /\ phase'[k] \in Starting \cup {"serving"} <=> phase[k] \in Starting \cup {"serving"}
         /\ phase'[k] \in Migrating \cup {"resuming", "binding", "serving"} =>
                schema'[k] = schema[k]
  BY <1>1, <1>3 DEF Starting, Migrating
<1>7. MigrationInv'
  <2>1. \A k \in Launches : phase'[k] \in Checked \cup {"imported"} => schema'[k] \in Versions
    BY <1>3 DEF MigrationInv
  <2> QED BY <1>1, <1>6, <2>1 DEF MigrationInv
<1>8. AloneInv' /\ TornInv'
  BY <1>1, <1>6 DEF AloneInv, TornInv
<1> QED BY <1>4, <1>5, <1>7, <1>8

LEMMA CheckStep ==
  ASSUME RelInv, StartInv, RelTypeOK', NEW l \in Launches, CheckSelf(l)
  PROVE  StartInv'
<1> USE DEF StartInv
<1>1. /\ phase[l] = "imported" /\ loaded' = [loaded EXCEPT ![l] = None]
      /\ UNCHANGED <<port, schema, target, opened, version, columns, overlapped, raced, torn>>
  BY DEF CheckSelf
<1>l. loaded' \in [Launches -> [Modules -> Content] \cup {None}]
  BY <1>1 DEF TypeOK
<1>2. CASE SelfCheck(Server, Secrets)
  <2>1. Confirmed(l) = TRUE
    <3>1. Confirmed(l)
      BY <1>2, SelfCheckSigned
    <3>2. Confirmed(l) \in BOOLEAN
      BY DEF Confirmed
    <3> QED BY <3>1, <3>2
  <2>2. /\ phase' = [phase EXCEPT ![l] = "creating"]
        /\ checked' = [checked EXCEPT ![l] = TRUE]
    BY <1>2, <2>1 DEF CheckSelf, Go
  <2>3. /\ phase'[l] = "creating" /\ \A k \in Launches \ {l} : phase'[k] = phase[k]
        /\ checked'[l] = TRUE /\ \A k \in Launches \ {l} : checked'[k] = checked[k]
    BY <2>2 DEF TypeOK
  <2>4. TypeOK'
    <3>1. phase' \in [Launches -> Starting \cup {"none", "serving", "dead"}]
      BY <2>2 DEF TypeOK, Starting
    <3>2. checked' \in [Launches -> BOOLEAN]
      BY <2>2 DEF TypeOK
    <3> QED BY <1>1, <1>l, <3>1, <3>2 DEF TypeOK
  <2>5. PortInv' /\ OpensItsOwn'
    BY <1>1, <2>3 DEF PortInv, OpensItsOwn
  <2>6. RunsSignedCode'
    BY <1>1, <2>3 DEF RunsSignedCode
  <2>7. \A k \in Launches :
           /\ phase'[k] \in Starting <=> phase[k] \in Starting
           /\ phase'[k] \in Migrating <=> phase[k] \in Migrating
           /\ phase'[k] = "stamping" <=> phase[k] = "stamping"
           /\ phase'[k] \in {"resuming", "binding", "serving"} <=>
                  phase[k] \in {"resuming", "binding", "serving"}
           /\ phase'[k] \in Starting \cup {"serving"} <=> phase[k] \in Starting \cup {"serving"}
           /\ phase'[k] \in Checked \cup {"imported"} <=> phase[k] \in Checked \cup {"imported"}
    BY <1>1, <2>3 DEF Starting, Migrating, Checked
  <2>8. MigrationInv'
    BY <1>1, <2>7 DEF MigrationInv
  <2>9. AloneInv' /\ TornInv'
    BY <1>1, <2>7 DEF AloneInv, TornInv
  <2> QED BY <2>4, <2>5, <2>6, <2>8, <2>9
<1>3. CASE ~SelfCheck(Server, Secrets)
  <2>1. phase' = [phase EXCEPT ![l] = "dead"] /\ UNCHANGED checked
    BY <1>3 DEF CheckSelf, Go
  <2>2. /\ phase'[l] = "dead" /\ \A k \in Launches \ {l} : phase'[k] = phase[k]
    BY <2>1 DEF TypeOK
  <2>3. TypeOK'
    <3>1. phase' \in [Launches -> Starting \cup {"none", "serving", "dead"}]
      BY <2>1 DEF TypeOK
    <3> QED BY <1>1, <1>l, <2>1, <3>1 DEF TypeOK
  <2>4. PortInv' /\ OpensItsOwn' /\ RunsSignedCode'
    BY <1>1, <2>1, <2>2 DEF PortInv, OpensItsOwn, RunsSignedCode, Starting
  <2>5. \A k \in Launches : /\ phase'[k] = phase[k] \/ (phase'[k] = "dead" /\ k = l)
                            /\ phase'[k] \in Migrating <=> phase[k] \in Migrating
    BY <1>1, <2>2 DEF Migrating
  <2>6. MigrationInv' /\ AloneInv' /\ TornInv'
    BY <1>1, <2>1, <2>5 DEF MigrationInv, AloneInv, TornInv, Starting, Checked, Migrating
  <2> QED BY <2>3, <2>4, <2>6
<1> QED BY <1>2, <1>3

LEMMA StartIdle == StartInv /\ RelTypeOK' /\ UNCHANGED startVars => StartInv'
  BY DEF StartInv, TypeOK, RunsSignedCode, PortInv, OpensItsOwn, MigrationInv, AloneInv,
         TornInv, Serving, startVars

LEMMA NextStartInv == RelInv /\ StartInv /\ [Next]_vars => StartInv'
<1> SUFFICES ASSUME RelInv, StartInv, [Next]_vars PROVE StartInv'
  OBVIOUS
<1>t. RelTypeOK'
  BY NextRelInv DEF RelInv
<1>1. ASSUME NEW l \in Launches, Start(l) PROVE StartInv'
  BY <1>t, <1>1, LaunchStep, WaitStep, ImportStep, CreateStep, AlterStep, StampStep, LeaveStep
  DEF Start
<1>2. ASSUME NEW l \in Launches, CheckSelf(l) PROVE StartInv'
  BY <1>t, <1>2, CheckStep
<1>3. CASE UNCHANGED startVars
  BY <1>t, <1>3, StartIdle
<1>4. CASE UNCHANGED vars
  BY <1>t, <1>4, StartIdle DEF vars
<1> QED BY <1>1, <1>2, <1>3, <1>4 DEF Next

LEMMA StartInvHolds == Spec => []StartInv
  BY InitStartInv, NextStartInv, RelInvHolds, PTL DEF Spec

(* Every reachable state of the trees, the processes and the database has  *)
(* the types declared for it.                                              *)
THEOREM StartTypeCorrect == Spec => []TypeOK
<1>1. StartInv => TypeOK
  BY DEF StartInv
<1> QED BY <1>1, StartInvHolds, PTL

(* Past its self-check a process runs modules of a manifest that a signing *)
(* confirmed, but for those whose file was changed between the import and  *)
(* the check, whatever was edited, rotated, crashed and checked out before *)
(* (integrity_selfcheck.py, main.py).                                      *)
THEOREM SignedCodeRuns == Spec => []RunsSignedCode
<1>1. StartInv => RunsSignedCode
  BY DEF StartInv
<1> QED BY <1>1, StartInvHolds, PTL

(* The database fits the code of a process that nothing overlapped, over   *)
(* any number of starts killed at any statement (database.py).             *)
THEOREM SchemaCorrect == Spec => []SchemaFits
<1>1. StartInv => SchemaFits
  <2> SUFFICES ASSUME StartInv, NEW l \in Launches, phase[l] = "serving", ~overlapped[l]
               PROVE  /\ version = schema[l] /\ 1 .. schema[l] \subseteq columns
                      /\ ~torn => columns = 1 .. schema[l]
    BY DEF SchemaFits, Serving
  <2>1. version = schema[l] /\ \A k \in Launches : phase[k] \notin Starting
    BY DEF StartInv, AloneInv, Starting
  <2>2. schema[l] \in Nat /\ schema[l] >= 1
    BY VersionNumbers DEF StartInv, MigrationInv, Checked
  <2>3. columns # None /\ 1 .. version \subseteq columns
    BY <2>1, <2>2 DEF StartInv, MigrationInv
  <2>4. ~torn => columns \subseteq 1 .. version
    BY <2>1, <2>3 DEF StartInv, TornInv, Migrating, Starting
  <2> QED BY <2>1, <2>3, <2>4
<1> QED BY <1>1, StartInvHolds, PTL

(* A launcher opens the page of its own process unless another one chose   *)
(* the same port before that process served (clean_launch.py).             *)
THEOREM LauncherOpensItsOwn == Spec => []OpensItsOwn
<1>1. StartInv => OpensItsOwn
  BY DEF StartInv
<1> QED BY <1>1, StartInvHolds, PTL
=============================================================================
