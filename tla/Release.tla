------------------------------ MODULE Release ------------------------------
(***************************************************************************)
(* What may be started: the manifest of the backend's modules, its         *)
(* signatures, and the self-check of a starting process.                   *)
(*                                                                         *)
(*   scripts/generate_integrity_manifest.py      Generate, Fresh           *)
(*   scripts/sign_integrity_manifest.py          Sign, VerifySignature     *)
(*   scripts/generate_manifest_signing_key.py    NewKeys, WritePublicKey   *)
(*   scripts/verify_release_integrity.py         ReleaseGate               *)
(*   backend/security/integrity_keys.py          keys and signatures       *)
(*   backend/security/integrity_selfcheck.py     SelfCheck                 *)
(*                                                                         *)
(* Each machine has a working tree, which git carries from one to another, *)
(* and data/, which it does not: the private key and the HMAC secret.  A   *)
(* hash is the content it is of, without its line ends.                    *)
(***************************************************************************)
EXTENDS Naturals

CONSTANTS
    Machines,
    Modules,      \* the .py files of backend/
    Core,         \* those without which nothing starts: the self-check itself
    Versions,     \* contents that a file may have, numbered
    SigningKeys,  \* key pairs, the repository's own first
    FirstKey,
    Signer,       \* the machine that holds its private half
    MaxOps,       \* bound: operations on the trees
    None

Content  == Versions \cup {0}
Manifest == [code : [Modules -> Content], kernel : Content, public : SigningKeys \cup {None}]

ASSUME ReleaseAssumption ==
    /\ FirstKey \in SigningKeys /\ Core \subseteq Modules /\ Core # {}
    /\ Signer \in Machines
    /\ Versions \subseteq Nat \ {0} /\ \E n \in Versions : Versions = 1 .. n
    /\ MaxOps \in Nat
    /\ None \notin Machines \cup SigningKeys \cup Content
    /\ None \notin [by : Machines, over : Manifest]

VARIABLES
    code,       \* backend/: the content of each module, 0 when it is not there
    kernel,     \* comfy_kernel/: the content of its entry points, 0 when one
                \* is not there, None without the directory
    manifest,   \* integrity_manifest.json
    sigEd,      \* .sig.ed25519: by which key, over which manifest
    sigHmac,    \* .sig: with which machine's secret, over which manifest
    public,     \* the public key in the tree
    private,    \* data/.manifest_signing_key
    secret,     \* data/.mmh3_secret exists
    newKey,     \* a key pair of which only the private half is written
    signed,     \* history: manifests for which signing reported success
    gated,      \* history: the gate that the tree passed before it was checked
                \* out here, "none" once it is changed
    ops

trees   == <<code, kernel, manifest, sigEd, sigHmac, public>>
relVars == <<trees, private, secret, newKey, signed, gated, ops>>

RelTypeOK ==
    /\ code \in [Machines -> [Modules -> Content]]
    /\ kernel \in [Machines -> Content \cup {None}]
    /\ manifest \in [Machines -> Manifest]
    /\ sigEd \in [Machines -> [by : SigningKeys, over : Manifest]]
    /\ sigHmac \in [Machines -> [by : Machines, over : Manifest] \cup {None}]
    /\ public \in [Machines -> SigningKeys \cup {None}]
    /\ private \in [Machines -> SigningKeys \cup {None}]
    /\ secret \in [Machines -> BOOLEAN]
    /\ newKey \in [Machines -> SigningKeys \cup {None}]
    /\ signed \subseteq Manifest
    /\ gated \in [Machines -> {"ci", "release", "none"}]
    /\ ops \in 0 .. MaxOps

-----------------------------------------------------------------------------
(* A mutant of Scan: a kernel that is not there is listed as nothing. *)
ScanKernelAlways(m, noComfy) ==
    [code |-> code[m],
     kernel |-> IF noComfy THEN 0 ELSE kernel[m],
     public |-> public[m]]

(* scan_py_tree and scan_comfy_core: only files that are there are listed; *)
(* in a manifest 0 stands for "not listed".                                *)
Scan(m, noComfy) ==
    [code |-> code[m],
     kernel |-> IF noComfy \/ kernel[m] = None THEN 0 ELSE kernel[m],
     public |-> public[m]]

(* A mutant of EdValid: the signature of an older manifest will do. *)
SignedOnce(m) == public[m] # None /\ sigEd[m].by = public[m]

(* verify_manifest_signature_ed25519 and ..._hmac.  The second makes a     *)
(* secret when there is none, with which nothing was signed.               *)
EdValid(m) == public[m] # None /\ sigEd[m] = [by |-> public[m], over |-> manifest[m]]

HmacValid(m, secrets) ==
    m \in secrets /\ sigHmac[m] = [by |-> m, over |-> manifest[m]]

Secrets == {m \in Machines : secret[m]}

PublicKeyGate(m) ==
    public[m] # None /\ manifest[m].public \in {None, public[m]}

(* The modules that the self-check looks at: those in the manifest. *)
Listed(m) == {f \in Modules : manifest[m].code[f] # 0}

(* Entries of the kernel are skipped on a machine without its directory. *)
KernelMatches(m) ==
    kernel[m] = None \/ manifest[m].kernel = 0 \/ kernel[m] = manifest[m].kernel

FilesMatch(m) ==
    /\ \A f \in Listed(m) : code[m][f] = manifest[m].code[f]
    /\ KernelMatches(m)

(* run_startup_selfcheck with a valid manifest, signature required.        *)
SelfCheck(m, secrets) ==
    /\ EdValid(m) \/ HmacValid(m, secrets)
    /\ \E f \in Modules : manifest[m].code[f] # 0
    /\ FilesMatch(m)

(* A mutant of Fresh: entries without a file are not looked for. *)
FreshIgnoresGone(m) ==
    \A f \in Modules : code[m][f] # 0 => manifest[m].code[f] = code[m][f]

(* generate_integrity_manifest.py --check: no hash differs, no file is     *)
(* without an entry, no entry without a file.                              *)
Fresh(m) == \A f \in Modules : manifest[m].code[f] = code[m][f]

(* sign_integrity_manifest.py --verify. *)
VerifySignature(m, secrets) ==
    IF EdValid(m) THEN PublicKeyGate(m) ELSE HmacValid(m, secrets)

(* What test.yml asks of a commit, on a machine without data/. *)
CiGate(m) == Fresh(m) /\ VerifySignature(m, {})

(* verify_release_integrity.py: unpack and smoke are self-checks here; the *)
(* tamper step changes one listed file of a copy without the kernel and    *)
(* expects exactly that failure.                                           *)
ReleaseGate(m) ==
    /\ SelfCheck(m, Secrets)
    /\ \E f \in Listed(m) : \A g \in Listed(m) : code[m][g] = manifest[m].code[g]

-----------------------------------------------------------------------------
RelInit ==
    LET repo == [code |-> [f \in Modules |-> 1], kernel |-> 0, public |-> FirstKey]
    IN  /\ code = [m \in Machines |-> repo.code]
        /\ kernel \in [Machines -> {None, 1}]
        /\ manifest = [m \in Machines |-> repo]
        /\ sigEd = [m \in Machines |-> [by |-> FirstKey, over |-> repo]]
        /\ sigHmac = [m \in Machines |-> None]
        /\ public = [m \in Machines |-> FirstKey]
        /\ private = [m \in Machines |-> IF m = Signer THEN FirstKey ELSE None]
        /\ secret = [m \in Machines |-> FALSE]
        /\ newKey = [m \in Machines |-> None]
        /\ signed = {repo}
        /\ gated = [m \in Machines |-> "ci"]
        /\ ops = 0

Op == ops < MaxOps /\ ops' = ops + 1

(* A module is changed, added or deleted, by hand or by a failing disk. *)
Edit(m) ==
    /\ Op
    /\ \E f \in Modules, v \in Content :
          /\ v # code[m][f]
          /\ f \in Core => v # 0
          /\ code' = [code EXCEPT ![m][f] = v]
    /\ gated' = [gated EXCEPT ![m] = "none"]
    /\ UNCHANGED <<kernel, manifest, sigEd, sigHmac, public, private, secret, newKey, signed>>

(* The manifest is written anew; what signed the old one stays there. *)
Generate(m) ==
    /\ Op
    /\ \E noComfy \in BOOLEAN : manifest' = [manifest EXCEPT ![m] = Scan(m, noComfy)]
    /\ gated' = [gated EXCEPT ![m] = "none"]
    /\ UNCHANGED <<code, kernel, sigEd, sigHmac, public, private, secret, newKey, signed>>

(* A generated key is one that has been nowhere before. *)
KeysInUse ==
    UNION {{public[n], private[n], sigEd[n].by, manifest[n].public} : n \in Machines}

(* generate_manifest_signing_keypair, --force over an existing key: first  *)
(* the private key is written ...                                          *)
NewKeys(m) ==
    /\ Op
    /\ newKey[m] = None
    /\ \E k \in SigningKeys \ KeysInUse :
          /\ private' = [private EXCEPT ![m] = k]
          /\ newKey' = [newKey EXCEPT ![m] = k]
    /\ UNCHANGED <<trees, secret, signed, gated>>

(* ... then the public one, unless it ends in between. *)
WritePublicKey(m) ==
    /\ newKey[m] # None
    /\ newKey' = [newKey EXCEPT ![m] = None]
    /\ \/ public' = [public EXCEPT ![m] = newKey[m]] /\ gated' = [gated EXCEPT ![m] = "none"]
       \/ UNCHANGED <<public, gated>>
    /\ UNCHANGED <<code, kernel, manifest, sigEd, sigHmac, private, secret, signed, ops>>

(* The signature just written verifies with the tree's public key. *)
ReadBack(m) == private[m] = public[m]

(* sign_manifest_ed25519 and sign_manifest_hmac: what they sign is the     *)
(* manifest as it lies there.                                              *)
Ed25519Signature(m) == [by |-> private[m], over |-> manifest[m]]
HmacSignature(m)    == [by |-> m, over |-> manifest[m]]

(* sign_integrity_manifest.py: the public key gate, then Ed25519 with the  *)
(* private key if there is one, else HMAC.  A signature that does not read *)
(* back has replaced the one before it.                                    *)
Sign(m) ==
    /\ Op
    /\ newKey[m] = None /\ PublicKeyGate(m)
    /\ IF private[m] # None
       THEN /\ sigEd' = [sigEd EXCEPT ![m] = Ed25519Signature(m)]
            /\ signed' = IF ReadBack(m) THEN signed \cup {manifest[m]} ELSE signed
            /\ UNCHANGED <<sigHmac, secret>>
       ELSE /\ sigHmac' = [sigHmac EXCEPT ![m] = HmacSignature(m)]
            /\ secret' = [secret EXCEPT ![m] = TRUE]
            /\ signed' = signed \cup {manifest[m]}
            /\ UNCHANGED sigEd
    /\ gated' = [gated EXCEPT ![m] = "none"]
    /\ UNCHANGED <<code, kernel, manifest, public, private, newKey>>

(* A commit of one machine that passed a gate there is checked out on the  *)
(* other: everything under git, and neither data/ nor the kernel.  The     *)
(* release gate takes the HMAC of its own machine for a signature.         *)
Passed(m) == IF CiGate(m) THEN "ci" ELSE IF ReleaseGate(m) THEN "release" ELSE "none"

CheckOut(from, to) ==
    /\ Op
    /\ from # to /\ newKey[to] = None
    /\ code' = [code EXCEPT ![to] = code[from]]
    /\ manifest' = [manifest EXCEPT ![to] = manifest[from]]
    /\ sigEd' = [sigEd EXCEPT ![to] = sigEd[from]]
    /\ sigHmac' = [sigHmac EXCEPT ![to] = sigHmac[from]]
    /\ public' = [public EXCEPT ![to] = public[from]]
    /\ gated' = [gated EXCEPT ![to] = Passed(from)]
    /\ UNCHANGED <<kernel, private, secret, newKey, signed>>

RelStep(m) ==
    \/ Edit(m) \/ Generate(m) \/ NewKeys(m) \/ WritePublicKey(m) \/ Sign(m)
    \/ \E n \in Machines : CheckOut(m, n)

(* What is signed by the HMAC of another machine only. *)
SignedElsewhere(m) ==
    ~EdValid(m) /\ sigHmac[m] # None /\ sigHmac[m].by # m /\ sigHmac[m].over = manifest[m]

(* A checkout that passed the gate of CI, and that nobody changed, starts  *)
(* without any secret: what the gate looks at on a machine without kernel  *)
(* covers what the self-check refuses on another, as long as that one's    *)
(* kernel is the one listed.  So does one that passed the release gate,    *)
(* unless an HMAC of the machine that ran it is all its signature: that    *)
(* gate passes what starts nowhere else.                                   *)
GatedStarts ==
    \A m \in Machines : KernelMatches(m) =>
        /\ gated[m] = "ci" => SelfCheck(m, {})
        /\ gated[m] = "release" => SelfCheck(m, {}) \/ SignedElsewhere(m)
=============================================================================
