----------------------------- MODULE ProfileBundles -----------------------------
(***************************************************************************)
(* Signed profile bundles from the ceremony that publishes them to the      *)
(* gateway that starts with one:                                            *)
(*   - the publisher (mcp/bundle_publisher.py) signs a document and writes  *)
(*     a package of four files, the bundle last;                            *)
(*   - the trust commands (mcp/trust_store.py) import public keys and       *)
(*     revoke keys and bundles, each rewriting two files of the store;      *)
(*   - the gateway (mcp/bundles.py, mcp/profiles.py) reads the bundle, the  *)
(*     trusted keys, the list of revocations and perhaps a local profile    *)
(*     file, one after the other, and from then on grants what they say or  *)
(*     refuses every call.                                                  *)
(* Every command may fail or be killed between its writes. A bundle is      *)
(* known by its number, which stands for the SHA-256 of its file.           *)
(***************************************************************************)
EXTENDS ToolProfiles

CONSTANTS
    KeyIds,        \* ids of signing keys
    Materials,     \* key pairs: a signature by one verifies with that one only
    SigningKeys,   \* the pairs <<id, material>> the publisher may sign with
    Deadlines,     \* the not_after a key may be imported with
    Requests,      \* what --profile may ask for
    Contents,      \* what may be signed, see Content
    RawFiles,      \* documents the local profile file may hold
    Audiences,     \* whom a bundle may be addressed to
    Here,          \* the audience this host belongs to
    Managers,      \* processes that run trust commands
    Missing,       \* a file that is not there
    Lifetime,      \* how long a bundle is valid
    Skew,          \* CLOCK_SKEW_SECONDS
    MaxNow, MaxBundles, MaxStops   \* bounds: time, ceremonies, stopped commands

VARIABLES
    now,
    keys,       \* trusted-keys.json: the key under each id, or None
    crl,        \* the list of revoked keys and bundles, or Missing
    metadata,   \* trust-metadata.json: which revocations it explains
    managers,   \* the trust command each manager runs
    published,  \* how many bundles have been signed
    package,    \* the bundle and what each sidecar says of which bundle
    publisher,  \* the running ceremony
    session,    \* the gateway
    revoked,    \* history: what "trust revoke" has reported as revoked
    unexplained,\* history: revoked by a command that then failed or was killed
    torn,       \* history: a ceremony was killed after its first write
    stops

vars == <<now, keys, crl, metadata, managers, published, package, publisher,
          session, revoked, unexplained, torn, stops>>
store == <<keys, crl, metadata, managers, revoked, unexplained>>
packaging == <<published, package, publisher, torn>>

Document == [profiles : UNION {[names -> Profile] : names \in SUBSET Names},
             default  : Names \cup {None}]
Content == [document : Document,
            ceiling  : SUBSET Rules,     \* allowed_upstream_namespaces
            audience : SUBSET Audiences,
            crl      : BOOLEAN]          \* whether it names the store's CRL

BundleIds == 1..MaxBundles
Targets == KeyIds \cup BundleIds
Sidecars == {"report", "manifest", "rollback"}
Key == [material : Materials, notAfter : Deadlines]
Bundle == [id : BundleIds, key : KeyIds, material : Materials,
           issued : 0..MaxNow, content : Contents]
NobodyRuns == [at |-> "idle"]

ASSUME ContentAssumption == Contents \subseteq Content /\ Here \in Audiences
ASSUME RawAssumption == None \notin RawFiles
ASSUME MissingAssumption == \A list \in SUBSET Targets : list # Missing
ASSUME KeyAssumption ==
    SigningKeys \subseteq KeyIds \X Materials /\ Deadlines \subseteq Nat \cup {None}
ASSUME RequestAssumption == Requests \subseteq Names \cup {None}
ASSUME TimeAssumption == {Lifetime, Skew, MaxNow, MaxBundles, MaxStops} \subseteq Nat
ASSUME TargetAssumption ==
    KeyIds \cap BundleIds = {} /\ None \notin Targets /\ None \notin Bundle /\ None \notin Key

Init ==
    /\ now = 0
    /\ keys = [k \in KeyIds |-> None]
    /\ crl = Missing
    /\ metadata = {}
    /\ managers = [m \in Managers |-> NobodyRuns]
    /\ published = 0
    /\ package = [bundle |-> None, report |-> None, manifest |-> None, rollback |-> None]
    /\ publisher = NobodyRuns
    /\ session = [at |-> "refusing"]
    /\ revoked = {} /\ unexplained = {} /\ torn = FALSE /\ stops = 0

Tick ==
    /\ now < MaxNow
    /\ now' = now + 1
    /\ UNCHANGED <<keys, crl, metadata, managers, published, package, publisher,
                   session, revoked, unexplained, torn, stops>>

--------------------------------------------------------------------------------
(* Trust commands. There is no lock: a command holds what it has read and   *)
(* writes it back with its own change. What is refused or already there     *)
(* changes nothing.                                                         *)

Command(m, next) == managers' = [managers EXCEPT ![m] = next]

(* Mutant for RevocationsExplained: import starts from empty metadata. *)
Import_Afresh(m, id, material, deadline) ==
    /\ managers[m].at = "idle"
    /\ keys[id] = None
    /\ Command(m, [at |-> "write keys", metadata |-> {},
                   keys |-> [keys EXCEPT ![id] = [material |-> material, notAfter |-> deadline]]])
    /\ UNCHANGED <<now, keys, crl, metadata, revoked, unexplained, packaging, session, stops>>

Import(m, id, material, deadline) ==
    /\ managers[m].at = "idle"
    /\ keys[id] = None
    /\ Command(m, [at |-> "write keys", metadata |-> metadata,
                   keys |-> [keys EXCEPT ![id] = [material |-> material, notAfter |-> deadline]]])
    /\ UNCHANGED <<now, keys, crl, metadata, revoked, unexplained, packaging, session, stops>>

WriteKeys(m) ==
    /\ managers[m].at = "write keys"
    /\ keys' = managers[m].keys
    /\ Command(m, [at |-> "write metadata", metadata |-> managers[m].metadata, target |-> None])
    /\ UNCHANGED <<now, crl, metadata, revoked, unexplained, packaging, session, stops>>

Listed == IF crl = Missing THEN {} ELSE crl

(* Mutant for TypeOK: reports a target that is not on the list as revoked. *)
RevokeAgain_Unchecked(m, target) ==
    /\ managers[m].at = "idle"
    /\ revoked' = revoked \cup {target}
    /\ UNCHANGED <<now, keys, crl, metadata, managers, unexplained, packaging, session, stops>>

RevokeAgain(m, target) ==
    /\ managers[m].at = "idle"
    /\ target \in Listed
    /\ revoked' = revoked \cup {target}
    /\ UNCHANGED <<now, keys, crl, metadata, managers, unexplained, packaging, session, stops>>

(* Mutant for RevokedIsRefused: a new list instead of the one on disk. *)
Revoke_Alone(m, target) ==
    /\ managers[m].at = "idle"
    /\ target \notin Listed
    /\ Command(m, [at |-> "write crl", crl |-> {target},
                   metadata |-> metadata \cup {target}, target |-> target])
    /\ UNCHANGED <<now, keys, crl, metadata, revoked, unexplained, packaging, session, stops>>

Revoke(m, target) ==
    /\ managers[m].at = "idle"
    /\ target \notin Listed
    /\ Command(m, [at |-> "write crl", crl |-> Listed \cup {target},
                   metadata |-> metadata \cup {target}, target |-> target])
    /\ UNCHANGED <<now, keys, crl, metadata, revoked, unexplained, packaging, session, stops>>

WriteCrl(m) ==
    /\ managers[m].at = "write crl"
    /\ crl' = managers[m].crl
    /\ Command(m, [at |-> "write metadata", metadata |-> managers[m].metadata,
                   target |-> managers[m].target])
    /\ UNCHANGED <<now, keys, metadata, revoked, unexplained, packaging, session, stops>>

WriteMetadata(m) ==
    /\ managers[m].at = "write metadata"
    /\ metadata' = managers[m].metadata
    /\ revoked' = revoked \cup ({managers[m].target} \ {None})
    /\ Command(m, NobodyRuns)
    /\ UNCHANGED <<now, keys, crl, unexplained, packaging, session, stops>>

(* A write that fails leaves its file as it was and ends the command, as    *)
(* does killing it: what it has written before stays.                       *)
CommandStops(m) ==
    /\ managers[m].at # "idle" /\ stops < MaxStops
    /\ stops' = stops + 1
    /\ unexplained' = unexplained \cup
          (IF managers[m].at = "write metadata" THEN {managers[m].target} \ {None} ELSE {})
    /\ Command(m, NobodyRuns)
    /\ UNCHANGED <<now, keys, crl, metadata, revoked, packaging, session>>

--------------------------------------------------------------------------------
(* Verification of a bundle, step by step (resolve_bundle_state).           *)

KeyAccepted(bundle, trusted, at) ==
    /\ trusted[bundle.key] # None
    /\ trusted[bundle.key].material = bundle.material
    /\ trusted[bundle.key].notAfter # None => at < trusted[bundle.key].notAfter

InWindow(bundle, at) ==
    bundle.issued <= at + Skew /\ at < bundle.issued + Lifetime + Skew

(* A list that a bundle names and that cannot be read refuses it.           *)
NotRevoked(bundle, list) ==
    bundle.content.crl => list # Missing /\ {bundle.id, bundle.key} \cap list = {}

WithinCeiling(content) ==
    \A name \in DOMAIN content.document.profiles :
        LET profile == content.document.profiles[name]
        IN  \A declared \in {profile.visible, profile.callable} \ {None} :
                Covered(declared, content.ceiling)

Addressed(bundle) == Here \in bundle.content.audience

--------------------------------------------------------------------------------
(* The publisher.                                                           *)

NoArtifact == \A file \in DOMAIN package : package[file] = None

(* Everything is checked before the first write: the document, the ceiling, *)
(* and the signed bytes by the verification itself, for which the publisher *)
(* trusts its own key and addresses the first audience of the bundle.       *)
Sign(content, signer, force) ==
    LET bundle == [id |-> published + 1, key |-> signer[1], material |-> signer[2],
                   issued |-> now, content |-> content]
    IN  /\ publisher.at = "idle" /\ published < MaxBundles
        /\ Valid(content.document) /\ WithinCeiling(content)
        /\ content.audience # {}
        /\ force \/ NoArtifact
        /\ InWindow(bundle, now) /\ NotRevoked(bundle, crl)
        /\ published' = published + 1
        /\ publisher' = [at |-> "report", bundle |-> bundle, written |-> {}]
        /\ UNCHANGED <<now, store, package, torn, session, stops>>

After == [report |-> "manifest", manifest |-> "rollback", rollback |-> "bundle"]

WriteSidecar ==
    /\ publisher.at \in Sidecars
    /\ package' = [package EXCEPT ![publisher.at] = publisher.bundle.id]
    /\ publisher' = [publisher EXCEPT !.at = After[@], !.written = @ \cup {publisher.at}]
    /\ UNCHANGED <<now, store, published, torn, session, stops>>

ReplaceBundle ==
    /\ publisher.at = "bundle"
    /\ package' = [package EXCEPT !.bundle = publisher.bundle]
    /\ publisher' = NobodyRuns
    /\ torn' = FALSE
    /\ UNCHANGED <<now, store, published, session, stops>>

(* Mutant for SidecarsDescribeTheBundle: the written sidecars stay. *)
CeremonyFails_Leaves ==
    /\ publisher.at # "idle" /\ stops < MaxStops
    /\ stops' = stops + 1
    /\ publisher' = NobodyRuns
    /\ UNCHANGED <<now, store, published, package, torn, session>>

(* A write fails: the sidecars of this ceremony are removed.                *)
CeremonyFails ==
    /\ publisher.at # "idle" /\ stops < MaxStops
    /\ stops' = stops + 1
    /\ package' = [file \in DOMAIN package |->
                      IF file \in publisher.written THEN None ELSE package[file]]
    /\ publisher' = NobodyRuns
    /\ UNCHANGED <<now, store, published, torn, session>>

CeremonyKilled ==
    /\ publisher.at # "idle" /\ stops < MaxStops
    /\ stops' = stops + 1
    /\ torn' = (torn \/ publisher.written # {})
    /\ publisher' = NobodyRuns
    /\ UNCHANGED <<now, store, published, package, session>>

--------------------------------------------------------------------------------
(* The gateway resolves its profile once, when it starts; what it serves    *)
(* afterwards does not depend on the files any more. It can be started anew *)
(* at any time.                                                             *)

Begun == session.at \in {"keys", "crl", "local"}
Refuse == session' = [at |-> "refusing"]

Start(requested, narrowed) ==
    /\ IF package.bundle = None
       THEN Refuse
       ELSE session' = [at |-> "keys", bundle |-> package.bundle, time |-> now,
                        requested |-> requested, narrowed |-> narrowed,
                        before |-> revoked \cap {package.bundle.id, package.bundle.key}]
    /\ UNCHANGED <<now, store, packaging, stops>>

ReadKeys ==
    /\ session.at = "keys"
    /\ IF KeyAccepted(session.bundle, keys, session.time) /\ InWindow(session.bundle, session.time)
       THEN session' = [session EXCEPT !.at = "crl"]
       ELSE Refuse
    /\ UNCHANGED <<now, store, packaging, stops>>

ReadCrl ==
    /\ session.at = "crl"
    /\ IF NotRevoked(session.bundle, crl)
       THEN session' = [session EXCEPT !.at = "local"]
       ELSE Refuse
    /\ UNCHANGED <<now, store, packaging, stops>>

Serve(profile, origin) == session' = [at |-> "serving", profile |-> profile, origin |-> origin]

(* The rest of the checks; then the local file, if there is one, narrows    *)
(* the selected profile of the bundle by its own profile of that name.      *)
Resolve(local) ==
    LET bundle == session.bundle
        document == bundle.content.document
        name == Selected(document, session.requested)
        origin == [bundle |-> bundle, before |-> session.before,
                   local |-> IF session.narrowed THEN local ELSE None, name |-> name]
    IN  /\ session.at = "local"
        /\ IF \/ ~Addressed(bundle) \/ ~WithinCeiling(bundle.content) \/ ~Valid(document)
              \/ name \notin DOMAIN document.profiles
              \/ session.narrowed /\ (~Valid(local) \/ name \notin DOMAIN local.profiles)
           THEN Refuse
           ELSE Serve(IF session.narrowed
                      THEN Intersect(Active(document, name), Active(local, name))
                      ELSE Active(document, name), origin)
        /\ UNCHANGED <<now, store, packaging, stops>>

(* Without a bundle the profile file alone decides. (resolve_profile_state) *)
StartRaw(document, requested) ==
    LET name == Selected(document, requested)
    IN  /\ IF ~Valid(document) \/ name \notin DOMAIN document.profiles
           THEN Refuse
           ELSE Serve(Active(document, name),
                      [bundle |-> None, before |-> {}, local |-> document, name |-> name])
        /\ UNCHANGED <<now, store, packaging, stops>>

--------------------------------------------------------------------------------

Next ==
    \/ Tick
    \/ \E m \in Managers :
          \/ \E id \in KeyIds, material \in Materials, deadline \in Deadlines :
                Import(m, id, material, deadline)
          \/ WriteKeys(m)
          \/ \E target \in Targets : Revoke(m, target) \/ RevokeAgain(m, target)
          \/ WriteCrl(m)
          \/ WriteMetadata(m)
          \/ CommandStops(m)
    \/ \E content \in Contents, signer \in SigningKeys, force \in BOOLEAN :
          Sign(content, signer, force)
    \/ WriteSidecar \/ ReplaceBundle \/ CeremonyFails \/ CeremonyKilled
    \/ \E requested \in Requests :
          \/ \E narrowed \in BOOLEAN : Start(requested, narrowed)
          \/ \E document \in RawFiles : StartRaw(document, requested)
    \/ ReadKeys
    \/ ReadCrl
    \/ \E document \in RawFiles : Resolve(document)

Spec == Init /\ [][Next]_vars

--------------------------------------------------------------------------------

(* The variables hold what their comments say; a bundle in the package has  *)
(* been signed, and what was left unexplained is on the list all the same.  *)
TypeOK ==
    /\ now \in 0..MaxNow
    /\ keys \in [KeyIds -> Key \cup {None}]
    /\ crl = Missing \/ crl \subseteq Targets
    /\ metadata \subseteq Targets
    /\ \A m \in Managers : managers[m].at \in {"idle", "write keys", "write crl", "write metadata"}
    /\ published \in 0..MaxBundles
    /\ package.bundle # None => package.bundle.id \in 1..published
    /\ \A file \in Sidecars : package[file] \in (1..published) \cup {None}
    /\ publisher.at # "idle" =>
          publisher.bundle.id = published /\ publisher.written \subseteq Sidecars
    /\ session.at \in {"refusing", "keys", "crl", "local", "serving"}
    /\ revoked \subseteq Listed /\ unexplained \subseteq Listed
    /\ torn \in BOOLEAN /\ stops \in 0..MaxStops

(* A gateway that was started after "trust revoke" had reported a key or a  *)
(* bundle as revoked never serves a bundle so signed, or that bundle, if    *)
(* the bundle names the list: not after any other command, however it ended.*)
RevokedIsRefused ==
    session.at = "serving" /\ session.origin.bundle # None /\ session.origin.bundle.content.crl
        => {session.origin.bundle.id, session.origin.bundle.key} \cap session.origin.before = {}

(* The store explains its revocations: each has a record in the metadata,   *)
(* unless its command is still to write it or was stopped just before, and  *)
(* there is no record of something that is not revoked.                     *)
RevocationsExplained ==
    /\ metadata \subseteq Listed
    /\ \A target \in Listed \ metadata :
          \/ target \in unexplained
          \/ \E m \in Managers : managers[m].at = "write metadata" /\ managers[m].target = target

(* Between ceremonies, whichever of them failed, a sidecar that is there    *)
(* tells of the bundle that is there; only a ceremony that was killed after *)
(* its first write leaves a package that contradicts itself.                *)
SidecarsDescribeTheBundle ==
    publisher.at = "idle" /\ ~torn
        => \A file \in Sidecars : package[file] # None
              => package.bundle # None /\ package[file] = package.bundle.id

(* What a gateway with a bundle grants stays within the ceiling of the      *)
(* bundle and within what the bundle alone would grant, and a local file    *)
(* beside it only narrows: it grants nothing that either would refuse.      *)
GrantsOnlyNarrow ==
    session.at = "serving" /\ session.origin.bundle # None =>
        LET origin == session.origin
            parts == {Active(origin.bundle.content.document, origin.name)} \cup
                     (IF origin.local = None THEN {} ELSE {Active(origin.local, origin.name)})
        IN  \A u \in Upstreams, t \in Tools :
                /\ IsVisible(session.profile, u, t) =>
                      /\ Matches(origin.bundle.content.ceiling, u, t)
                      /\ \A part \in parts : IsVisible(part, u, t)
                /\ IsCallable(session.profile, u, t) =>
                      \A part \in parts : IsCallable(part, u, t)

================================================================================
