-------------------------- MODULE ProfileBundlesProofs --------------------------
(***************************************************************************)
(* What profiles and bundles promise, for every set of upstreams, tools,    *)
(* documents, keys and processes.                                           *)
(***************************************************************************)
EXTENDS ProfileBundles, TLAPS

(* A gateway starts an upstream, for the index of its tools, exactly when   *)
(* some tool of it could be visible: HasVisibleTools (ActiveProfile.        *)
(* upstream_has_visible_tools), which does not know the tools the upstream  *)
(* will list, agrees with IsVisible for every chain of rule lists.          *)
THEOREM StartsWhatContributes ==
    ASSUME NEW profile, NEW upstream
    PROVE  HasVisibleTools(profile, upstream)
              <=> \E tool \in Tools : IsVisible(profile, upstream, tool)
<1> DEFINE exact == {rules \in profile.visible : <<upstream, Any>> \notin rules}
<1>1. ASSUME HasVisibleTools(profile, upstream)
      PROVE  \E tool \in Tools : IsVisible(profile, upstream, tool)
  <2>1. PICK tool \in Tools : \A rules \in exact : <<upstream, tool>> \in rules
    BY <1>1, ToolsAssumption DEF HasVisibleTools, NamedByAll
  <2>2. \A rules \in profile.visible : Matches(rules, upstream, tool)
    BY <2>1 DEF Matches
  <2> QED BY <1>1, <2>2 DEF HasVisibleTools, IsVisible, Granted
<1>2. ASSUME NEW tool \in Tools, IsVisible(profile, upstream, tool)
      PROVE  HasVisibleTools(profile, upstream)
  <2>1. \A rules \in exact : <<upstream, tool>> \in rules
    BY <1>2 DEF IsVisible, Granted, Matches
  <2>2. tool \in NamedByAll(exact, upstream)
    BY <2>1 DEF NamedByAll
  <2> QED BY <1>2, <2>2 DEF HasVisibleTools, IsVisible, Granted
<1> QED BY <1>1, <1>2

(* Joining the chains of two artifacts grants what both grant, and nothing  *)
(* of a field that one of them does not declare (_intersect_profiles).      *)
LEMMA JoinedChains ==
    ASSUME NEW one, NEW two, NEW upstream, NEW tool,
           Granted(OrDenyAll(one) \cup OrDenyAll(two), upstream, tool)
    PROVE  Granted(one, upstream, tool) /\ Granted(two, upstream, tool)
<1>1. \A chain \in {one, two} : chain # {}
  BY DEF Granted, OrDenyAll, Matches
<1> QED BY <1>1 DEF Granted, OrDenyAll

LEMMA IntersectNarrows ==
    ASSUME NEW bundle, NEW local, NEW upstream, NEW tool
    PROVE  /\ IsVisible(Intersect(bundle, local), upstream, tool)
                 => IsVisible(bundle, upstream, tool) /\ IsVisible(local, upstream, tool)
           /\ IsCallable(Intersect(bundle, local), upstream, tool)
                 => IsCallable(bundle, upstream, tool) /\ IsCallable(local, upstream, tool)
BY JoinedChains DEF IsVisible, IsCallable, Intersect

(* A tool that a list grants, every rule of which is covered by the ceiling,*)
(* is within the ceiling (_rule_covered).                                   *)
LEMMA CoveredMatches ==
    ASSUME NEW declared, NEW rules, NEW upstream, NEW tool,
           Covered(declared, rules), Matches(declared, upstream, tool)
    PROVE  Matches(rules, upstream, tool)
BY DEF Covered, RuleCovered, Matches

LEMMA ActiveWithinCeiling ==
    ASSUME NEW content, WithinCeiling(content), NEW name, NEW upstream, NEW tool,
           IsVisible(Active(content.document, name), upstream, tool)
    PROVE  Matches(content.ceiling, upstream, tool)
<1> DEFINE document == content.document
<1>1. PICK rules \in Active(document, name).visible : Matches(rules, upstream, tool)
  BY DEF IsVisible, Granted
<1>2. PICK ancestor \in DOMAIN document.profiles :
          rules = document.profiles[ancestor].visible /\ rules # None
  BY <1>1 DEF Active, Ancestry
<1>3. Covered(rules, content.ceiling)
  BY <1>2 DEF WithinCeiling
<1> QED BY <1>1, <1>3, CoveredMatches

--------------------------------------------------------------------------------
(* The session that serves under a bundle serves the profile the bundle     *)
(* resolves to, joined with that of the local file if there is one.         *)

Served(origin) ==
    LET active == Active(origin.bundle.content.document, origin.name)
    IN  IF origin.local = None THEN active ELSE Intersect(active, Active(origin.local, origin.name))

SessionInv ==
    /\ "at" \in DOMAIN session
    /\ session.at = "serving" /\ session.origin.bundle # None =>
          /\ session.profile = Served(session.origin)
          /\ WithinCeiling(session.origin.bundle.content)

LEMMA SessionInvNarrow == SessionInv => GrantsOnlyNarrow
<1> SUFFICES ASSUME SessionInv, session.at = "serving", session.origin.bundle # None,
                    NEW u \in Upstreams, NEW t \in Tools
             PROVE  LET origin == session.origin
                        parts == {Active(origin.bundle.content.document, origin.name)} \cup
                            (IF origin.local = None THEN {}
                              ELSE {Active(origin.local, origin.name)})
                    IN  /\ IsVisible(session.profile, u, t) =>
                              /\ Matches(origin.bundle.content.ceiling, u, t)
                              /\ \A part \in parts : IsVisible(part, u, t)
                        /\ IsCallable(session.profile, u, t) =>
                              \A part \in parts : IsCallable(part, u, t)
  BY DEF GrantsOnlyNarrow
<1> DEFINE origin == session.origin
           active == Active(origin.bundle.content.document, origin.name)
           narrow == Active(origin.local, origin.name)
<1>1. IsVisible(session.profile, u, t)
        => IsVisible(active, u, t) /\ (origin.local # None => IsVisible(narrow, u, t))
  BY IntersectNarrows DEF SessionInv, Served
<1>2. IsCallable(session.profile, u, t)
        => IsCallable(active, u, t) /\ (origin.local # None => IsCallable(narrow, u, t))
  BY IntersectNarrows DEF SessionInv, Served
<1>3. IsVisible(active, u, t) => Matches(origin.bundle.content.ceiling, u, t)
  BY ActiveWithinCeiling DEF SessionInv
<1> QED BY <1>1, <1>2, <1>3

(* A gateway never grants more than its bundle, the ceiling of the bundle   *)
(* and the local file beside it: GrantsOnlyNarrow, however the files change *)
(* while the gateway starts (resolve_bundle_state, _intersect_profiles).    *)
THEOREM GrantsNarrow == Spec => []GrantsOnlyNarrow
<1>1. Init => SessionInv
  BY DEF Init, SessionInv
<1>2. SessionInv /\ [Next]_vars => SessionInv'
  <2> SUFFICES ASSUME SessionInv, [Next]_vars PROVE SessionInv'
    OBVIOUS
  <2>1. CASE UNCHANGED session
    BY <2>1 DEF SessionInv
  <2>2. ASSUME NEW requested, NEW narrowed, Start(requested, narrowed) PROVE SessionInv'
    BY <2>2 DEF Start, Refuse, SessionInv
  <2>3. CASE ReadKeys
    BY <2>3 DEF ReadKeys, Refuse, SessionInv
  <2>4. CASE ReadCrl
    BY <2>4 DEF ReadCrl, Refuse, SessionInv
  <2>5. ASSUME NEW local \in RawFiles, Resolve(local) PROVE SessionInv'
    <3> DEFINE bundle == session.bundle
               document == bundle.content.document
               name == Selected(document, session.requested)
               origin == [bundle |-> bundle, before |-> session.before,
                          local |-> IF session.narrowed THEN local ELSE None, name |-> name]
               profile == IF session.narrowed
                          THEN Intersect(Active(document, name), Active(local, name))
                          ELSE Active(document, name)
    <3>1. CASE Refuse
      BY <3>1 DEF Refuse, SessionInv
    <3>2. CASE Serve(profile, origin) /\ WithinCeiling(bundle.content)
      <4>1. session.narrowed => local # None
        BY <2>5, RawAssumption
      <4>2. profile = Served(origin)
        BY <4>1 DEF Served
      <4> QED BY <3>2, <4>2 DEF Serve, SessionInv, Served
    <3> QED BY <2>5, <3>1, <3>2 DEF Resolve
  <2>6. ASSUME NEW document, NEW requested, StartRaw(document, requested) PROVE SessionInv'
    BY <2>6 DEF StartRaw, Refuse, Serve, SessionInv
  <2> QED
    BY <2>1, <2>2, <2>3, <2>4, <2>5, <2>6
    DEF Next, vars, Tick, Import, WriteKeys, Revoke, RevokeAgain, WriteCrl, WriteMetadata,
        CommandStops, Sign, WriteSidecar, ReplaceBundle, CeremonyFails, CeremonyKilled
<1> QED BY <1>1, <1>2, SessionInvNarrow, PTL DEF Spec

--------------------------------------------------------------------------------
(* The trust store, with at most one command at a time.                     *)

OneManager == \A m, n \in Managers : m = n

HeldInv(m) ==
    /\ "at" \in DOMAIN managers[m]
    /\ managers[m].at \in {"idle", "write keys", "write crl", "write metadata"}
    /\ managers[m].at = "write keys" => managers[m].metadata = metadata
    /\ managers[m].at = "write crl" =>
          /\ managers[m].target \in Targets
          /\ managers[m].crl = Listed \cup {managers[m].target}
          /\ managers[m].metadata = metadata \cup {managers[m].target}
    /\ managers[m].at = "write metadata" =>
          \/ managers[m].target = None /\ managers[m].metadata = metadata
          \/ /\ managers[m].target \in Listed
             /\ managers[m].metadata = metadata \cup {managers[m].target}

StoreInv ==
    /\ crl # Missing => crl \subseteq Targets
    /\ revoked \subseteq Listed
    /\ RevocationsExplained
    /\ DOMAIN managers = Managers
    /\ \A m \in Managers : HeldInv(m)

LEMMA StoreInit == Init => StoreInv
<1> SUFFICES ASSUME Init PROVE StoreInv
  OBVIOUS
<1>1. \A m \in Managers : managers[m] = NobodyRuns
  BY DEF Init
<1>2. \A m \in Managers : HeldInv(m)
  <2> TAKE m \in Managers
  <2>1. managers[m] = [at |-> "idle"]
    BY <1>1 DEF NobodyRuns
  <2>2. "at" \in DOMAIN managers[m] /\ managers[m].at = "idle"
    BY <2>1
  <2> QED BY <2>2 DEF HeldInv
<1> QED BY <1>2 DEF Init, StoreInv, Listed, RevocationsExplained

LEMMA StoreStep ==
    ASSUME OneManager, StoreInv, [Next]_vars
    PROVE  StoreInv' /\ Listed \subseteq Listed' /\ revoked \subseteq revoked'
<1>1. CASE UNCHANGED store
  BY <1>1 DEF store, StoreInv, HeldInv, Listed, RevocationsExplained
<1>2. ASSUME NEW m \in Managers, NEW id, NEW material, NEW deadline,
             Import(m, id, material, deadline)
      PROVE  StoreInv' /\ Listed \subseteq Listed' /\ revoked \subseteq revoked'
  <2>1. Listed' = Listed
    BY <1>2 DEF Import, Listed
  <2>2. HeldInv(m)'
    BY <1>2, <2>1 DEF Import, Command, HeldInv, StoreInv
  <2>3. RevocationsExplained'
    BY <1>2, <2>1 DEF Import, Command, StoreInv, RevocationsExplained
  <2> QED BY <1>2, <2>1, <2>2, <2>3, OneManager DEF Import, Command, StoreInv, OneManager
<1>3. ASSUME NEW m \in Managers, WriteKeys(m)
      PROVE  StoreInv' /\ Listed \subseteq Listed' /\ revoked \subseteq revoked'
  <2>1. Listed' = Listed
    BY <1>3 DEF WriteKeys, Listed
  <2>2. HeldInv(m)'
    BY <1>3, <2>1 DEF WriteKeys, Command, HeldInv, StoreInv
  <2>3. RevocationsExplained'
    BY <1>3, <2>1 DEF WriteKeys, Command, StoreInv, RevocationsExplained
  <2> QED BY <1>3, <2>1, <2>2, <2>3, OneManager DEF WriteKeys, Command, StoreInv, OneManager
<1>4. ASSUME NEW m \in Managers, NEW target \in Targets, RevokeAgain(m, target)
      PROVE  StoreInv' /\ Listed \subseteq Listed' /\ revoked \subseteq revoked'
  BY <1>4 DEF RevokeAgain, StoreInv, HeldInv, Listed, RevocationsExplained
<1>5. ASSUME NEW m \in Managers, NEW target \in Targets, Revoke(m, target)
      PROVE  StoreInv' /\ Listed \subseteq Listed' /\ revoked \subseteq revoked'
  <2>1. Listed' = Listed
    BY <1>5 DEF Revoke, Listed
  <2>2. HeldInv(m)'
    BY <1>5, <2>1 DEF Revoke, Command, HeldInv, StoreInv
  <2>3. RevocationsExplained'
    BY <1>5, <2>1 DEF Revoke, Command, StoreInv, RevocationsExplained
  <2> QED BY <1>5, <2>1, <2>2, <2>3, OneManager DEF Revoke, Command, StoreInv, OneManager
<1>6. ASSUME NEW m \in Managers, WriteCrl(m)
      PROVE  StoreInv' /\ Listed \subseteq Listed' /\ revoked \subseteq revoked'
  <2> DEFINE target == managers[m].target
  <2>1. target \in Targets /\ managers[m].crl = Listed \cup {target} /\ Listed \subseteq Targets
    BY <1>6 DEF WriteCrl, StoreInv, HeldInv, Listed
  <2>2. crl' # Missing /\ crl' \subseteq Targets /\ Listed' = Listed \cup {target}
    BY <1>6, <2>1, MissingAssumption DEF WriteCrl, Listed
  <2>3. HeldInv(m)'
    BY <1>6, <2>2 DEF WriteCrl, Command, HeldInv, StoreInv
  <2>4. RevocationsExplained'
    BY <1>6, <2>2 DEF WriteCrl, Command, StoreInv, RevocationsExplained
  <2> QED BY <1>6, <2>2, <2>3, <2>4, OneManager DEF WriteCrl, Command, StoreInv, OneManager
<1>7. ASSUME NEW m \in Managers, WriteMetadata(m)
      PROVE  StoreInv' /\ Listed \subseteq Listed' /\ revoked \subseteq revoked'
  <2>1. Listed' = Listed
    BY <1>7 DEF WriteMetadata, Listed
  <2>2. HeldInv(m)'
    BY <1>7, <2>1 DEF WriteMetadata, Command, HeldInv, StoreInv, NobodyRuns
  <2>3. RevocationsExplained'
    <3>1. \A n \in Managers : n = m
      BY OneManager DEF OneManager
    <3>2. managers[m].metadata = metadata \cup ({managers[m].target} \cap Listed)
      <4>1. None \notin Listed
        BY TargetAssumption DEF StoreInv, Listed
      <4>2. HeldInv(m) /\ managers[m].at = "write metadata"
        BY <1>7 DEF WriteMetadata, StoreInv
      <4> QED BY <4>1, <4>2 DEF HeldInv
    <3> QED BY <1>7, <2>1, <3>1, <3>2 DEF WriteMetadata, StoreInv, RevocationsExplained
  <2>4. revoked' \subseteq Listed
    BY <1>7 DEF WriteMetadata, StoreInv, HeldInv
  <2> QED
    BY <1>7, <2>1, <2>2, <2>3, <2>4, OneManager DEF WriteMetadata, Command, StoreInv, OneManager
<1>8. ASSUME NEW m \in Managers, CommandStops(m)
      PROVE  StoreInv' /\ Listed \subseteq Listed' /\ revoked \subseteq revoked'
  <2>1. Listed' = Listed
    BY <1>8 DEF CommandStops, Listed
  <2>2. HeldInv(m)'
    BY <1>8, <2>1 DEF CommandStops, Command, HeldInv, StoreInv, NobodyRuns
  <2>3. RevocationsExplained'
    <3>1. \A n \in Managers : n = m
      BY OneManager DEF OneManager
    <3>2. None \notin Listed
      BY TargetAssumption DEF StoreInv, Listed
    <3> QED BY <1>8, <2>1, <3>1, <3>2 DEF CommandStops, StoreInv, RevocationsExplained
  <2> QED
    BY <1>8, <2>1, <2>2, <2>3, OneManager DEF CommandStops, Command, StoreInv, OneManager
<1> QED
  BY <1>1, <1>2, <1>3, <1>4, <1>5, <1>6, <1>7, <1>8
  DEF Next, vars, store, Tick, Sign, WriteSidecar, ReplaceBundle, CeremonyFails,
      CeremonyKilled, Start, ReadKeys, ReadCrl, Resolve, StartRaw

(* The metadata of the store explains its revocations (RevocationsExplained),*)
(* whatever is imported and revoked and wherever a command is stopped, if no*)
(* two trust commands overlap: each writes back what it has read.           *)
THEOREM StoreExplains == ASSUME OneManager PROVE Spec => []RevocationsExplained
<1>1. StoreInv /\ [Next]_vars => StoreInv'
  BY StoreStep
<1>2. StoreInv => RevocationsExplained
  BY DEF StoreInv
<1> QED BY StoreInit, <1>1, <1>2, PTL DEF Spec

--------------------------------------------------------------------------------
(* Between the start of a gateway and its read of the list no revocation is *)
(* lost, so that what had been revoked at the start is still on the list.   *)

Clean(bundle, before) == bundle.content.crl => {bundle.id, bundle.key} \cap before = {}

RevokedInv ==
    /\ "at" \in DOMAIN session
    /\ session.at \in {"keys", "crl", "local"} =>
          /\ {"bundle", "before"} \subseteq DOMAIN session
          /\ session.before \subseteq revoked
          /\ session.at = "local" => Clean(session.bundle, session.before)
    /\ session.at = "serving" /\ session.origin.bundle # None
          => Clean(session.origin.bundle, session.origin.before)

LEMMA RevokedStep ==
    ASSUME OneManager, StoreInv, RevokedInv, [Next]_vars
    PROVE  RevokedInv'
<1>1. revoked \subseteq revoked' /\ revoked \subseteq Listed
  BY StoreStep DEF StoreInv
<1>2. CASE UNCHANGED session
  BY <1>1, <1>2 DEF RevokedInv, Clean
<1>3. ASSUME NEW requested, NEW narrowed, Start(requested, narrowed) PROVE RevokedInv'
  BY <1>3 DEF Start, Refuse, RevokedInv, store
<1>4. CASE ReadKeys
  BY <1>4 DEF ReadKeys, Refuse, RevokedInv, store
<1>5. CASE ReadCrl
  <2>1. CASE Refuse
    BY <2>1 DEF Refuse, RevokedInv
  <2>2. CASE NotRevoked(session.bundle, crl) /\ session' = [session EXCEPT !.at = "local"]
    <3>1. Clean(session.bundle, session.before)
      BY <1>1, <1>5, <2>2 DEF ReadCrl, NotRevoked, Clean, RevokedInv, Listed
    <3> QED BY <1>5, <2>2, <3>1 DEF ReadCrl, RevokedInv, Clean, store
  <2> QED BY <1>5, <2>1, <2>2 DEF ReadCrl
<1>6. ASSUME NEW local, Resolve(local) PROVE RevokedInv'
  <2>1. CASE Refuse
    BY <2>1 DEF Refuse, RevokedInv
  <2>2. CASE session'.at = "serving" /\ "at" \in DOMAIN session'
                /\ session'.origin.bundle = session.bundle
                /\ session'.origin.before = session.before
    BY <1>6, <2>2 DEF Resolve, RevokedInv, Clean
  <2> QED BY <1>6, <2>1, <2>2 DEF Resolve, Serve
<1>7. ASSUME NEW document, NEW requested, StartRaw(document, requested) PROVE RevokedInv'
  BY <1>7 DEF StartRaw, Refuse, Serve, RevokedInv
<1> QED
  BY <1>2, <1>3, <1>4, <1>5, <1>6, <1>7
  DEF Next, vars, Tick, Import, WriteKeys, Revoke, RevokeAgain, WriteCrl, WriteMetadata,
      CommandStops, Sign, WriteSidecar, ReplaceBundle, CeremonyFails, CeremonyKilled

(* No gateway started after a revocation was reported serves what it revoked*)
(* (RevokedIsRefused), again if no two trust commands overlap.              *)
THEOREM RevocationHolds == ASSUME OneManager PROVE Spec => []RevokedIsRefused
<1>1. Init => RevokedInv
  BY DEF Init, RevokedInv
<1>2. StoreInv /\ RevokedInv /\ [Next]_vars => StoreInv' /\ RevokedInv'
  BY StoreStep, RevokedStep
<1>3. RevokedInv => RevokedIsRefused
  BY DEF RevokedInv, Clean, RevokedIsRefused
<1> QED BY StoreInit, <1>1, <1>2, <1>3, PTL DEF Spec

--------------------------------------------------------------------------------
(* The package. A ceremony that runs has written the sidecars before the    *)
(* one it is at; the others still tell of the bundle in place.              *)

Describes(file) ==
    package[file] # None => package.bundle # None /\ package[file] = package.bundle.id

PackageInv ==
    /\ DOMAIN package = Sidecars \cup {"bundle"}
    /\ {"at"} \subseteq DOMAIN publisher
    /\ publisher.at \in Sidecars \cup {"bundle", "idle"}
    /\ publisher.at = "idle" => torn \/ \A file \in Sidecars : Describes(file)
    /\ publisher.at # "idle" =>
          /\ {"at", "written", "bundle"} \subseteq DOMAIN publisher
          /\ publisher.bundle # None
          /\ publisher.written = CASE publisher.at = "report" -> {}
                                   [] publisher.at = "manifest" -> {"report"}
                                   [] publisher.at = "rollback" -> {"report", "manifest"}
                                   [] publisher.at = "bundle" -> Sidecars
          /\ \A file \in publisher.written : package[file] = publisher.bundle.id
          /\ torn \/ \A file \in Sidecars \ publisher.written : Describes(file)

LEMMA PackageStep ==
    ASSUME PackageInv, now \in 0..MaxNow, published \in 0..MaxBundles, [Next]_vars
    PROVE  PackageInv' /\ now' \in 0..MaxNow /\ published' \in 0..MaxBundles
<1> USE DEF PackageInv, Describes, Sidecars
<1>0. CASE Tick
  BY <1>0, TimeAssumption DEF Tick
<1>1. CASE UNCHANGED <<now, packaging>>
  BY <1>1 DEF packaging
<1>2. ASSUME NEW content \in Contents, NEW signer \in SigningKeys, NEW force,
             Sign(content, signer, force)
      PROVE  PackageInv' /\ now' \in 0..MaxNow /\ published' \in 0..MaxBundles
  <2> DEFINE bundle == [id |-> published + 1, key |-> signer[1], material |-> signer[2],
                        issued |-> now, content |-> content]
  <2>1. bundle \in Bundle
    BY <1>2, KeyAssumption, TimeAssumption DEF Sign, Bundle, BundleIds
  <2>2. bundle # None
    BY <2>1, TargetAssumption
  <2>3. published' \in 0..MaxBundles /\ now' \in 0..MaxNow
    BY <1>2, TimeAssumption DEF Sign
  <2> QED BY <1>2, <2>2, <2>3 DEF Sign
<1>3. CASE WriteSidecar
  <2>1. now' \in 0..MaxNow /\ published' \in 0..MaxBundles
    BY <1>3 DEF WriteSidecar
  <2>2. CASE publisher.at = "report"
    BY <1>3, <2>1, <2>2 DEF WriteSidecar, After
  <2>3. CASE publisher.at = "manifest"
    BY <1>3, <2>1, <2>3 DEF WriteSidecar, After
  <2>4. CASE publisher.at = "rollback"
    BY <1>3, <2>1, <2>4 DEF WriteSidecar, After
  <2> QED BY <1>3, <2>2, <2>3, <2>4 DEF WriteSidecar
<1>4. CASE ReplaceBundle
  BY <1>4 DEF ReplaceBundle, NobodyRuns
<1>5. CASE CeremonyFails
  BY <1>5 DEF CeremonyFails, NobodyRuns
<1>6. CASE CeremonyKilled
  BY <1>6 DEF CeremonyKilled, NobodyRuns
<1> QED
  BY <1>0, <1>1, <1>2, <1>3, <1>4, <1>5, <1>6
  DEF Next, vars, packaging, Import, WriteKeys, Revoke, RevokeAgain, WriteCrl,
      WriteMetadata, CommandStops, Start, ReadKeys, ReadCrl, Resolve, StartRaw

(* A sidecar tells of the bundle beside it (SidecarsDescribeTheBundle),     *)
(* wherever a ceremony fails, until one is killed.                          *)
THEOREM PackageAgrees == Spec => []SidecarsDescribeTheBundle
<1> DEFINE Inv == PackageInv /\ now \in 0..MaxNow /\ published \in 0..MaxBundles
<1>1. Init => Inv
  BY TimeAssumption DEF Init, PackageInv, Describes, Sidecars, NobodyRuns
<1>2. Inv /\ [Next]_vars => Inv'
  BY PackageStep
<1>3. Inv => SidecarsDescribeTheBundle
  BY DEF PackageInv, Describes, SidecarsDescribeTheBundle
<1> QED BY <1>1, <1>2, <1>3, PTL DEF Spec

--------------------------------------------------------------------------------
(* The formats, with one trust command at a time: the second command would  *)
(* take from the list what the first has left unexplained on it.            *)

Stored == [KeyIds -> Key \cup {None}]

StoreTypes ==
    /\ keys \in Stored
    /\ \A m \in Managers : managers[m].at = "write keys" => managers[m].keys \in Stored
    /\ unexplained \subseteq Listed
    /\ stops \in 0..MaxStops

LEMMA StoreTypesStep ==
    ASSUME OneManager, StoreInv, StoreTypes, [Next]_vars
    PROVE  StoreTypes'
<1>0. Listed \subseteq Listed' /\ MaxStops \in Nat /\ stops \in Nat
  <2>1. Listed \subseteq Listed'
    BY StoreStep
  <2>2. MaxStops \in Nat
    BY TimeAssumption
  <2>3. stops \in 0..MaxStops
    BY DEF StoreTypes
  <2> QED BY <2>1, <2>2, <2>3
<1>1. CASE UNCHANGED <<store, stops>>
  BY <1>1 DEF store, StoreTypes, Listed
<1>2. CASE UNCHANGED store /\ stops < MaxStops /\ stops' = stops + 1
  <2>1. UNCHANGED <<keys, managers, crl, unexplained>>
    BY <1>2 DEF store
  <2>2. stops' \in 0..MaxStops
    BY <1>0, <1>2
  <2> QED BY <2>1, <2>2 DEF StoreTypes, Listed
<1>3. ASSUME NEW m \in Managers, NEW next, Command(m, next), UNCHANGED <<unexplained, stops>>,
             keys' \in Stored, next.at = "write keys" => next.keys \in Stored
      PROVE  StoreTypes'
  <2>1. \A n \in Managers : managers'[n] = next
    BY <1>3, OneManager DEF OneManager, Command, StoreInv
  <2>2. unexplained' \subseteq Listed'
    BY <1>0, <1>3 DEF StoreTypes
  <2> QED BY <1>3, <2>1, <2>2 DEF StoreTypes
<1>4. ASSUME NEW m \in Managers, NEW id \in KeyIds, NEW material \in Materials,
             NEW deadline \in Deadlines, Import(m, id, material, deadline)
      PROVE  StoreTypes'
  <2>1. [material |-> material, notAfter |-> deadline] \in Key
    BY DEF Key
  <2>2. [keys EXCEPT ![id] = [material |-> material, notAfter |-> deadline]] \in Stored
    BY <2>1 DEF StoreTypes, Stored
  <2>3. keys' \in Stored /\ UNCHANGED <<unexplained, stops>>
    BY <1>4 DEF Import, StoreTypes
  <2> QED BY <1>3, <1>4, <2>2, <2>3 DEF Import
<1>5. ASSUME NEW m \in Managers, WriteKeys(m)
      PROVE  StoreTypes'
  <2>1. keys' \in Stored /\ UNCHANGED <<unexplained, stops>>
    BY <1>5 DEF WriteKeys, StoreTypes
  <2> QED BY <1>3, <1>5, <2>1 DEF WriteKeys
<1>6. ASSUME NEW m \in Managers, NEW target \in Targets, RevokeAgain(m, target)
      PROVE  StoreTypes'
  BY <1>6 DEF RevokeAgain, StoreTypes, Listed
<1>7. ASSUME NEW m \in Managers, NEW target \in Targets, Revoke(m, target)
      PROVE  StoreTypes'
  <2>1. keys' \in Stored /\ UNCHANGED <<unexplained, stops>>
    BY <1>7 DEF Revoke, StoreTypes
  <2> QED BY <1>3, <1>7, <2>1 DEF Revoke
<1>8. ASSUME NEW m \in Managers, WriteCrl(m)
      PROVE  StoreTypes'
  <2>1. keys' \in Stored /\ UNCHANGED <<unexplained, stops>>
    BY <1>8 DEF WriteCrl, StoreTypes
  <2> QED BY <1>3, <1>8, <2>1 DEF WriteCrl
<1>9. ASSUME NEW m \in Managers, WriteMetadata(m)
      PROVE  StoreTypes'
  <2>1. keys' \in Stored /\ UNCHANGED <<unexplained, stops>>
    BY <1>9 DEF WriteMetadata, StoreTypes
  <2> QED BY <1>3, <1>9, <2>1 DEF WriteMetadata, NobodyRuns
<1>10. ASSUME NEW m \in Managers, CommandStops(m)
       PROVE  StoreTypes'
  <2>1. \A n \in Managers : managers'[n] = NobodyRuns
    BY <1>10, OneManager DEF OneManager, CommandStops, Command, StoreInv
  <2>2. stops < MaxStops /\ stops' = stops + 1 /\ UNCHANGED <<keys, crl>>
    BY <1>10 DEF CommandStops
  <2>4. stops' \in 0..MaxStops
    BY <1>0, <2>2
  <2>3. unexplained' \subseteq Listed
    BY <1>10 DEF CommandStops, StoreInv, HeldInv, StoreTypes
  <2>5. Listed' = Listed
    BY <2>2 DEF Listed
  <2>6. \A n \in Managers : managers'[n].at # "write keys"
    <3>1. NobodyRuns.at # "write keys"
      BY DEF NobodyRuns
    <3> QED BY <2>1, <3>1
  <2> QED BY <2>2, <2>3, <2>4, <2>5, <2>6 DEF StoreTypes
<1> QED
  BY <1>1, <1>2, <1>4, <1>5, <1>6, <1>7, <1>8, <1>9, <1>10
  DEF Next, vars, Tick, Sign, WriteSidecar, ReplaceBundle, CeremonyFails,
      CeremonyKilled, Start, ReadKeys, ReadCrl, Resolve, StartRaw, store

PackageTypes ==
    /\ package.bundle # None => package.bundle.id \in 1..published
    /\ \A file \in Sidecars : package[file] \in (1..published) \cup {None}
    /\ publisher.at # "idle" => publisher.bundle.id = published /\ published >= 1
    /\ torn \in BOOLEAN

LEMMA PackageTypesStep ==
    ASSUME PackageInv, PackageTypes, published \in 0..MaxBundles, [Next]_vars
    PROVE  PackageTypes'
<1> USE DEF PackageInv, PackageTypes, Sidecars
<1>1. CASE UNCHANGED packaging
  BY <1>1 DEF packaging
<1>2. ASSUME NEW content, NEW signer, NEW force, Sign(content, signer, force)
      PROVE  PackageTypes'
  <2>1. published' = published + 1 /\ UNCHANGED <<package, torn>>
    BY <1>2 DEF Sign
  <2>2. publisher'.bundle.id = published'
    BY <1>2 DEF Sign
  <2> QED BY <2>1, <2>2
<1>3. CASE WriteSidecar
  <2>1. PICK at \in Sidecars : at = publisher.at
    BY <1>3 DEF WriteSidecar
  <2>2. package' = [package EXCEPT ![at] = published] /\ UNCHANGED <<published, torn>>
    BY <1>3, <2>1 DEF WriteSidecar
  <2>3. publisher'.bundle = publisher.bundle
    BY <1>3 DEF WriteSidecar
  <2> QED BY <1>3, <2>1, <2>2, <2>3 DEF WriteSidecar
<1>4. CASE ReplaceBundle
  <2>1. package' = [package EXCEPT !.bundle = publisher.bundle] /\ torn' = FALSE
    BY <1>4 DEF ReplaceBundle
  <2>2. publisher'.at = "idle" /\ published' = published /\ publisher.bundle.id = published
    BY <1>4 DEF ReplaceBundle, NobodyRuns
  <2>3. package'.bundle.id \in 1..published'
    BY <1>4, <2>1, <2>2 DEF ReplaceBundle
  <2>4. \A file \in Sidecars : package'[file] = package[file]
    BY <2>1
  <2> QED BY <2>1, <2>2, <2>3, <2>4
<1>5. CASE CeremonyFails
  BY <1>5 DEF CeremonyFails, NobodyRuns
<1>6. CASE CeremonyKilled
  BY <1>6 DEF CeremonyKilled, NobodyRuns
<1> QED
  BY <1>1, <1>2, <1>3, <1>4, <1>5, <1>6
  DEF Next, vars, packaging, Tick, Import, WriteKeys, Revoke, RevokeAgain, WriteCrl,
      WriteMetadata, CommandStops, Start, ReadKeys, ReadCrl, Resolve, StartRaw

SessionTypes ==
    "at" \in DOMAIN session /\ session.at \in {"refusing", "keys", "crl", "local", "serving"}

LEMMA SessionTypesStep ==
    ASSUME SessionTypes, [Next]_vars
    PROVE  SessionTypes'
<1> USE DEF SessionTypes, Refuse, Serve
<1>1. CASE UNCHANGED session
  BY <1>1
<1>2. ASSUME NEW requested, NEW narrowed, Start(requested, narrowed)
      PROVE  SessionTypes'
  BY <1>2 DEF Start
<1>3. CASE ReadKeys \/ ReadCrl
  BY <1>3 DEF ReadKeys, ReadCrl
<1>4. ASSUME NEW local, Resolve(local)
      PROVE  SessionTypes'
  BY <1>4 DEF Resolve
<1>5. ASSUME NEW document, NEW requested, StartRaw(document, requested)
      PROVE  SessionTypes'
  BY <1>5 DEF StartRaw
<1> QED
  BY <1>1, <1>2, <1>3, <1>4, <1>5
  DEF Next, vars, Tick, Import, WriteKeys, Revoke, RevokeAgain, WriteCrl, WriteMetadata,
      CommandStops, Sign, WriteSidecar, ReplaceBundle, CeremonyFails, CeremonyKilled

(* Store, package and gateway keep their formats, bundles and sidecars tell *)
(* of bundles that were signed, and what was reported as revoked or left    *)
(* unexplained stays on the list, if no two trust commands overlap.         *)
THEOREM TypeCorrect == ASSUME OneManager PROVE Spec => []TypeOK
<1> DEFINE Inv == /\ StoreInv /\ StoreTypes
                  /\ PackageInv /\ now \in 0..MaxNow /\ published \in 0..MaxBundles
                  /\ PackageTypes /\ SessionTypes
<1>1. Init => Inv
  <2> SUFFICES ASSUME Init PROVE Inv
    OBVIOUS
  <2>1. StoreInv
    BY StoreInit
  <2>2. StoreTypes
    <3>1. keys \in Stored
      BY DEF Init, Stored
    <3>2. \A m \in Managers : managers[m].at # "write keys"
      BY DEF Init, NobodyRuns
    <3>3. unexplained \subseteq Listed /\ stops \in 0..MaxStops
      BY TimeAssumption DEF Init
    <3> QED BY <3>1, <3>2, <3>3 DEF StoreTypes
  <2>3. PackageInv /\ now \in 0..MaxNow /\ published \in 0..MaxBundles
    BY TimeAssumption DEF Init, PackageInv, Describes, Sidecars, NobodyRuns
  <2>4. PackageTypes
    <3>1. publisher.at = "idle"
      BY DEF Init, NobodyRuns
    <3>2. package.bundle = None /\ torn = FALSE
      BY DEF Init
    <3>3. package.report = None /\ package.manifest = None /\ package.rollback = None
      BY DEF Init
    <3> QED BY <3>1, <3>2, <3>3 DEF PackageTypes, Sidecars
  <2>5. SessionTypes
    BY DEF Init, SessionTypes
  <2> QED BY <2>1, <2>2, <2>3, <2>4, <2>5
<1>2. Inv /\ [Next]_vars => Inv'
  BY StoreStep, StoreTypesStep, PackageStep, PackageTypesStep, SessionTypesStep
<1>3. Inv => TypeOK
  <2> SUFFICES ASSUME Inv PROVE TypeOK
    OBVIOUS
  <2>1. /\ crl = Missing \/ crl \subseteq Targets
        /\ metadata \subseteq Targets /\ revoked \subseteq Listed
    BY DEF StoreInv, RevocationsExplained, Listed
  <2>2. /\ \A m \in Managers :
              managers[m].at \in {"idle", "write keys", "write crl", "write metadata"}
        /\ keys \in [KeyIds -> Key \cup {None}]
        /\ unexplained \subseteq Listed /\ stops \in 0..MaxStops
    BY DEF StoreInv, HeldInv, StoreTypes, Stored
  <2>3. publisher.at # "idle" => publisher.written \subseteq Sidecars
    BY DEF PackageInv, Sidecars
  <2> QED BY <2>1, <2>2, <2>3 DEF TypeOK, PackageTypes, SessionTypes
<1> QED BY <1>1, <1>2, <1>3, PTL DEF Spec
================================================================================
