--------------------------- MODULE ResolverProofs ---------------------------
(***************************************************************************)
(* The resolver and its caches, for any number of engines, requests and    *)
(* files and any number of crashes: what a request is launched with is     *)
(* what it asked for, and what it executes is whole.                       *)
(*                                                                         *)
(* Nothing on disk is locked, so the argument is about who may be at work  *)
(* on a file.  A file that is not whole has a writer at it or was cut off  *)
(* by a crash that the ghost variable records; the marker, the digest and  *)
(* the handle each come after the writing they vouch for.                  *)
(***************************************************************************)
EXTENDS Resolver, TLAPS

Places == Idle \cup {"marker", "write", "fill", "mark", "build", "transpile", "compile",
                     "copy", "hash", "sha", "launch"}
Vias == {"frame", "files", "out", "fd"}
Keys == {Key(r) : r \in Requests}
Forms == [files : [1..Files -> Contents], marker : BOOLEAN, out : Contents]

(* The specs a request may be launched with: one resolved for it or for a request of its key. *)
SpecsFor(q) ==
  {Spec(q, via) : via \in Vias}
    \cup {Patched(Spec(p[1], p[2]), q) : p \in {r \in Requests : Key(r) = Key(q)} \X Vias}

(* The specs an engine may cache under a key. *)
SpecsUnder(g, k) ==
  {Spec(p[1], p[2]) : p \in {r \in Requests : EngineOf[r] = g /\ Key(r) = k} \X (Vias \ {"frame"})}

Values ==
  /\ lang \in Langs /\ valid \in BOOLEAN
  /\ pc \in [Requests -> Places] /\ pos \in [Requests -> 1..Files]
  /\ handle \subseteq Engines
  /\ work \in Forms /\ bin \in [bin : Contents, sha : Contents]
  /\ got \in [Requests -> Contents \cup {None}]
  /\ cut \in BOOLEAN /\ mixed \in BOOLEAN /\ crashes \in 0..MaxCrashes

(* A request has a spec exactly while it launches. *)
Launching ==
  /\ spec = [r \in Requests |-> spec[r]]
  /\ \A r \in Requests : IF pc[r] = "launch" THEN spec[r] \in SpecsFor(r) ELSE spec[r] = None

(* What an engine caches was resolved there, and for that key. *)
Caching ==
  /\ cache = [g \in Engines |-> [k \in Keys |-> cache[g][k]]]
  /\ \A g \in Engines, k \in Keys : cache[g][k] = None \/ cache[g][k] \in SpecsUnder(g, k)

(* An engine resolves one request at a time. *)
OneAtATime ==
  \A r, q \in Requests : EngineOf[r] = EngineOf[q] /\ pc[r] \notin Idle /\ pc[q] \notin Idle => r = q

(* Engine g has a request, or a spec in its cache, that executes by way of via. *)
Uses(g, via) ==
  \/ \E r \in Requests : EngineOf[r] = g /\ pc[r] = "launch" /\ spec[r].via = via
  \/ \E k \in Keys : cache[g][k] # None /\ cache[g][k].via = via

(* What each language's requests go through, and what has been seen on the way. *)
Stages ==
  \A r \in Requests :
    /\ pc[r] = "transpile" => lang = "typescript"
    /\ pc[r] \in {"compile", "copy", "hash", "sha"} => lang = "native"
    /\ pc[r] \in {"copy", "hash", "sha"} => valid
    /\ pc[r] \in {"build", "transpile", "compile", "copy", "hash", "sha"} => work.marker

Ways ==
  /\ Stages
  /\ \A g \in Engines :
       /\ Uses(g, "files") => work.marker /\ lang = "python"
       /\ Uses(g, "fd") => g \in handle /\ lang = "native"
       /\ Uses(g, "out") => /\ lang = "native" => valid
                            /\ lang \in {"typescript", "native"}
                            /\ lang = "typescript" /\ valid => work.out # "none"

(* Who still writes files when the marker is there started before another set it. *)
LateWriters ==
  \A r \in Writers : work.marker =>
    \E q \in Requests : EngineOf[q] # EngineOf[r] /\ pc[q] \notin {"new", "marker"}

(* File i is whole, or will be: a request is filling it. *)
Sound(i) == work.files[i] = "whole" \/ \E q \in Requests : pc[q] = "fill" /\ pos[q] = i

FilesSound ==
  ~cut => /\ work.marker => \A i \in 1..Files : Sound(i)
          /\ \A r \in Writers, i \in 1..Files : i < pos[r] \/ pc[r] = "mark" => Sound(i)

(* main.js is built by somebody while it is cut short; main is whole, or being built, while     *)
(* somebody executes it or is about to. *)
Compiling == \E r \in Requests : pc[r] = "compile"
Transpiling == \E r \in Requests : pc[r] = "transpile"
OutNeeded == Storers # {} \/ \E g \in Engines : Uses(g, "out")

OutSound ==
  ~cut /\ valid => /\ lang = "typescript" /\ work.out = "part" => Transpiling
                   /\ lang = "native" /\ OutNeeded => work.out = "whole" \/ Compiling

(* The digest, as long as copies do not overlap. *)
DigestSound ==
  ~mixed =>
    /\ bin.sha \in {"none", "whole"}
    /\ Storers # {} => work.out = "whole"
    /\ Copying # {} => Builders = {}
    /\ \A r, q \in Copying : r = q
    /\ \A r \in Requests : pc[r] = "sha" => bin.bin = "whole"

(* main.bin under the handles the engines hold. *)
HandleSound ==
  ~mixed /\ ~cut /\ handle # {} => bin.bin = "whole" \/ \E r \in Requests : pc[r] = "hash"

ResolverInv ==
  /\ Values /\ Launching /\ Caching /\ OneAtATime /\ Ways /\ LateWriters
  /\ FilesSound /\ OutSound /\ DigestSound /\ HandleSound /\ LookupVerified

-----------------------------------------------------------------------------
(* Specs                                                                   *)

(* A spec is launched in the way it was resolved for.                      *)
LEMMA SpecVia ==
  ASSUME NEW r, NEW q, NEW via
  PROVE  Spec(r, via).via = via /\ Patched(Spec(r, via), q).via = via
BY DEF Spec, Patched

(* The two fields of a child that its key does not hold, blanked.          *)
Keyed(c) == [c EXCEPT !.env.secrets = None, !.apparmor.id = None]

(* Keyed blanks them one after the other, in any order.                    *)
LEMMA KeyedForm ==
  ASSUME NEW c, NEW x, NEW y
  PROVE  /\ Keyed(c) = [[c EXCEPT !.env = [c.env EXCEPT !.secrets = None]]
                         EXCEPT !.apparmor = [c.apparmor EXCEPT !.id = None]]
         /\ [[c EXCEPT !.env = x] EXCEPT !.apparmor = y] = [[c EXCEPT !.apparmor = y] EXCEPT !.env = x]
<1>1. Keyed(c) = [[c EXCEPT !.env = [c.env EXCEPT !.secrets = None]]
                  EXCEPT !.apparmor = [c.apparmor EXCEPT !.id = None]]
  BY DEF Keyed
<1>2. [[c EXCEPT !.env = x] EXCEPT !.apparmor = y] = [[c EXCEPT !.apparmor = y] EXCEPT !.env = x]
  OBVIOUS
<1> QED
  BY <1>1, <1>2

(* A field that is set may have been anything before.                      *)
LEMMA FieldSet ==
  ASSUME NEW a, NEW b, NEW c, NEW d, NEW e, NEW f, NEW h, NEW o, NEW x
  PROVE  /\ [[id |-> a, wall |-> b, env |-> c, limits |-> d, mounts |-> e, seccomp |-> f,
              apparmor |-> h] EXCEPT !.env = x]
            = [[id |-> a, wall |-> b, env |-> o, limits |-> d, mounts |-> e, seccomp |-> f,
                apparmor |-> h] EXCEPT !.env = x]
         /\ [[id |-> a, wall |-> b, env |-> c, limits |-> d, mounts |-> e, seccomp |-> f,
              apparmor |-> h] EXCEPT !.apparmor = x]
            = [[id |-> a, wall |-> b, env |-> c, limits |-> d, mounts |-> e, seccomp |-> f,
                apparmor |-> o] EXCEPT !.apparmor = x]
OBVIOUS

(* The key holds every field that a spec is computed from, but the id and   *)
(* the secrets: a hit launches a request as it asked, but for those two     *)
(* (resolved_cache_key, resolve_opts).                                      *)
LEMMA KeyedAlike ==
  ASSUME NEW r \in Requests, NEW q \in Requests, NEW via \in Vias, Key(r) = Key(q)
  PROVE  Keyed(Patched(Spec(r, via), q).child) = Keyed(ChildSpec(q))
<1> DEFINE s == Settings[r]
           t == Settings[q]
<1>1. \A f \in KeyFields : s[f] = t[f]
  <2>1. ASSUME NEW f \in KeyFields PROVE s[f] = t[f]
    <3>1. Key(r)[f] = s[f] /\ Key(q)[f] = t[f]
      BY DEF Key, Read
    <3> QED
      BY <3>1
  <2> QED
    BY <2>1
<1>2. LimitsOf(r) = LimitsOf(q) /\ SeccompOf(r) = SeccompOf(q)
  BY <1>1 DEF LimitsOf, SeccompOf, Read, KeyFields
<1>3. MountsOf(r) = MountsOf(q)
  <2>1. MountsOf(r) = Read(r, {"limits", "filesystem"}) /\ MountsOf(q) = Read(q, {"limits", "filesystem"})
    BY ModeAssumption DEF MountsOf
  <2> QED
    BY <1>1, <2>1 DEF Read, KeyFields
<1>4. [EnvOf(r) EXCEPT !.secrets = None] = [EnvOf(q) EXCEPT !.secrets = None]
  BY <1>1 DEF EnvOf, Read, KeyFields
<1>5. [AppArmorOf(r) EXCEPT !.id = None] = [AppArmorOf(q) EXCEPT !.id = None]
  BY <1>1 DEF AppArmorOf, Read, KeyFields
<1>6. Patched(Spec(r, via), q).child =
        [id |-> Settings[q].id, wall |-> Settings[q].wall, env |-> EnvOf(r), limits |-> LimitsOf(r),
         mounts |-> MountsOf(r), seccomp |-> SeccompOf(r), apparmor |-> AppArmorOf(r)]
  BY DEF Patched, Spec, ChildSpec
<1>7. ChildSpec(q) =
        [id |-> Settings[q].id, wall |-> Settings[q].wall, env |-> EnvOf(q), limits |-> LimitsOf(r),
         mounts |-> MountsOf(r), seccomp |-> SeccompOf(r), apparmor |-> AppArmorOf(q)]
  BY <1>2, <1>3 DEF ChildSpec
<1>a. PICK a, b, c1, c2, d, e, f, h1, h2 :
        /\ a = Settings[q].id /\ b = Settings[q].wall /\ c1 = EnvOf(r) /\ c2 = EnvOf(q)
        /\ d = LimitsOf(r) /\ e = MountsOf(r) /\ f = SeccompOf(r)
        /\ h1 = AppArmorOf(r) /\ h2 = AppArmorOf(q)
  OBVIOUS
<1>b. /\ [c1 EXCEPT !.secrets = None] = [c2 EXCEPT !.secrets = None]
      /\ [h1 EXCEPT !.id = None] = [h2 EXCEPT !.id = None]
  BY <1>4, <1>5, <1>a, Zenon
<1>c. Keyed([id |-> a, wall |-> b, env |-> c1, limits |-> d, mounts |-> e, seccomp |-> f, apparmor |-> h1])
      = Keyed([id |-> a, wall |-> b, env |-> c2, limits |-> d, mounts |-> e, seccomp |-> f, apparmor |-> h2])
  <2> DEFINE x == [c1 EXCEPT !.secrets = None]
             y == [h1 EXCEPT !.id = None]
             R(c, h) == [id |-> a, wall |-> b, env |-> c, limits |-> d, mounts |-> e, seccomp |-> f,
                         apparmor |-> h]
  <2>1. /\ R(c1, h1).env = c1 /\ R(c1, h1).apparmor = h1
        /\ R(c2, h2).env = c2 /\ R(c2, h2).apparmor = h2
    OBVIOUS
  <2>2. [R(c1, h1) EXCEPT !.env = x] = [R(c2, h1) EXCEPT !.env = x]
    BY FieldSet
  <2>3. [R(c2, h1) EXCEPT !.apparmor = y] = [R(c2, h2) EXCEPT !.apparmor = y]
    BY FieldSet
  <2>4. x = [c2 EXCEPT !.secrets = None] /\ y = [h2 EXCEPT !.id = None]
    BY <1>b
  <2>5. Keyed(R(c1, h1)) = [[R(c1, h1) EXCEPT !.env = [R(c1, h1).env EXCEPT !.secrets = None]]
                            EXCEPT !.apparmor = [R(c1, h1).apparmor EXCEPT !.id = None]]
    BY KeyedForm
  <2>6. Keyed(R(c2, h2)) = [[R(c2, h2) EXCEPT !.env = [R(c2, h2).env EXCEPT !.secrets = None]]
                            EXCEPT !.apparmor = [R(c2, h2).apparmor EXCEPT !.id = None]]
    BY KeyedForm
  <2> HIDE DEF R
  <2>7. Keyed(R(c1, h1)) = [[R(c1, h1) EXCEPT !.env = x] EXCEPT !.apparmor = y]
    BY <2>1, <2>5
  <2> HIDE DEF x, y
  <2>8. Keyed(R(c2, h2)) = [[R(c2, h2) EXCEPT !.env = x] EXCEPT !.apparmor = y]
    BY <2>1, <2>4, <2>6, Zenon
  <2>9. [[R(c2, h1) EXCEPT !.env = x] EXCEPT !.apparmor = y]
          = [[R(c2, h1) EXCEPT !.apparmor = y] EXCEPT !.env = x]
    BY KeyedForm
  <2>10. [[R(c2, h2) EXCEPT !.apparmor = y] EXCEPT !.env = x]
           = [[R(c2, h2) EXCEPT !.env = x] EXCEPT !.apparmor = y]
    BY KeyedForm
  <2>11. Keyed(R(c1, h1)) = Keyed(R(c2, h2))
    BY <2>2, <2>3, <2>7, <2>8, <2>9, <2>10
  <2> QED
    BY <2>11 DEF R
<1>8. Keyed([id |-> Settings[q].id, wall |-> Settings[q].wall, env |-> EnvOf(r), limits |-> LimitsOf(r),
             mounts |-> MountsOf(r), seccomp |-> SeccompOf(r), apparmor |-> AppArmorOf(r)])
      = Keyed([id |-> Settings[q].id, wall |-> Settings[q].wall, env |-> EnvOf(q), limits |-> LimitsOf(r),
               mounts |-> MountsOf(r), seccomp |-> SeccompOf(r), apparmor |-> AppArmorOf(q)])
  BY <1>a, <1>c, Zenon
<1> QED
  BY <1>6, <1>7, <1>8, Zenon

(* A request may be launched with the spec it resolved.                     *)
LEMMA SpecForOwn ==
  ASSUME NEW r \in Requests, NEW via \in Vias
  PROVE  Spec(r, via) \in SpecsFor(r) /\ Spec(r, via) # None
<1>1. Spec(r, via) # None
  BY NoneAssumption DEF Vias
<1> QED
  BY <1>1 DEF SpecsFor

(* A cached spec, patched, is one the request may be launched with.         *)
LEMMA SpecForHit ==
  ASSUME NEW q \in Requests, NEW s \in SpecsUnder(EngineOf[q], Key(q))
  PROVE  Patched(s, q) \in SpecsFor(q) /\ Patched(s, q).via = s.via
<1>1. PICK p \in {r \in Requests : EngineOf[r] = EngineOf[q] /\ Key(r) = Key(q)} \X (Vias \ {"frame"}) :
        s = Spec(p[1], p[2])
  BY DEF SpecsUnder
<1>2. p \in {r \in Requests : Key(r) = Key(q)} \X Vias
  OBVIOUS
<1>3. Patched(Spec(p[1], p[2]), q) \in SpecsFor(q)
  BY <1>2 DEF SpecsFor
<1> QED
  BY <1>1, <1>3, SpecVia

(* The specs of a request are specs, and as it asked but for the two fields. *)
LEMMA SpecsForForm ==
  ASSUME NEW q \in Requests, NEW s \in SpecsFor(q)
  PROVE  s # None /\ s.via \in Vias /\ Keyed(s.child) = Keyed(ChildSpec(q))
<1>1. CASE s \in {Spec(q, via) : via \in Vias}
  <2>1. PICK via \in Vias : s = Spec(q, via)
    BY <1>1
  <2>2. s.child = ChildSpec(q) /\ s.via = via
    BY <2>1 DEF Spec
  <2> QED
    BY <2>1, <2>2, SpecForOwn
<1>2. CASE s \in {Patched(Spec(p[1], p[2]), q) : p \in {r \in Requests : Key(r) = Key(q)} \X Vias}
  <2>1. PICK p \in {r \in Requests : Key(r) = Key(q)} \X Vias : s = Patched(Spec(p[1], p[2]), q)
    BY <1>2
  <2>2. s.via = p[2]
    BY <2>1, SpecVia
  <2>3. p[1] \in Requests /\ Key(p[1]) = Key(q) /\ p[2] \in Vias
    OBVIOUS
  <2>4. s # None
    BY <2>1, <2>3, NoneAssumption DEF Vias
  <2> QED
    BY <2>1, <2>2, <2>3, <2>4, KeyedAlike
<1> QED
  BY <1>1, <1>2 DEF SpecsFor

(* What an engine caches under a key can be executed without a frame.       *)
LEMMA SpecsUnderForm ==
  ASSUME NEW g \in Engines, NEW k \in Keys, NEW s \in SpecsUnder(g, k)
  PROVE  s # None /\ s.via \in Vias \ {"frame"} /\ \E r \in Requests : EngineOf[r] = g /\ Key(r) = k
<1>1. PICK p \in {r \in Requests : EngineOf[r] = g /\ Key(r) = k} \X (Vias \ {"frame"}) :
        s = Spec(p[1], p[2])
  BY DEF SpecsUnder
<1>2. p[1] \in Requests /\ EngineOf[p[1]] = g /\ Key(p[1]) = k /\ p[2] \in Vias \ {"frame"}
  OBVIOUS
<1>3. s.via = p[2] /\ s # None
  BY <1>1, <1>2, SpecVia, SpecForOwn, ZenonT(30)
<1> QED
  BY <1>2, <1>3

(* A spec that is inserted under a request's key.                           *)
LEMMA SpecUnderOwn ==
  ASSUME NEW r \in Requests, NEW via \in Vias \ {"frame"}
 
 PROVE   Spec(r, via) \in SpecsUnder(EngineOf[r], Key(r)) /\ Key(r) \in Keys /\ EngineOf[r] \in Engines
<1>1. <<r, via>> \in {p \in Requests : EngineOf[p] = EngineOf[r] /\ Key(p) = Key(r)} \X (Vias \ {"frame"})
  OBVIOUS
<1> QED
  BY <1>1, EngineAssumption DEF SpecsUnder, Keys

-----------------------------------------------------------------------------
(* What the steps do to specs and caches                                   *)

(* No engine comes to execute in a way it did not before, but g by way of via. *)
NoNewUse == \A g \in Engines, via \in Vias : Uses(g, via)' => Uses(g, via)
NewUse(h, v) == \A g \in Engines, via \in Vias : Uses(g, via)' => Uses(g, via) \/ (g = h /\ via = v)

(* A resolved spec is launched, and cached if the program was written out.  *)
LEMMA ResolvedEffect ==
  ASSUME Values, Launching, Caching, NEW r \in Requests, NEW via \in Vias, NEW m \in BOOLEAN,
         m => via # "frame", Resolved(r, via, m)
  PROVE  Launching' /\ Caching' /\ NewUse(EngineOf[r], via)
<1> USE DEF Values
<1>1. /\ pc' = [pc EXCEPT ![r] = "launch"] /\ spec' = [spec EXCEPT ![r] = Spec(r, via)]
      /\ Spec(r, via) \in SpecsFor(r) /\ Spec(r, via) # None /\ Spec(r, via).via = via
      /\ EngineOf[r] \in Engines /\ Key(r) \in Keys
  BY SpecForOwn, SpecVia, EngineAssumption DEF Resolved, Goto, Keys
<1>2. cache' = IF m THEN [cache EXCEPT ![EngineOf[r]][Key(r)] = Spec(r, via)] ELSE cache
  BY DEF Resolved, Cacheable
<1>3. \A q \in Requests : spec'[q] = IF q = r THEN Spec(r, via) ELSE spec[q]
  BY <1>1 DEF Launching
<1>4. Launching'
  BY <1>1, <1>3 DEF Launching
<1>5. ASSUME m PROVE Spec(r, via) \in SpecsUnder(EngineOf[r], Key(r))
  BY <1>5, SpecUnderOwn
<1>6. PICK h \in Engines, c \in Keys : h = EngineOf[r] /\ c = Key(r)
  BY <1>1
<1>7. \A g \in Engines, k \in Keys :
        cache'[g][k] = IF m /\ g = h /\ k = c THEN Spec(r, via) ELSE cache[g][k]
  BY <1>2, <1>6 DEF Caching
<1>8. cache' = [g \in Engines |-> [k \in Keys |-> cache'[g][k]]]
  BY <1>2, <1>6 DEF Caching
<1>9. Caching'
  BY <1>5, <1>6, <1>7, <1>8 DEF Caching
<1>10. NewUse(EngineOf[r], via)
  <2> SUFFICES ASSUME NEW g \in Engines, NEW v \in Vias, Uses(g, v)'
               PROVE  Uses(g, v) \/ (g = EngineOf[r] /\ v = via)
    BY DEF NewUse
  <2>1. CASE \E q \in Requests : EngineOf[q] = g /\ pc'[q] = "launch" /\ spec'[q].via = v
    BY <1>1, <1>3, <2>1 DEF Uses
  <2>2. CASE \E k \in Keys : cache'[g][k] # None /\ cache'[g][k].via = v
    BY <1>1, <1>6, <1>7, <2>2 DEF Uses
  <2> QED
    BY <2>1, <2>2 DEF Uses
<1> QED
  BY <1>4, <1>9, <1>10

(* A request that goes on without a spec.                                   *)
LEMMA MoveEffect ==
  ASSUME Values, Launching, Caching, NEW r \in Requests, NEW x, x # "launch", pc[r] # "launch",
         pc' = [pc EXCEPT ![r] = x], UNCHANGED <<spec, cache>>
  PROVE  Launching' /\ Caching' /\ NoNewUse
BY DEF Values, Launching, Caching, NoNewUse, Uses

(* A hit in the spec cache executes the way the cached spec does.           *)
LEMMA HitEffect ==
  ASSUME Values, Launching, Caching, NEW r \in Requests, Cached(r) # None, cache' = cache,
         pc' = [pc EXCEPT ![r] = "launch"], spec' = [spec EXCEPT ![r] = Patched(Cached(r), r)]
  PROVE  Launching' /\ Caching' /\ NoNewUse
<1>1. PICK h \in Engines, c \in Keys : h = EngineOf[r] /\ c = Key(r)
  BY EngineAssumption DEF Keys
<1>2. PICK s : s = cache[h][c]
  OBVIOUS
<1>3. s = Cached(r) /\ s \in SpecsUnder(EngineOf[r], Key(r))
  BY <1>1, <1>2 DEF Cached, Caching
<1>4. Patched(s, r) \in SpecsFor(r) /\ Patched(s, r).via = s.via
  BY <1>3, SpecForHit
<1>5. \A q \in Requests : spec'[q] = IF q = r THEN Patched(s, r) ELSE spec[q]
  BY <1>3 DEF Launching
<1>6. Launching' /\ Caching'
  BY <1>4, <1>5 DEF Values, Launching, Caching
<1>7. NoNewUse
  <2> SUFFICES ASSUME NEW g \in Engines, NEW v \in Vias, Uses(g, v)' PROVE Uses(g, v)
    BY DEF NoNewUse
  <2>1. CASE \E q \in Requests : EngineOf[q] = g /\ pc'[q] = "launch" /\ spec'[q].via = v
    <3>1. PICK q \in Requests : EngineOf[q] = g /\ pc'[q] = "launch" /\ spec'[q].via = v
      BY <2>1
    <3>2. CASE q = r
      <4>1. cache[g][c] # None /\ cache[g][c].via = v
        BY <1>1, <1>2, <1>3, <1>4, <1>5, <3>1, <3>2
      <4> QED
        BY <4>1 DEF Uses
    <3>3. CASE q # r
      BY <1>5, <3>1, <3>3 DEF Uses, Values
    <3> QED
      BY <3>2, <3>3
  <2>2. CASE \E k \in Keys : cache'[g][k] # None /\ cache'[g][k].via = v
    BY <2>2 DEF Uses
  <2> QED
    BY <2>1, <2>2 DEF Uses
<1> QED
  BY <1>6, <1>7

(* The child has started; its spec is dropped.                              *)
LEMMA LaunchEffect ==
  ASSUME Values, Launching, Caching, NEW r \in Requests, Launch(r)
  PROVE  Launching' /\ Caching' /\ NoNewUse
BY DEF Values, Launching, Caching, NoNewUse, Uses, Launch, Goto

(* A crash empties an engine's caches and ends its requests.                *)
LEMMA CrashEffect ==
  ASSUME Values, Launching, Caching, NEW g \in Engines, Crash(g)
  PROVE  Launching' /\ Caching' /\ NoNewUse /\ \A via \in Vias : ~Uses(g, via)'
<1> DEFINE mine == {r \in Requests : EngineOf[r] = g /\ pc[r] \notin Idle}
<1>1. /\ pc' = [r \in Requests |-> IF r \in mine THEN "failed" ELSE pc[r]]
      /\ spec' = [r \in Requests |-> IF r \in mine THEN None ELSE spec[r]]
      /\ cache' = [cache EXCEPT ![g] = NoSpecs]
  BY DEF Crash
<1>2. \A h \in Engines, k \in Keys : cache'[h][k] = IF h = g THEN None ELSE cache[h][k]
  BY <1>1 DEF Caching, NoSpecs, Keys
<1>3. cache' = [h \in Engines |-> [k \in Keys |-> cache'[h][k]]]
  BY <1>1 DEF Caching, NoSpecs, Keys
<1>4. Caching'
  BY <1>2, <1>3 DEF Caching
<1>5. Launching'
  BY <1>1 DEF Launching, Values
<1>6. \A q \in Requests : pc'[q] = "launch" => pc[q] = "launch" /\ EngineOf[q] # g /\ spec'[q] = spec[q]
  BY <1>1 DEF Idle, Values
<1>7. NoNewUse
  BY <1>2, <1>6 DEF NoNewUse, Uses
<1>8. \A via \in Vias : ~Uses(g, via)'
  BY <1>2, <1>6 DEF Uses
<1> QED
  BY <1>4, <1>5, <1>7, <1>8

(* What the steps do to the files                                          *)

(* A file is truncated, or filled.                                          *)
LEMMA WriteFileEffect ==
  ASSUME Values, NEW r \in Requests, WriteFile(r)
  PROVE  /\ work' \in Forms /\ work'.marker = work.marker /\ work'.out = work.out
         /\ pos[r] \in 1..Files /\ pos' \in [Requests -> 1..Files]
         /\ \A q \in Requests \ {r} : pc'[q] = pc[q] /\ pos'[q] = pos[q]
         /\ \/ /\ pc[r] = "write" /\ pc' = [pc EXCEPT ![r] = "fill"] /\ pos' = pos
               /\ work'.files = [work.files EXCEPT ![pos[r]] = "part"]
            \/ /\ pc[r] = "fill" /\ pos[r] = Files /\ pc' = [pc EXCEPT ![r] = "mark"]
               /\ pos' = [pos EXCEPT ![r] = 1]
               /\ work'.files = [work.files EXCEPT ![pos[r]] = "whole"]
            \/ /\ pc[r] = "fill" /\ pos[r] # Files /\ pc' = [pc EXCEPT ![r] = "write"]
               /\ pos' = [pos EXCEPT ![r] = pos[r] + 1] /\ pos[r] + 1 \in 1..Files
               /\ work'.files = [work.files EXCEPT ![pos[r]] = "whole"]
<1>1. pos[r] \in 1..Files /\ work \in Forms /\ (pos[r] # Files => pos[r] + 1 \in 1..Files)
  BY EngineAssumption DEF Values
<1>2. ASSUME NEW c \in Contents, work' = [work EXCEPT !.files[pos[r]] = c]
      PROVE  /\ work' \in Forms /\ work'.marker = work.marker /\ work'.out = work.out
             /\ work'.files = [work.files EXCEPT ![pos[r]] = c]
  BY <1>1, <1>2 DEF Forms
<1>3. CASE /\ pc[r] = "write" /\ Goto(r, "fill")
           /\ work' = [work EXCEPT !.files[pos[r]] = "part"] /\ UNCHANGED pos
  BY <1>1, <1>2, <1>3 DEF Goto, Contents, Values
<1>4. CASE /\ pc[r] = "fill" /\ Goto(r, IF pos[r] = Files THEN "mark" ELSE "write")
           /\ work' = [work EXCEPT !.files[pos[r]] = "whole"]
           /\ pos' = [pos EXCEPT ![r] = IF @ = Files THEN 1 ELSE @ + 1]
  <2>1. /\ work' \in Forms /\ work'.marker = work.marker /\ work'.out = work.out
        /\ work'.files = [work.files EXCEPT ![pos[r]] = "whole"]
    BY <1>2, <1>4 DEF Contents
  <2>2. CASE pos[r] = Files
    <3>1. pc' = [pc EXCEPT ![r] = "mark"] /\ pos' = [pos EXCEPT ![r] = 1]
      BY <1>4, <2>2 DEF Goto, Values
    <3>2. pos' \in [Requests -> 1..Files]
      BY <1>1, <2>2, <3>1, EngineAssumption DEF Values
    <3>3. \A q \in Requests \ {r} : pc'[q] = pc[q] /\ pos'[q] = pos[q]
      BY <3>1 DEF Values
    <3> QED
      BY <1>1, <1>4, <2>1, <2>2, <3>1, <3>2, <3>3
  <2>3. CASE pos[r] # Files
    <3>1. pc' = [pc EXCEPT ![r] = "write"] /\ pos' = [pos EXCEPT ![r] = pos[r] + 1]
      BY <1>4, <2>3 DEF Goto, Values
    <3>2. pos' \in [Requests -> 1..Files]
      BY <1>1, <2>3, <3>1 DEF Values
    <3>3. \A q \in Requests \ {r} : pc'[q] = pc[q] /\ pos'[q] = pos[q]
      BY <3>1 DEF Values
    <3> QED
      BY <1>1, <1>4, <2>1, <2>3, <3>1, <3>2, <3>3
  <2> QED
    BY <2>2, <2>3
<1> QED
  BY <1>3, <1>4 DEF WriteFile

(* A change of the output alone.                                            *)
LEMMA OutEffect ==
  ASSUME work \in Forms, NEW c \in Contents, work' = [work EXCEPT !.out = c]
  PROVE  work' \in Forms /\ work'.marker = work.marker /\ work'.files = work.files /\ work'.out = c
BY DEF Forms

(* What an engine that dies leaves behind: its requests end, its handle and its caches go, and   *)
(* what it was building may be cut short.                                   *)
LEMMA CrashLeaves ==
  ASSUME Values, NEW g \in Engines, Crash(g)
  PROVE  /\ pc' \in [Requests -> Places] /\ got' \in [Requests -> Contents \cup {None}]
         /\ \A r \in Requests : /\ EngineOf[r] = g /\ pc[r] \notin Idle => pc'[r] = "failed" /\ got'[r] = None
                                /\ EngineOf[r] # g \/ pc[r] \in Idle => pc'[r] = pc[r] /\ got'[r] = got[r]
         /\ handle' = handle \ {g} /\ lang' = lang /\ valid' = valid /\ pos' = pos /\ bin' = bin
         /\ crashes' \in 0..MaxCrashes
         /\ work' \in Forms /\ work'.marker = work.marker /\ work'.files = work.files
         /\ work'.out = work.out \/ (work'.out = "part" /\ \E r \in Builders : EngineOf[r] = g)
<1> DEFINE mine == {r \in Requests : EngineOf[r] = g /\ pc[r] \notin Idle}
<1>1. /\ crashes < MaxCrashes /\ crashes' = crashes + 1
      /\ pc' = [r \in Requests |-> IF r \in mine THEN "failed" ELSE pc[r]]
      /\ got' = [r \in Requests |-> IF r \in mine THEN None ELSE got[r]]
      /\ handle' = handle \ {g} /\ UNCHANGED <<lang, valid, pos, bin>>
  BY DEF Crash
<1>2. PICK out \in {work.out} \cup {"part" : r \in mine \cap Builders} : work' = [work EXCEPT !.out = out]
  BY DEF Crash
<1>3. out = work.out \/ (out = "part" /\ \E r \in Builders : EngineOf[r] = g)
  BY <1>2
<1>4. out \in Contents /\ work \in Forms
  BY <1>3 DEF Values, Forms, Contents
<1>5. work' \in Forms /\ work'.marker = work.marker /\ work'.files = work.files /\ work'.out = out
  BY <1>2, <1>4, OutEffect
<1>6. crashes' \in 0..MaxCrashes
  BY <1>1, EngineAssumption DEF Values
<1>7. pc' \in [Requests -> Places] /\ got' \in [Requests -> Contents \cup {None}]
  BY <1>1 DEF Values, Places, Idle
<1> QED
  BY <1>1, <1>3, <1>5, <1>6, <1>7

(* What a crash that cuts nothing off for good tells.                       *)
LEMMA CrashHeals ==
  ASSUME Values, NEW g \in Engines, Crash(g)
  PROVE  /\ cut' \in BOOLEAN /\ mixed' \in BOOLEAN
         /\ ~cut' =>
              /\ ~cut
              /\ \A r \in Writers, q \in Requests :
                   EngineOf[r] = g /\ EngineOf[q] # g => pc[q] \in {"new", "marker"}
              /\ \A r \in Builders : EngineOf[r] = g => lang # "typescript"
              /\ \A r \in Builders, q \in Requests :
                   EngineOf[r] = g /\ EngineOf[q] # g => pc[q] \notin Built /\ cache[EngineOf[q]] = NoSpecs
              /\ \A r \in Storers : EngineOf[r] = g => handle \ {g} = {}
         /\ ~mixed' => ~mixed /\ \A r \in Builders, q \in Storers : EngineOf[r] = g => EngineOf[q] = g
<1> DEFINE mine == {r \in Requests : EngineOf[r] = g /\ pc[r] \notin Idle}
           others == Requests \ mine
           writes == mine \cap Writers # {} /\ \E q \in others : pc[q] \notin {"new", "marker"}
           builds == mine \cap Builders # {} /\ (lang = "typescript" \/ \E q \in others : pc[q] \in Built \/ cache[EngineOf[q]] # NoSpecs)
           stores == mine \cap Storers # {} /\ handle \ {g} # {}
           mixes == mine \cap Builders # {} /\ others \cap Storers # {}
<1>1. cut' = (cut \/ writes \/ builds \/ stores) /\ mixed' = (mixed \/ mixes)
  BY DEF Crash
<1>2. \A r \in Writers \cup Builders \cup Storers : r \in Requests /\ (EngineOf[r] = g => r \in mine)
  BY DEF Writers, Builders, Storers, Idle
<1>3. \A q \in Requests : EngineOf[q] # g => q \in others
  OBVIOUS
<1>4. ASSUME ~writes, NEW r \in Writers, NEW q \in Requests, EngineOf[r] = g, EngineOf[q] # g
      PROVE  pc[q] \in {"new", "marker"}
  BY <1>2, <1>3, <1>4
<1>5. ASSUME ~builds, NEW r \in Builders, EngineOf[r] = g
      PROVE  /\ lang # "typescript"
             /\ \A q \in Requests : EngineOf[q] # g => pc[q] \notin Built /\ cache[EngineOf[q]] = NoSpecs
  BY <1>2, <1>3, <1>5
<1>6. ASSUME ~stores, NEW r \in Storers, EngineOf[r] = g PROVE handle \ {g} = {}
  BY <1>2, <1>6
<1>7. ASSUME ~mixes, NEW r \in Builders, NEW q \in Storers, EngineOf[r] = g PROVE EngineOf[q] = g
  BY <1>2, <1>3, <1>7
<1> HIDE DEF writes, builds, stores, mixes
<1> QED
  BY <1>1, <1>4, <1>5, <1>6, <1>7 DEF Values

(* Values are kept.                                                        *)
LEMMA ValuesKept ==
  ASSUME Values, [ResolverNext]_resolverVars PROVE Values'
<1> USE DEF Values, Places, Idle, Forms, Contents, Goto, Resolved, ghosts
<1>1. ASSUME NEW r \in Requests, Lookup(r) PROVE Values'
  BY <1>1, EngineAssumption, ZenonT(30) DEF Lookup, Overlap
<1>2. ASSUME NEW r \in Requests, CheckMarker(r) PROVE Values'
  BY <1>2, EngineAssumption DEF CheckMarker, Overlap
<1>3. ASSUME NEW r \in Requests, WriteFile(r) PROVE Values'
  <2> HIDE DEF Forms
  <2>1. UNCHANGED <<lang, valid, handle, bin, got, cut, mixed, crashes>>
    BY <1>3 DEF WriteFile
  <2>2. work' \in Forms
    BY <1>3, WriteFileEffect
  <2>3. pc' \in [Requests -> Places]
    BY <1>3, WriteFileEffect, ZenonT(30)
  <2>4. pos' \in [Requests -> 1..Files]
    BY <1>3, WriteFileEffect
  <2> HIDE DEF Places
  <2> QED
    BY <2>1, <2>2, <2>3, <2>4
<1>4. ASSUME NEW r \in Requests, WriteMarker(r) PROVE Values'
  BY <1>4, EngineAssumption DEF WriteMarker, Overlap
<1>5. ASSUME NEW r \in Requests, Interpret(r) PROVE Values'
  BY <1>5, EngineAssumption DEF Interpret, Overlap
<1>6. ASSUME NEW r \in Requests, Transpile(r) PROVE Values'
  BY <1>6, EngineAssumption, ZenonT(30) DEF Transpile, Overlap
<1>7. ASSUME NEW r \in Requests, LookupBinary(r) PROVE Values'
  <2>1. /\ pc' = [pc EXCEPT ![r] = "launch"] \/ pc' = [pc EXCEPT ![r] = "compile"]
        /\ handle' = handle \/ handle' = handle \cup {EngineOf[r]}
        /\ work' = work \/ work' = [work EXCEPT !.out = "part"]
    BY <1>7 DEF LookupBinary
  <2>6. EngineOf[r] \in Engines
    BY <1>7, EngineAssumption
  <2>7. pc' \in [Requests -> Places]
    BY <1>7, <2>1
  <2>8. work' \in Forms
    BY <2>1
  <2>5. pc' \in [Requests -> Places] /\ handle' \subseteq Engines /\ work' \in Forms
    BY <2>1, <2>6, <2>7, <2>8
  <2>2. got' \in [Requests -> Contents \cup {None}]
    <3>1. got' = got \/ \E c \in Contents \cup {None} : got' = [got EXCEPT ![r] = c]
      BY <1>7 DEF LookupBinary
    <3> QED
      BY <3>1
  <2>3. mixed' \in BOOLEAN
    BY <1>7 DEF LookupBinary, Overlap
  <2> HIDE DEF Places, Forms
  <2>4. UNCHANGED <<lang, valid, pos, bin, cut, crashes>>
    BY <1>7 DEF LookupBinary
  <2> QED
    BY <2>5, <2>2, <2>3, <2>4
<1>8. ASSUME NEW r \in Requests, Compile(r) PROVE Values'
  BY <1>8, EngineAssumption, ZenonT(30) DEF Compile, Overlap
<1>9. ASSUME NEW r \in Requests, Store(r) PROVE Values'
  <2>5. /\ \E x \in {"hash", "sha", "launch"} : pc' = [pc EXCEPT ![r] = x]
        /\ handle' = handle \/ handle' = handle \cup {EngineOf[r]}
    BY <1>9 DEF Store
  <2>6. EngineOf[r] \in Engines
    BY <1>9, EngineAssumption
  <2>7. pc' \in [Requests -> Places]
    BY <1>9, <2>5
  <2>1. pc' \in [Requests -> Places] /\ handle' \subseteq Engines
    BY <2>5, <2>6, <2>7
  <2>2. bin' \in [bin : Contents, sha : Contents]
    <3>1. bin' = bin \/ \E c \in Contents : bin' = [bin EXCEPT !.bin = c] \/ bin' = [bin EXCEPT !.sha = c]
      BY <1>9 DEF Store
    <3> QED
      BY <3>1
  <2>3. mixed' \in BOOLEAN
    BY <1>9 DEF Store, Overlap
  <2> HIDE DEF Places, Forms
  <2>4. UNCHANGED <<lang, valid, pos, work, got, cut, crashes>>
    BY <1>9 DEF Store
  <2> QED
    BY <2>1, <2>2, <2>3, <2>4
<1>10. ASSUME NEW r \in Requests, Launch(r) PROVE Values'
  BY <1>10, EngineAssumption DEF Launch, Overlap
<1>11. ASSUME NEW g \in Engines, Crash(g) PROVE Values'
  <2> HIDE DEF Forms, Places, Contents
  <2>1. handle' \subseteq Engines
    BY <1>11, CrashLeaves
  <2> QED
    BY <1>11, <2>1, CrashLeaves, CrashHeals
<1>12. CASE UNCHANGED resolverVars
  BY <1>12 DEF resolverVars
<1> HIDE DEF Values, Places, Idle, Forms, Contents, Goto, Resolved, ghosts
<1> QED
  BY <1>1, <1>2, <1>3, <1>4, <1>5, <1>6, <1>7, <1>8, <1>9, <1>10, <1>11, <1>12
  DEF ResolverNext

(* The steps after which an engine executes in a way it may not have before. *)
Turns(r, via) ==
  \/ via = "files" /\ Interpret(r)
  \/ via = "out" /\ (Transpile(r) \/ Store(r)) /\ pc'[r] = "launch"
  \/ via = "fd" /\ LookupBinary(r) /\ pc'[r] = "launch"
Effect ==
  /\ Launching' /\ Caching'
  /\ \A g \in Engines, via \in Vias \ {"frame"} :
       Uses(g, via)' => Uses(g, via) \/ \E r \in Requests : EngineOf[r] = g /\ Turns(r, via)

LEMMA KeepsUses == Launching' /\ Caching' /\ NoNewUse => Effect
BY DEF Effect, NoNewUse

(* Specs stay those of their request and key, and new ways of executing come from these steps. *)
LEMMA StepEffect ==
  ASSUME Values, Launching, Caching, [ResolverNext]_resolverVars PROVE Effect
<1>1. ASSUME NEW r \in Requests, Lookup(r) PROVE Effect
  <2>1. CASE Cached(r) # None /\ spec' = [spec EXCEPT ![r] = Patched(Cached(r), r)]
             /\ Goto(r, "launch") /\ UNCHANGED cache
    BY <1>1, <2>1, HitEffect, KeepsUses DEF Goto
  <2>2. CASE Resolved(r, "frame", FALSE)
    <3>1. Launching' /\ Caching' /\ NewUse(EngineOf[r], "frame")
      BY <1>1, <2>2, ResolvedEffect DEF Vias
    <3> QED
      BY <3>1 DEF Effect, NewUse
  <2>3. CASE Goto(r, "marker") /\ UNCHANGED <<spec, cache>>
    BY <1>1, <2>3, MoveEffect, KeepsUses DEF Goto, Lookup
  <2> QED
    BY <1>1, <2>1, <2>2, <2>3 DEF Lookup
<1>2. ASSUME NEW r \in Requests, CheckMarker(r) PROVE Effect
  <2>1. PICK x \in {"build", "write"} : pc' = [pc EXCEPT ![r] = x]
    BY <1>2 DEF CheckMarker, Goto
  <2> QED
    BY <1>2, <2>1, MoveEffect, KeepsUses DEF CheckMarker
<1>3. ASSUME NEW r \in Requests, WriteFile(r) PROVE Effect
  <2>1. PICK x \in {"fill", "mark", "write"} : pc' = [pc EXCEPT ![r] = x] /\ pc[r] # "launch"
    BY <1>3, WriteFileEffect
  <2>2. UNCHANGED <<spec, cache>>
    BY <1>3 DEF WriteFile
  <2> QED
    BY <1>3, <2>1, <2>2, MoveEffect, KeepsUses
<1>4. ASSUME NEW r \in Requests, WriteMarker(r) PROVE Effect
  BY <1>4, MoveEffect, KeepsUses DEF WriteMarker, Goto
<1>5. ASSUME NEW r \in Requests, Interpret(r) PROVE Effect
  <2>1. Launching' /\ Caching' /\ NewUse(EngineOf[r], "files")
    BY <1>5, ResolvedEffect DEF Vias, Interpret
  <2> QED
    BY <1>5, <2>1 DEF Effect, NewUse, Turns
<1>6. ASSUME NEW r \in Requests, Transpile(r) PROVE Effect
  <2>1. CASE Resolved(r, "out", TRUE)
    <3>1. Launching' /\ Caching' /\ NewUse(EngineOf[r], "out")
      BY <1>6, <2>1, ResolvedEffect DEF Vias
    <3>2. pc'[r] = "launch"
      BY <1>6, <2>1 DEF Resolved, Goto, Values
    <3> QED
      BY <1>6, <3>1, <3>2 DEF Effect, NewUse, Turns
  <2>2. CASE ~Resolved(r, "out", TRUE)
    <3>1. PICK x \in {"transpile", "failed"} : pc' = [pc EXCEPT ![r] = x]
      BY <1>6, <2>2 DEF Transpile, Goto
    <3>2. pc[r] # "launch" /\ UNCHANGED <<spec, cache>>
      BY <1>6, <2>2 DEF Transpile
    <3> QED
      BY <1>6, <3>1, <3>2, MoveEffect, KeepsUses
  <2> QED
    BY <2>1, <2>2
<1>7. ASSUME NEW r \in Requests, LookupBinary(r) PROVE Effect
  <2>1. CASE EngineOf[r] \in handle \/ Verified(bin)
    <3>0. Resolved(r, "fd", TRUE)
      BY <1>7, <2>1 DEF LookupBinary
    <3>1. Launching' /\ Caching' /\ NewUse(EngineOf[r], "fd")
      BY <1>7, <3>0, ResolvedEffect DEF Vias
    <3>2. pc'[r] = "launch"
      BY <1>7, <3>0 DEF Resolved, Goto, Values
    <3> QED
      BY <1>7, <3>1, <3>2 DEF Effect, NewUse, Turns
  <2>2. CASE ~(EngineOf[r] \in handle \/ Verified(bin))
    <3>1. pc' = [pc EXCEPT ![r] = "compile"] /\ pc[r] # "launch" /\ UNCHANGED <<spec, cache>>
      BY <1>7, <2>2 DEF LookupBinary, Goto
    <3> QED
      BY <1>7, <3>1, MoveEffect, KeepsUses
  <2> QED
    BY <2>1, <2>2
<1>8. ASSUME NEW r \in Requests, Compile(r) PROVE Effect
  <2>1. PICK x \in {"copy", "failed"} : pc' = [pc EXCEPT ![r] = x]
    BY <1>8 DEF Compile, Goto
  <2> QED
    BY <1>8, <2>1, MoveEffect, KeepsUses DEF Compile
<1>9. ASSUME NEW r \in Requests, Store(r) PROVE Effect
  <2>1. CASE Resolved(r, "out", TRUE)
    <3>1. Launching' /\ Caching' /\ NewUse(EngineOf[r], "out")
      BY <1>9, <2>1, ResolvedEffect DEF Vias
    <3>2. pc'[r] = "launch"
      BY <1>9, <2>1 DEF Resolved, Goto, Values
    <3> QED
      BY <1>9, <3>1, <3>2 DEF Effect, NewUse, Turns
  <2>2. CASE ~Resolved(r, "out", TRUE)
    <3>1. PICK x \in {"hash", "sha"} : pc' = [pc EXCEPT ![r] = x]
      BY <1>9, <2>2 DEF Store, Goto
    <3>2. pc[r] # "launch" /\ UNCHANGED <<spec, cache>>
      BY <1>9, <2>2 DEF Store
    <3> QED
      BY <1>9, <3>1, <3>2, MoveEffect, KeepsUses
  <2> QED
    BY <2>1, <2>2
<1>10. ASSUME NEW r \in Requests, Launch(r) PROVE Effect
  BY <1>10, LaunchEffect, KeepsUses
<1>11. ASSUME NEW g \in Engines, Crash(g) PROVE Effect
  BY <1>11, CrashEffect, KeepsUses
<1>12. CASE UNCHANGED resolverVars
  BY <1>12 DEF resolverVars, Effect, Launching, Caching, Uses
<1> QED
  BY <1>1, <1>2, <1>3, <1>4, <1>5, <1>6, <1>7, <1>8, <1>9, <1>10, <1>11, <1>12
  DEF ResolverNext

(* An engine that resolves takes no other request.                         *)
LEMMA OneAtATimeKept ==
  ASSUME Values, OneAtATime, [ResolverNext]_resolverVars PROVE OneAtATime'
<1> USE DEF OneAtATime, Values
<1>1. ASSUME NEW r \in Requests, Lookup(r) PROVE OneAtATime'
  BY <1>1, ZenonT(30) DEF Lookup, Goto, Resolved, Idle
<1>2. ASSUME NEW r \in Requests, CheckMarker(r) PROVE OneAtATime'
  BY <1>2 DEF CheckMarker, Goto, Resolved, Idle
<1>3. ASSUME NEW r \in Requests, WriteFile(r) PROVE OneAtATime'
  <2>1. PICK x \in {"fill", "mark", "write"} : pc' = [pc EXCEPT ![r] = x] /\ pc[r] \in {"write", "fill"}
    BY <1>3, WriteFileEffect
  <2> QED
    BY <1>3, <2>1 DEF Idle
<1>4. ASSUME NEW r \in Requests, WriteMarker(r) PROVE OneAtATime'
  BY <1>4 DEF WriteMarker, Goto, Resolved, Idle
<1>5. ASSUME NEW r \in Requests, Interpret(r) PROVE OneAtATime'
  BY <1>5 DEF Interpret, Goto, Resolved, Idle
<1>6. ASSUME NEW r \in Requests, Transpile(r) PROVE OneAtATime'
  BY <1>6 DEF Transpile, Goto, Resolved, Idle
<1>7. ASSUME NEW r \in Requests, LookupBinary(r) PROVE OneAtATime'
  BY <1>7 DEF LookupBinary, Goto, Resolved, Idle
<1>8. ASSUME NEW r \in Requests, Compile(r) PROVE OneAtATime'
  BY <1>8 DEF Compile, Goto, Resolved, Idle
<1>9. ASSUME NEW r \in Requests, Store(r) PROVE OneAtATime'
  BY <1>9 DEF Store, Goto, Resolved, Idle
<1>10. ASSUME NEW r \in Requests, Launch(r) PROVE OneAtATime'
  BY <1>10 DEF Launch, Goto, Resolved, Idle
<1>11. ASSUME NEW g \in Engines, Crash(g) PROVE OneAtATime'
  BY <1>11, CrashLeaves DEF Idle
<1>12. CASE UNCHANGED resolverVars
  BY <1>12 DEF resolverVars
<1> HIDE DEF OneAtATime, Values
<1> QED
  BY <1>1, <1>2, <1>3, <1>4, <1>5, <1>6, <1>7, <1>8, <1>9, <1>10, <1>11, <1>12
  DEF ResolverNext

(* What has been seen on the way                                           *)

(* A request compiles for the native language only, under the marker.      *)
LEMMA StagesKept ==
  ASSUME Values, Stages, [ResolverNext]_resolverVars PROVE Stages'
<1> USE DEF Stages, Values
<1>1. ASSUME NEW r \in Requests, Lookup(r) PROVE Stages'
  BY <1>1 DEF Lookup, Goto, Resolved, Forms
<1>2. ASSUME NEW r \in Requests, CheckMarker(r) PROVE Stages'
  BY <1>2 DEF CheckMarker, Goto, Resolved, Forms
<1>3. ASSUME NEW r \in Requests, WriteFile(r) PROVE Stages'
  <2>1. PICK x \in {"fill", "mark", "write"} : pc' = [pc EXCEPT ![r] = x] /\ work'.marker = work.marker
    BY <1>3, WriteFileEffect
  <2>2. UNCHANGED <<lang, valid>>
    BY <1>3 DEF WriteFile
  <2> QED
    BY <1>3, <2>1, <2>2
<1>4. ASSUME NEW r \in Requests, WriteMarker(r) PROVE Stages'
  BY <1>4 DEF WriteMarker, Goto, Resolved, Forms
<1>5. ASSUME NEW r \in Requests, Interpret(r) PROVE Stages'
  BY <1>5 DEF Interpret, Goto, Resolved, Forms
<1>6. ASSUME NEW r \in Requests, Transpile(r) PROVE Stages'
  <2>1. PICK x \in {"launch", "transpile", "failed"} : pc' = [pc EXCEPT ![r] = x]
    BY <1>6 DEF Transpile, Goto, Resolved
  <2>2. /\ lang = "typescript" /\ pc[r] \in {"build", "transpile"}
        /\ UNCHANGED <<lang, valid>> /\ work'.marker = work.marker
    BY <1>6 DEF Transpile, Forms
  <2> QED
    BY <1>6, <2>1, <2>2
<1>7. ASSUME NEW r \in Requests, LookupBinary(r) PROVE Stages'
  BY <1>7 DEF LookupBinary, Goto, Resolved, Forms
<1>8. ASSUME NEW r \in Requests, Compile(r) PROVE Stages'
  BY <1>8, ZenonT(30) DEF Compile, Goto, Resolved, Forms
<1>9. ASSUME NEW r \in Requests, Store(r) PROVE Stages'
  BY <1>9 DEF Store, Goto, Resolved, Forms
<1>10. ASSUME NEW r \in Requests, Launch(r) PROVE Stages'
  BY <1>10 DEF Launch, Goto, Resolved, Forms
<1>11. ASSUME NEW g \in Engines, Crash(g) PROVE Stages'
  BY <1>11, CrashLeaves
<1>12. CASE UNCHANGED resolverVars
  BY <1>12 DEF resolverVars
<1> HIDE DEF Stages, Values
<1> QED
  BY <1>1, <1>2, <1>3, <1>4, <1>5, <1>6, <1>7, <1>8, <1>9, <1>10, <1>11, <1>12
  DEF ResolverNext

Standing == lang' = lang /\ valid' = valid /\ (work.marker => work'.marker)

(* The language stays, and so does the marker.                             *)
LEMMA MarkerStays ==
  ASSUME Values, [ResolverNext]_resolverVars PROVE Standing
<1> USE DEF Values, Standing
<1>1. ASSUME NEW r \in Requests, Lookup(r) PROVE Standing
  BY <1>1 DEF Lookup
<1>2. ASSUME NEW r \in Requests, CheckMarker(r) PROVE Standing
  BY <1>2 DEF CheckMarker, Goto, Resolved, Forms
<1>3. ASSUME NEW r \in Requests, WriteFile(r) PROVE Standing
  BY <1>3, WriteFileEffect DEF WriteFile
<1>4. ASSUME NEW r \in Requests, WriteMarker(r) PROVE Standing
  BY <1>4 DEF WriteMarker, Goto, Resolved, Forms
<1>5. ASSUME NEW r \in Requests, Interpret(r) PROVE Standing
  BY <1>5 DEF Interpret, Goto, Resolved, Forms
<1>6. ASSUME NEW r \in Requests, Transpile(r) PROVE Standing
  BY <1>6 DEF Transpile, Goto, Resolved, Forms
<1>7. ASSUME NEW r \in Requests, LookupBinary(r) PROVE Standing
  BY <1>7 DEF LookupBinary, Goto, Resolved, Forms
<1>8. ASSUME NEW r \in Requests, Compile(r) PROVE Standing
  BY <1>8 DEF Compile, Goto, Resolved, Forms
<1>9. ASSUME NEW r \in Requests, Store(r) PROVE Standing
  BY <1>9 DEF Store, Goto, Resolved, Forms
<1>10. ASSUME NEW r \in Requests, Launch(r) PROVE Standing
  BY <1>10 DEF Launch, Goto, Resolved, Forms
<1>11. ASSUME NEW g \in Engines, Crash(g) PROVE Standing
  BY <1>11, CrashLeaves
<1>12. CASE UNCHANGED resolverVars
  BY <1>12 DEF resolverVars
<1> HIDE DEF Values, Standing
<1> QED
  BY <1>1, <1>2, <1>3, <1>4, <1>5, <1>6, <1>7, <1>8, <1>9, <1>10, <1>11, <1>12
  DEF ResolverNext

(* A program that transpiles keeps its main.js, once there is one.         *)
LEMMA OutputStays ==
  ASSUME Values, Stages, lang = "typescript", valid, work.out # "none", [ResolverNext]_resolverVars
  PROVE  work'.out # "none"
<1> USE DEF Values, Stages
<1>1. ASSUME NEW r \in Requests, Lookup(r) PROVE work'.out # "none"
  BY <1>1 DEF Lookup, Forms
<1>2. ASSUME NEW r \in Requests, CheckMarker(r) PROVE work'.out # "none"
  BY <1>2 DEF CheckMarker, Forms
<1>3. ASSUME NEW r \in Requests, WriteFile(r) PROVE work'.out # "none"
  BY <1>3, WriteFileEffect
<1>4. ASSUME NEW r \in Requests, WriteMarker(r) PROVE work'.out # "none"
  BY <1>4 DEF WriteMarker, Forms
<1>5. ASSUME NEW r \in Requests, Interpret(r) PROVE work'.out # "none"
  BY <1>5 DEF Interpret, Forms
<1>6. ASSUME NEW r \in Requests, Transpile(r) PROVE work'.out # "none"
  BY <1>6 DEF Transpile, Forms
<1>7. ASSUME NEW r \in Requests, LookupBinary(r) PROVE work'.out # "none"
  BY <1>7 DEF LookupBinary, Forms
<1>8. ASSUME NEW r \in Requests, Compile(r) PROVE work'.out # "none"
  BY <1>8 DEF Compile, Forms
<1>9. ASSUME NEW r \in Requests, Store(r) PROVE work'.out # "none"
  BY <1>9 DEF Store, Forms
<1>10. ASSUME NEW r \in Requests, Launch(r) PROVE work'.out # "none"
  BY <1>10 DEF Launch, Forms
<1>11. ASSUME NEW g \in Engines, Crash(g) PROVE work'.out # "none"
  BY <1>11, CrashLeaves
<1>12. CASE UNCHANGED resolverVars
  BY <1>12 DEF resolverVars
<1> HIDE DEF Values, Stages
<1> QED
  BY <1>1, <1>2, <1>3, <1>4, <1>5, <1>6, <1>7, <1>8, <1>9, <1>10, <1>11, <1>12
  DEF ResolverNext

(* A handle is lost with its engine only.                                  *)
LEMMA HandleStays ==
  ASSUME Values, Launching, Caching, [ResolverNext]_resolverVars, NEW g \in Engines, g \in handle,
         Uses(g, "fd")'
  PROVE  g \in handle'
<1>1. ASSUME NEW h \in Engines, Crash(h) PROVE g \in handle'
  <2>1. g # h
    BY <1>1, CrashEffect DEF Vias
  <2> QED
    BY <1>1, <2>1, CrashLeaves
<1>2. CASE UNCHANGED resolverVars
  BY <1>2 DEF resolverVars
<1>3. ASSUME NEW r \in Requests, ~Store(r), ~LookupBinary(r),
             \/ Lookup(r) \/ CheckMarker(r) \/ WriteFile(r) \/ WriteMarker(r)
             \/ Interpret(r) \/ Transpile(r) \/ Compile(r) \/ Launch(r)
      PROVE  g \in handle'
  BY <1>3 DEF Lookup, CheckMarker, WriteFile, WriteMarker, Interpret, Transpile, Compile, Launch
<1>4. ASSUME NEW r \in Requests, Store(r) \/ LookupBinary(r) PROVE g \in handle'
  BY <1>4 DEF Store, LookupBinary
<1> QED
  BY <1>1, <1>2, <1>3, <1>4 DEF ResolverNext

(* What an engine executes has been seen there.                            *)
LEMMA WaysKept ==
  ASSUME Values, Launching, Caching, Ways, [ResolverNext]_resolverVars
  PROVE  Ways' /\ Effect
<1>1. Stages /\ Stages' /\ Effect
  BY StagesKept, StepEffect DEF Ways, Stages
<1>2. lang' = lang /\ valid' = valid /\ (work.marker => work'.marker)
  BY MarkerStays DEF Standing
<1>3. ASSUME NEW g \in Engines, Uses(g, "files")' PROVE work'.marker /\ lang' = "python"
  <2>1. Uses(g, "files") \/ \E r \in Requests : Interpret(r)
    BY <1>1, <1>3 DEF Effect, Turns, Vias
  <2>2. CASE Uses(g, "files")
    BY <1>2, <2>2 DEF Ways
  <2>3. ASSUME NEW r \in Requests, Interpret(r) PROVE work'.marker /\ lang' = "python"
    BY <1>1, <2>3 DEF Interpret, Stages
  <2> QED
    BY <2>1, <2>2, <2>3
<1>4. ASSUME NEW g \in Engines, Uses(g, "fd")' PROVE g \in handle' /\ lang' = "native"
  <2>1. Uses(g, "fd") \/ \E r \in Requests : EngineOf[r] = g /\ LookupBinary(r) /\ pc'[r] = "launch"
    BY <1>1, <1>4 DEF Effect, Turns, Vias
  <2>2. CASE Uses(g, "fd")
    BY <1>2, <1>4, <2>2, HandleStays DEF Ways
  <2>3. ASSUME NEW r \in Requests, EngineOf[r] = g, LookupBinary(r), pc'[r] = "launch"
        PROVE  g \in handle' /\ lang' = "native"
    BY <1>1, <2>3 DEF LookupBinary, Values, Goto
  <2> QED
    BY <2>1, <2>2, <2>3
<1>5. ASSUME NEW g \in Engines, Uses(g, "out")'
      PROVE  /\ lang = "native" => valid
             /\ lang \in {"typescript", "native"}
             /\ lang = "typescript" /\ valid => work'.out # "none"
  <2>1. Uses(g, "out") \/ \E r \in Requests : (Transpile(r) \/ Store(r)) /\ pc'[r] = "launch"
    BY <1>1, <1>5 DEF Effect, Turns, Vias
  <2>2. CASE Uses(g, "out")
    BY <1>1, <1>2, <2>2, OutputStays DEF Ways
  <2>3. ASSUME NEW r \in Requests, Transpile(r), pc'[r] = "launch"
        PROVE  lang = "typescript" /\ (valid => work'.out # "none")
    BY <2>3 DEF Transpile, Values, Goto, Forms
  <2>4. ASSUME NEW r \in Requests, Store(r) PROVE lang = "native" /\ valid
    BY <1>1, <2>4 DEF Store, Stages
  <2> QED
    BY <2>1, <2>2, <2>3, <2>4
<1> QED
  BY <1>1, <1>2, <1>3, <1>4, <1>5 DEF Ways, Stages

-----------------------------------------------------------------------------
(* The work directory                                                      *)

(* A step of a request that writes no file of the program.                 *)
Aside(r) ==
  /\ pc[r] \notin {"write", "fill", "mark"}
  /\ \E x \in Places \ {"new", "write", "fill", "mark"} : pc' = [pc EXCEPT ![r] = x] /\ (x = "marker" => pc[r] = "new")
  /\ pos' = pos /\ work'.files = work.files /\ work'.marker = work.marker /\ cut' = cut

LEMMA StepsAside ==
  ASSUME Values, NEW r \in Requests,
         Lookup(r) \/ Interpret(r) \/ Transpile(r) \/ LookupBinary(r) \/ Compile(r) \/ Store(r) \/ Launch(r)
  PROVE  Aside(r)
<1> USE DEF Values, Aside, Places, Idle, Goto, Resolved, ghosts
<1>1. CASE Lookup(r)
  BY <1>1 DEF Lookup
<1>2. CASE Interpret(r)
  BY <1>2 DEF Interpret
<1>3. CASE Transpile(r)
  BY <1>3 DEF Transpile, Forms
<1>4. CASE LookupBinary(r)
  <2>1. \E x \in {"launch", "compile"} : pc' = [pc EXCEPT ![r] = x]
    BY <1>4 DEF LookupBinary
  <2>a. work' = work \/ work' = [work EXCEPT !.out = "part"]
    BY <1>4, Zenon DEF LookupBinary
  <2>2. work'.files = work.files /\ work'.marker = work.marker
    BY <2>a DEF Forms
  <2>3. pc[r] = "build" /\ pos' = pos /\ cut' = cut
    BY <1>4 DEF LookupBinary
  <2> QED
    BY <2>1, <2>2, <2>3
<1>5. CASE Compile(r)
  BY <1>5 DEF Compile, Forms
<1>6. CASE Store(r)
  <2>1. \E x \in {"hash", "sha", "launch"} : pc' = [pc EXCEPT ![r] = x]
    BY <1>6 DEF Store
  <2>2. pc[r] \in {"copy", "hash", "sha"} /\ pos' = pos /\ work' = work /\ cut' = cut
    BY <1>6 DEF Store
  <2> QED
    BY <2>1, <2>2
<1>7. CASE Launch(r)
  <2>1. pc' = [pc EXCEPT ![r] = "done"] /\ pc[r] = "launch" /\ pos' = pos /\ work' = work /\ cut' = cut
    BY <1>7 DEF Launch
  <2>2. \E x \in Places \ {"new", "marker", "write", "fill", "mark"} : pc' = [pc EXCEPT ![r] = x]
    BY <2>1
  <2> QED
    BY <2>1, <2>2
<1> QED
  BY <1>1, <1>2, <1>3, <1>4, <1>5, <1>6, <1>7

(* A late writer started before another request set the marker.            *)
LEMMA LateWritersKept ==
  ASSUME Values, OneAtATime, LateWriters, [ResolverNext]_resolverVars PROVE LateWriters'
<1> USE DEF LateWriters, Writers, Values
<1>1. ASSUME NEW r \in Requests, Lookup(r) PROVE LateWriters'
  <2>1. Aside(r)
    BY <1>1, StepsAside
  <2> QED
    BY <1>1, <2>1 DEF Aside
<1>2. ASSUME NEW r \in Requests, CheckMarker(r) PROVE LateWriters'
  <2>1. work' = work /\ \/ pc' = [pc EXCEPT ![r] = "build"]
                        \/ ~work.marker /\ pc' = [pc EXCEPT ![r] = "write"]
    BY <1>2 DEF CheckMarker, Goto
  <2> QED
    BY <1>2, <2>1
<1>3. ASSUME NEW r \in Requests, WriteFile(r) PROVE LateWriters'
  <2>1. PICK x \in {"fill", "mark", "write"} : pc' = [pc EXCEPT ![r] = x] /\ pc[r] \in {"write", "fill"}
    BY <1>3, WriteFileEffect
  <2>2. work'.marker = work.marker
    BY <1>3, WriteFileEffect
  <2> QED
    BY <1>3, <2>1, <2>2
<1>4. ASSUME NEW r \in Requests, WriteMarker(r) PROVE LateWriters'
  <2>1. pc[r] = "mark" /\ pc' = [pc EXCEPT ![r] = "build"]
    BY <1>4 DEF WriteMarker, Goto
  <2>2. \A q \in Writers' : q \in Requests /\ q # r /\ pc[q] \in {"write", "fill", "mark"}
    BY <1>4, <2>1
  <2>3. \A q \in Writers' : EngineOf[r] # EngineOf[q]
    BY <1>4, <2>1, <2>2 DEF OneAtATime, Idle
  <2> QED
    BY <1>4, <2>1, <2>3
<1>5. ASSUME NEW r \in Requests, Interpret(r) PROVE LateWriters'
  <2>1. Aside(r)
    BY <1>5, StepsAside
  <2> QED
    BY <1>5, <2>1 DEF Aside
<1>6. ASSUME NEW r \in Requests, Transpile(r) PROVE LateWriters'
  <2>1. Aside(r)
    BY <1>6, StepsAside
  <2> QED
    BY <1>6, <2>1 DEF Aside
<1>7. ASSUME NEW r \in Requests, LookupBinary(r) PROVE LateWriters'
  <2>1. Aside(r)
    BY <1>7, StepsAside
  <2> QED
    BY <1>7, <2>1 DEF Aside
<1>8. ASSUME NEW r \in Requests, Compile(r) PROVE LateWriters'
  <2>1. Aside(r)
    BY <1>8, StepsAside
  <2> QED
    BY <1>8, <2>1 DEF Aside
<1>9. ASSUME NEW r \in Requests, Store(r) PROVE LateWriters'
  <2>1. Aside(r)
    BY <1>9, StepsAside
  <2> QED
    BY <1>9, <2>1 DEF Aside
<1>10. ASSUME NEW r \in Requests, Launch(r) PROVE LateWriters'
  <2>1. Aside(r)
    BY <1>10, StepsAside
  <2> QED
    BY <1>10, <2>1 DEF Aside
<1>11. ASSUME NEW g \in Engines, Crash(g) PROVE LateWriters'
  <2>1. \A q \in Requests : pc'[q] \in {"write", "fill", "mark"} => pc'[q] = pc[q]
    BY <1>11, CrashLeaves
  <2>2. \A q \in Requests : pc[q] \notin {"new", "marker"} => pc'[q] \notin {"new", "marker"}
    BY <1>11, CrashLeaves
  <2>3. work'.marker = work.marker
    BY <1>11, CrashLeaves
  <2> QED
    BY <1>11, <2>1, <2>2, <2>3
<1>12. CASE UNCHANGED resolverVars
  BY <1>12 DEF resolverVars
<1> HIDE DEF LateWriters, Writers, Values
<1> QED
  BY <1>1, <1>2, <1>3, <1>4, <1>5, <1>6, <1>7, <1>8, <1>9, <1>10, <1>11, <1>12
  DEF ResolverNext

(* A file is whole, or being filled, or was cut off by a crash.            *)
LEMMA FilesSoundKept ==
  ASSUME Values, LateWriters, FilesSound, [ResolverNext]_resolverVars PROVE FilesSound'
<1> USE DEF FilesSound, Sound, Writers, Values
<1>1. ASSUME NEW r \in Requests, Lookup(r) PROVE FilesSound'
  <2>1. Aside(r)
    BY <1>1, StepsAside
  <2> QED
    BY <1>1, <2>1 DEF Aside
<1>2. ASSUME NEW r \in Requests, CheckMarker(r) PROVE FilesSound'
  <2>1. /\ work' = work /\ pos' = [pos EXCEPT ![r] = 1] /\ cut' = cut /\ pc[r] = "marker"
        /\ pc' = [pc EXCEPT ![r] = "build"] \/ pc' = [pc EXCEPT ![r] = "write"]
    BY <1>2 DEF CheckMarker, Goto, ghosts
  <2>2. \A i \in 1..Files : Sound(i) => Sound(i)'
    BY <1>2, <2>1
  <2>3. \A i \in 1..Files : ~(i < 1)
    OBVIOUS
  <2>4. \A q \in Writers' : q # r => q \in Writers /\ pos'[q] = pos[q] /\ pc'[q] = pc[q]
    BY <1>2, <2>1
  <2>5. r \in Writers' => pos'[r] = 1 /\ pc'[r] = "write"
    BY <1>2, <2>1
  <2> HIDE DEF Sound, Writers
  <2> QED
    BY <2>1, <2>2, <2>3, <2>4, <2>5
<1>3. ASSUME NEW r \in Requests, WriteFile(r) PROVE FilesSound'
  <2>1. cut' = cut /\ work'.marker = work.marker
    BY <1>3, WriteFileEffect DEF WriteFile, ghosts
  <2>2. \A i \in 1..Files : Sound(i) => Sound(i)'
    <3>1. CASE pc[r] = "write"
      <4>1. pc' = [pc EXCEPT ![r] = "fill"] /\ pos' = pos /\ work'.files = [work.files EXCEPT ![pos[r]] = "part"]
        BY <1>3, <3>1, WriteFileEffect
      <4> QED
        BY <1>3, <4>1, <3>1 DEF Forms
    <3>2. CASE pc[r] = "fill"
      <4>1. /\ work'.files = [work.files EXCEPT ![pos[r]] = "whole"]
            /\ \A q \in Requests \ {r} : pc'[q] = pc[q] /\ pos'[q] = pos[q]
        BY <1>3, <3>2, WriteFileEffect
      <4> QED
        BY <1>3, <4>1, <3>2, ZenonT(30) DEF Forms
    <3> QED
      BY <1>3, <3>1, <3>2, WriteFileEffect
  <2>3. /\ r \in Writers
        /\ \A q \in Writers' : q # r => q \in Writers /\ pos'[q] = pos[q] /\ pc'[q] = pc[q]
    <3>1. pc[r] \in {"write", "fill"} /\ \A q \in Requests \ {r} : pc'[q] = pc[q] /\ pos'[q] = pos[q]
      BY <1>3, WriteFileEffect
    <3> QED
      BY <1>3, <3>1
  <2>4. ASSUME NEW i \in 1..Files, i < pos'[r] \/ pc'[r] = "mark", ~cut PROVE Sound(i)'
    <3>1. CASE pc[r] = "write"
      <4>1. pc' = [pc EXCEPT ![r] = "fill"] /\ pos' = pos
        BY <1>3, <3>1, WriteFileEffect
      <4>2. Sound(i)
        BY <1>3, <2>3, <2>4, <4>1
      <4> QED
        BY <2>2, <4>2
    <3>2. CASE pc[r] = "fill"
      <4>1. pos[r] \in 1..Files /\ work'.files = [work.files EXCEPT ![pos[r]] = "whole"] /\ work \in Forms
        BY <1>3, <3>2, WriteFileEffect
      <4>2. i < pos[r] \/ i = pos[r]
        <5>1. CASE pos[r] = Files
          BY <5>1, EngineAssumption
        <5>2. CASE pos[r] # Files
          <6>1. pc' = [pc EXCEPT ![r] = "write"] /\ pos' = [pos EXCEPT ![r] = pos[r] + 1]
            BY <1>3, <3>2, <5>2, WriteFileEffect
          <6>2. i < pos[r] + 1
            BY <1>3, <2>4, <6>1
          <6> QED
            BY <4>1, <6>2
        <5> QED
          BY <5>1, <5>2
      <4>3. CASE i = pos[r]
        BY <4>1, <4>3 DEF Forms
      <4>4. CASE i < pos[r]
        <5>1. Sound(i)
          BY <2>3, <2>4, <4>4
        <5> QED
          BY <2>2, <5>1
      <4> QED
        BY <4>2, <4>3, <4>4
    <3> QED
      BY <1>3, <3>1, <3>2, WriteFileEffect
  <2> HIDE DEF Sound, Writers
  <2> QED
    BY <2>1, <2>2, <2>3, <2>4
<1>4. ASSUME NEW r \in Requests, WriteMarker(r) PROVE FilesSound'
  <2>1. /\ pc[r] = "mark" /\ pc' = [pc EXCEPT ![r] = "build"] /\ pos' = pos /\ cut' = cut
        /\ work'.files = work.files
    BY <1>4 DEF WriteMarker, Goto, ghosts, Forms
  <2>2. r \in Writers
    BY <1>4, <2>1
  <2>3. ~cut => \A i \in 1..Files : Sound(i)
    BY <2>1, <2>2
  <2>4. \A i \in 1..Files : Sound(i) => Sound(i)'
    BY <1>4, <2>1
  <2> HIDE DEF Sound
  <2> QED
    BY <2>1, <2>3, <2>4
<1>5. ASSUME NEW r \in Requests, Interpret(r) PROVE FilesSound'
  <2>1. Aside(r)
    BY <1>5, StepsAside
  <2> QED
    BY <1>5, <2>1 DEF Aside
<1>6. ASSUME NEW r \in Requests, Transpile(r) PROVE FilesSound'
  <2>1. Aside(r)
    BY <1>6, StepsAside
  <2> QED
    BY <1>6, <2>1 DEF Aside
<1>7. ASSUME NEW r \in Requests, LookupBinary(r) PROVE FilesSound'
  <2>1. Aside(r)
    BY <1>7, StepsAside
  <2> QED
    BY <1>7, <2>1 DEF Aside
<1>8. ASSUME NEW r \in Requests, Compile(r) PROVE FilesSound'
  <2>1. Aside(r)
    BY <1>8, StepsAside
  <2> QED
    BY <1>8, <2>1 DEF Aside
<1>9. ASSUME NEW r \in Requests, Store(r) PROVE FilesSound'
  <2>1. Aside(r)
    BY <1>9, StepsAside
  <2> QED
    BY <1>9, <2>1 DEF Aside
<1>10. ASSUME NEW r \in Requests, Launch(r) PROVE FilesSound'
  <2>1. Aside(r)
    BY <1>10, StepsAside
  <2> QED
    BY <1>10, <2>1 DEF Aside
<1>11. ASSUME NEW g \in Engines, Crash(g) PROVE FilesSound'
  <2> SUFFICES ASSUME ~cut'
               PROVE  /\ work'.marker => \A i \in 1..Files : Sound(i)'
                      /\ \A q \in Writers', i \in 1..Files : i < pos'[q] \/ pc'[q] = "mark" => Sound(i)'
    OBVIOUS
  <2>1. /\ ~cut /\ pos' = pos /\ work'.files = work.files /\ work'.marker = work.marker
        /\ \A q \in Requests : pc'[q] = pc[q] \/ (pc'[q] = "failed" /\ EngineOf[q] = g)
        /\ \A q \in Requests : pc[q] \notin Idle /\ EngineOf[q] = g => pc'[q] = "failed"
    BY <1>11, CrashLeaves, CrashHeals
  <2>2. CASE \E w \in Writers : EngineOf[w] = g
    <3>1. PICK w \in Writers : EngineOf[w] = g
      BY <2>2
    <3>2. \A q \in Requests : EngineOf[q] # g => pc[q] \in {"new", "marker"}
      BY <1>11, <3>1, CrashHeals
    <3>3. ~work.marker
      BY <3>1, <3>2 DEF LateWriters
    <3>4. Writers' = {}
      BY <2>1, <3>2 DEF Idle
    <3> QED
      BY <2>1, <3>3, <3>4
  <2>3. CASE \A w \in Writers : EngineOf[w] # g
    <3>1. \A q \in Requests : pc[q] \in {"write", "fill", "mark"} => pc'[q] = pc[q]
      BY <2>1, <2>3
    <3> QED
      BY <2>1, <3>1
  <2> QED
    BY <2>2, <2>3
<1>12. CASE UNCHANGED resolverVars
  BY <1>12 DEF resolverVars
<1> HIDE DEF FilesSound, Sound, Writers, Values
<1> QED
  BY <1>1, <1>2, <1>3, <1>4, <1>5, <1>6, <1>7, <1>8, <1>9, <1>10, <1>11, <1>12
  DEF ResolverNext

-----------------------------------------------------------------------------
(* main.js, main and the binary cache                                      *)

(* A step of a request that builds and stores nothing.                     *)
Working == {"compile", "transpile", "copy", "hash", "sha"}
Beside(r) ==
  /\ pc[r] \notin Working
  /\ \E x \in Places \ Working : pc' = [pc EXCEPT ![r] = x]
  /\ work'.out = work.out /\ bin' = bin /\ handle' = handle /\ cut' = cut /\ mixed' = mixed
  /\ \A q \in Requests : got'[q] \in {got[q], None}

LEMMA StepsBeside ==
  ASSUME Values, NEW r \in Requests,
         Lookup(r) \/ CheckMarker(r) \/ WriteFile(r) \/ WriteMarker(r) \/ Interpret(r) \/ Launch(r)
  PROVE  Beside(r)
<1> USE DEF Values, Beside, Places, Working, Idle, Goto, Resolved, ghosts
<1>1. CASE Lookup(r)
  BY <1>1 DEF Lookup
<1>2. CASE CheckMarker(r)
  BY <1>2 DEF CheckMarker
<1>3. CASE WriteFile(r)
  <2>1. PICK x \in {"fill", "mark", "write"} : pc' = [pc EXCEPT ![r] = x] /\ pc[r] \in {"write", "fill"}
    BY <1>3, WriteFileEffect
  <2>2. work'.out = work.out /\ UNCHANGED <<handle, bin, got, cut, mixed>>
    BY <1>3, WriteFileEffect DEF WriteFile
  <2> QED
    BY <2>1, <2>2
<1>4. CASE WriteMarker(r)
  BY <1>4 DEF WriteMarker, Forms
<1>5. CASE Interpret(r)
  BY <1>5 DEF Interpret
<1>6. CASE Launch(r)
  <2>1. pc' = [pc EXCEPT ![r] = "done"] /\ pc[r] = "launch" /\ UNCHANGED <<work, bin, handle, cut, mixed>>
        /\ got' = [got EXCEPT ![r] = None]
    BY <1>6 DEF Launch
  <2>2. \E x \in Places \ Working : pc' = [pc EXCEPT ![r] = x]
    BY <2>1
  <2> QED
    BY <2>1, <2>2
<1> QED
  BY <1>1, <1>2, <1>3, <1>4, <1>5, <1>6

(* The ways the output changes hands                                       *)
LEMMA OutNotNeeded ==
  ASSUME Values, Launching, Caching, NEW g \in Engines, Crash(g), ~cut', NEW b \in Builders, EngineOf[b] = g
  PROVE  ~OutNeeded'
<1>1. \A q \in Requests : EngineOf[q] # g => pc[q] \notin Built /\ cache[EngineOf[q]] = NoSpecs
  BY CrashHeals
<1>2. \A q \in Requests : pc'[q] = pc[q] \/ pc'[q] = "failed"
  BY CrashLeaves
<1>3. \A q \in Requests : EngineOf[q] = g => pc'[q] \in Idle
  BY CrashLeaves DEF Idle
<1>4. \A q \in Requests : pc'[q] \notin Built
  BY <1>1, <1>2, <1>3 DEF Idle, Built
<1>5. Storers' = {}
  BY <1>4 DEF Storers, Built
<1>6. ASSUME NEW h \in Engines, Uses(h, "out")' PROVE FALSE
  <2>1. h # g /\ Uses(h, "out") /\ Caching'
    BY <1>6, CrashEffect DEF NoNewUse, Vias
  <2>2. PICK k \in Keys : cache'[h][k] # None
    BY <1>4, <1>6 DEF Uses, Built
  <2>3. cache' = [cache EXCEPT ![g] = NoSpecs]
    BY DEF Crash
  <2>4. cache'[h] = cache[h]
    BY <2>1, <2>3 DEF Caching
  <2>5. cache[h][k] \in SpecsUnder(h, k)
    BY <2>2, <2>4 DEF Caching
  <2>6. PICK q \in Requests : EngineOf[q] = h
    BY <2>5 DEF SpecsUnder
  <2>7. cache[h] = NoSpecs
    BY <1>1, <2>1, <2>6
  <2>8. cache[h][k] = None
    BY <2>7 DEF NoSpecs, Keys
  <2> QED
    BY <2>2, <2>4, <2>8
<1> QED
  BY <1>5, <1>6 DEF OutNeeded

(* Only a store, or a compiler that ends, makes main needed.               *)
LEMMA NotNewlyNeeded ==
  ASSUME Effect, ~OutNeeded, Storers' = {}, \A r \in Requests : ~Turns(r, "out")
  PROVE  ~OutNeeded'
BY DEF Effect, OutNeeded, Vias

(* The digest is that of a whole binary while copies do not overlap.       *)
LEMMA DigestSoundKept ==
  ASSUME Values, Stages, DigestSound, [ResolverNext]_resolverVars PROVE DigestSound'
<1> USE DEF DigestSound, Storers, Copying, Builders, Values
<1>1. ASSUME NEW r \in Requests, Lookup(r) PROVE DigestSound'
  <2>1. Beside(r)
    BY <1>1, StepsBeside
  <2>2. \A q \in Requests : pc[q] \in Working \/ pc'[q] \in Working => pc'[q] = pc[q]
    BY <1>1, <2>1 DEF Beside
  <2> QED
    BY <1>1, <2>1, <2>2 DEF Beside, Working
<1>2. ASSUME NEW r \in Requests, CheckMarker(r) PROVE DigestSound'
  <2>1. Beside(r)
    BY <1>2, StepsBeside
  <2>2. \A q \in Requests : pc[q] \in Working \/ pc'[q] \in Working => pc'[q] = pc[q]
    BY <1>2, <2>1 DEF Beside
  <2> QED
    BY <1>2, <2>1, <2>2 DEF Beside, Working
<1>3. ASSUME NEW r \in Requests, WriteFile(r) PROVE DigestSound'
  <2>1. Beside(r)
    BY <1>3, StepsBeside
  <2>2. \A q \in Requests : pc[q] \in Working \/ pc'[q] \in Working => pc'[q] = pc[q]
    BY <1>3, <2>1 DEF Beside
  <2> QED
    BY <1>3, <2>1, <2>2 DEF Beside, Working
<1>4. ASSUME NEW r \in Requests, WriteMarker(r) PROVE DigestSound'
  <2>1. Beside(r)
    BY <1>4, StepsBeside
  <2>2. \A q \in Requests : pc[q] \in Working \/ pc'[q] \in Working => pc'[q] = pc[q]
    BY <1>4, <2>1 DEF Beside
  <2> QED
    BY <1>4, <2>1, <2>2 DEF Beside, Working
<1>5. ASSUME NEW r \in Requests, Interpret(r) PROVE DigestSound'
  <2>1. Beside(r)
    BY <1>5, StepsBeside
  <2>2. \A q \in Requests : pc[q] \in Working \/ pc'[q] \in Working => pc'[q] = pc[q]
    BY <1>5, <2>1 DEF Beside
  <2> QED
    BY <1>5, <2>1, <2>2 DEF Beside, Working
<1>6. ASSUME NEW r \in Requests, Transpile(r) PROVE DigestSound'
  <2>1. lang = "typescript" /\ bin' = bin /\ mixed' = mixed
    BY <1>6 DEF Transpile, ghosts
  <2>2. \E x \in {"transpile", "launch", "failed"} : pc' = [pc EXCEPT ![r] = x]
    BY <1>6 DEF Transpile, Goto, Resolved
  <2>3. Storers = {}
    BY <2>1 DEF Stages
  <2>4. Storers' = {}
    BY <1>6, <2>2, <2>3
  <2> QED
    BY <2>1, <2>4
<1>7. ASSUME NEW r \in Requests, LookupBinary(r) PROVE DigestSound'
  <2>1. ~mixed' => ~mixed /\ Storers \ {r} = {}
    BY <1>7 DEF LookupBinary, Overlap
  <2>2. pc[r] = "build" /\ bin' = bin /\ (pc' = [pc EXCEPT ![r] = "launch"] \/ pc' = [pc EXCEPT ![r] = "compile"])
    BY <1>7 DEF LookupBinary, Goto, Resolved
  <2>3. ~mixed' => Storers' = {}
    BY <1>7, <2>1, <2>2
  <2> QED
    BY <2>1, <2>2, <2>3
<1>8. ASSUME NEW r \in Requests, Compile(r) PROVE DigestSound'
  <2>1. pc[r] = "compile" /\ bin' = bin /\ mixed' = mixed /\ r \in Builders
    BY <1>8 DEF Compile, ghosts
  <2>2. ~mixed => Copying = {}
    BY <2>1
  <2>3. \/ valid /\ work'.out = "whole" /\ pc' = [pc EXCEPT ![r] = "copy"]
        \/ ~valid /\ pc' = [pc EXCEPT ![r] = "failed"]
    BY <1>8 DEF Compile, Goto, Forms
  <2>4. ~mixed => Copying' = {}
    BY <1>8, <2>2, <2>3
  <2>5. ~valid => Storers' = {}
    BY <1>8, <2>3 DEF Stages
  <2> QED
    BY <2>1, <2>3, <2>4, <2>5
<1>9. ASSUME NEW r \in Requests, Store(r) PROVE DigestSound'
  <2> SUFFICES ASSUME ~mixed' PROVE DigestSound'
    OBVIOUS
  <2>1. ~mixed /\ (Builders \cup Copying) \ {r} = {} /\ work' = work
    BY <1>9 DEF Store, Overlap
  <2>2. CASE pc[r] = "copy" /\ Goto(r, "hash") /\ bin' = [bin EXCEPT !.bin = "part"]
    BY <1>9, <2>1, <2>2 DEF Goto
  <2>3. CASE pc[r] = "hash" /\ Goto(r, "sha") /\ bin' = [bin EXCEPT !.bin = work.out]
    BY <1>9, <2>1, <2>3 DEF Goto
  <2>4. CASE pc[r] = "sha" /\ bin' = [bin EXCEPT !.sha = bin.bin] /\ Goto(r, "launch")
    BY <1>9, <2>1, <2>4 DEF Goto
  <2>5. CASE pc[r] = "copy" /\ Goto(r, "launch") /\ bin' = bin
    BY <1>9, <2>1, <2>5 DEF Goto
  <2> QED
    BY <1>9, <2>2, <2>3, <2>4, <2>5 DEF Store, Resolved
<1>10. ASSUME NEW r \in Requests, Launch(r) PROVE DigestSound'
  <2>1. Beside(r)
    BY <1>10, StepsBeside
  <2>2. \A q \in Requests : pc[q] \in Working \/ pc'[q] \in Working => pc'[q] = pc[q]
    BY <1>10, <2>1 DEF Beside
  <2> QED
    BY <1>10, <2>1, <2>2 DEF Beside, Working
<1>11. ASSUME NEW g \in Engines, Crash(g) PROVE DigestSound'
  <2> SUFFICES ASSUME ~mixed' PROVE DigestSound'
    OBVIOUS
  <2>1. bin' = bin /\ ~mixed
    BY <1>11, CrashLeaves, CrashHeals
  <2>2. \A q \in Requests : pc'[q] = pc[q] \/ pc'[q] = "failed"
    BY <1>11, CrashLeaves
  <2>3. Storers' # {} => work'.out = "whole"
    <3>1. CASE \E b \in Builders : EngineOf[b] = g
      <4>1. \A q \in Storers : EngineOf[q] = g
        BY <1>11, <3>1, CrashHeals
      <4>2. \A q \in Requests : EngineOf[q] = g => pc'[q] \in Idle
        BY <1>11, CrashLeaves DEF Idle
      <4> QED
        BY <2>2, <4>1, <4>2 DEF Idle
    <3>2. CASE ~\E b \in Builders : EngineOf[b] = g
      <4>1. work'.out = work.out
        BY <1>11, <3>2, CrashLeaves
      <4> QED
        BY <2>1, <2>2, <4>1
    <3> QED
      BY <3>1, <3>2
  <2> QED
    BY <2>1, <2>2, <2>3
<1>12. CASE UNCHANGED resolverVars
  BY <1>12 DEF resolverVars
<1> HIDE DEF DigestSound, Storers, Copying, Builders, Values
<1> QED
  BY <1>1, <1>2, <1>3, <1>4, <1>5, <1>6, <1>7, <1>8, <1>9, <1>10, <1>11, <1>12
  DEF ResolverNext

(* A handle is to a whole binary, or one being copied.                     *)
LEMMA HandleSoundKept ==
  ASSUME Values, DigestSound, HandleSound, [ResolverNext]_resolverVars PROVE HandleSound'
<1> USE DEF HandleSound, Values
<1>1. ASSUME NEW r \in Requests, Lookup(r) PROVE HandleSound'
  <2>1. Beside(r)
    BY <1>1, StepsBeside
  <2>2. \A q \in Requests : pc[q] \in Working \/ pc'[q] \in Working => pc'[q] = pc[q]
    BY <1>1, <2>1 DEF Beside
  <2> QED
    BY <1>1, <2>1, <2>2 DEF Beside, Working
<1>2. ASSUME NEW r \in Requests, CheckMarker(r) PROVE HandleSound'
  <2>1. Beside(r)
    BY <1>2, StepsBeside
  <2>2. \A q \in Requests : pc[q] \in Working \/ pc'[q] \in Working => pc'[q] = pc[q]
    BY <1>2, <2>1 DEF Beside
  <2> QED
    BY <1>2, <2>1, <2>2 DEF Beside, Working
<1>3. ASSUME NEW r \in Requests, WriteFile(r) PROVE HandleSound'
  <2>1. Beside(r)
    BY <1>3, StepsBeside
  <2>2. \A q \in Requests : pc[q] \in Working \/ pc'[q] \in Working => pc'[q] = pc[q]
    BY <1>3, <2>1 DEF Beside
  <2> QED
    BY <1>3, <2>1, <2>2 DEF Beside, Working
<1>4. ASSUME NEW r \in Requests, WriteMarker(r) PROVE HandleSound'
  <2>1. Beside(r)
    BY <1>4, StepsBeside
  <2>2. \A q \in Requests : pc[q] \in Working \/ pc'[q] \in Working => pc'[q] = pc[q]
    BY <1>4, <2>1 DEF Beside
  <2> QED
    BY <1>4, <2>1, <2>2 DEF Beside, Working
<1>5. ASSUME NEW r \in Requests, Interpret(r) PROVE HandleSound'
  <2>1. Beside(r)
    BY <1>5, StepsBeside
  <2>2. \A q \in Requests : pc[q] \in Working \/ pc'[q] \in Working => pc'[q] = pc[q]
    BY <1>5, <2>1 DEF Beside
  <2> QED
    BY <1>5, <2>1, <2>2 DEF Beside, Working
<1>6. ASSUME NEW r \in Requests, Transpile(r) PROVE HandleSound'
  <2>1. UNCHANGED <<bin, mixed, cut, handle>> /\ pc[r] # "hash"
    BY <1>6 DEF Transpile, ghosts
  <2>2. \E x \in {"transpile", "launch", "failed"} : pc' = [pc EXCEPT ![r] = x]
    BY <1>6 DEF Transpile, Goto, Resolved
  <2> QED
    BY <1>6, <2>1, <2>2
<1>7. ASSUME NEW r \in Requests, LookupBinary(r) PROVE HandleSound'
  <2>1. /\ pc[r] = "build" /\ bin' = bin /\ (~mixed' => ~mixed) /\ cut' = cut
        /\ pc' = [pc EXCEPT ![r] = "launch"] \/ pc' = [pc EXCEPT ![r] = "compile"]
        /\ handle # {} \/ handle' = {} \/ Verified(bin)
    BY <1>7 DEF LookupBinary, Goto, Resolved, Overlap
  <2>2. ~mixed /\ Verified(bin) => bin.bin = "whole"
    BY DEF DigestSound, Verified
  <2> QED
    BY <1>7, <2>1, <2>2
<1>8. ASSUME NEW r \in Requests, Compile(r) PROVE HandleSound'
  <2>1. UNCHANGED <<bin, mixed, cut, handle>> /\ pc[r] # "hash"
    BY <1>8 DEF Compile, ghosts
  <2>2. \E x \in {"copy", "failed"} : pc' = [pc EXCEPT ![r] = x]
    BY <1>8 DEF Compile, Goto
  <2> QED
    BY <1>8, <2>1, <2>2
<1>9. ASSUME NEW r \in Requests, Store(r) PROVE HandleSound'
  <2> SUFFICES ASSUME ~mixed', ~cut'
  PROVE  bin'.bin = "whole" \/ handle' = {} \/ \E q \in Requests : pc'[q] = "hash"
    OBVIOUS
  <2>1. ~mixed /\ ~cut /\ work' = work
    BY <1>9 DEF Store, Overlap
  <2>2. CASE pc[r] = "copy" /\ Goto(r, "hash")
    BY <1>9, <2>2 DEF Goto
  <2>3. CASE pc[r] = "hash" /\ bin' = [bin EXCEPT !.bin = work.out]
    <3>1. work.out = "whole"
      BY <1>9, <2>1, <2>3 DEF DigestSound, Storers
    <3> QED
      BY <2>3, <3>1
  <2>4. CASE pc[r] = "sha" /\ bin' = [bin EXCEPT !.sha = bin.bin]
    <3>1. bin.bin = "whole"
      BY <1>9, <2>1, <2>4 DEF DigestSound
    <3> QED
      BY <2>4, <3>1
  <2>5. CASE pc[r] = "copy" /\ Goto(r, "launch") /\ UNCHANGED <<bin, handle>>
    BY <1>9, <2>1, <2>5 DEF Goto
  <2> QED
    BY <1>9, <2>2, <2>3, <2>4, <2>5 DEF Store, Resolved
<1>10. ASSUME NEW r \in Requests, Launch(r) PROVE HandleSound'
  <2>1. Beside(r)
    BY <1>10, StepsBeside
  <2>2. \A q \in Requests : pc[q] \in Working \/ pc'[q] \in Working => pc'[q] = pc[q]
    BY <1>10, <2>1 DEF Beside
  <2> QED
    BY <1>10, <2>1, <2>2 DEF Beside, Working
<1>11. ASSUME NEW g \in Engines, Crash(g) PROVE HandleSound'
  <2> SUFFICES ASSUME ~mixed', ~cut', handle' # {}
  PROVE  bin'.bin = "whole" \/ \E q \in Requests : pc'[q] = "hash"
    OBVIOUS
  <2>1. bin' = bin /\ handle' = handle \ {g} /\ ~mixed /\ ~cut
    BY <1>11, CrashLeaves, CrashHeals
  <2>2. \A q \in Storers : EngineOf[q] # g
    BY <1>11, <2>1, CrashHeals
  <2>3. \A q \in Requests : pc[q] = "hash" => pc'[q] = "hash"
    BY <1>11, <2>2, CrashLeaves DEF Storers
  <2> QED
    BY <2>1, <2>3
<1>12. CASE UNCHANGED resolverVars
  BY <1>12 DEF resolverVars
<1> HIDE DEF HandleSound, Values
<1> QED
  BY <1>1, <1>2, <1>3, <1>4, <1>5, <1>6, <1>7, <1>8, <1>9, <1>10, <1>11, <1>12
  DEF ResolverNext

(* A binary that is handed out is whole.                                   *)
LEMMA LookupVerifiedKept ==
  ASSUME Values, DigestSound, LookupVerified, [ResolverNext]_resolverVars PROVE LookupVerified'
<1> USE DEF LookupVerified, Values
<1>1. ASSUME NEW r \in Requests, Lookup(r) PROVE LookupVerified'
  <2>1. Beside(r)
    BY <1>1, StepsBeside
  <2>2. \A q \in Requests : pc[q] \in Working \/ pc'[q] \in Working => pc'[q] = pc[q]
    BY <1>1, <2>1 DEF Beside
  <2> QED
    BY <1>1, <2>1, <2>2 DEF Beside, Working
<1>2. ASSUME NEW r \in Requests, CheckMarker(r) PROVE LookupVerified'
  <2>1. Beside(r)
    BY <1>2, StepsBeside
  <2>2. \A q \in Requests : pc[q] \in Working \/ pc'[q] \in Working => pc'[q] = pc[q]
    BY <1>2, <2>1 DEF Beside
  <2> QED
    BY <1>2, <2>1, <2>2 DEF Beside, Working
<1>3. ASSUME NEW r \in Requests, WriteFile(r) PROVE LookupVerified'
  <2>1. Beside(r)
    BY <1>3, StepsBeside
  <2>2. \A q \in Requests : pc[q] \in Working \/ pc'[q] \in Working => pc'[q] = pc[q]
    BY <1>3, <2>1 DEF Beside
  <2> QED
    BY <1>3, <2>1, <2>2 DEF Beside, Working
<1>4. ASSUME NEW r \in Requests, WriteMarker(r) PROVE LookupVerified'
  <2>1. Beside(r)
    BY <1>4, StepsBeside
  <2>2. \A q \in Requests : pc[q] \in Working \/ pc'[q] \in Working => pc'[q] = pc[q]
    BY <1>4, <2>1 DEF Beside
  <2> QED
    BY <1>4, <2>1, <2>2 DEF Beside, Working
<1>5. ASSUME NEW r \in Requests, Interpret(r) PROVE LookupVerified'
  <2>1. Beside(r)
    BY <1>5, StepsBeside
  <2>2. \A q \in Requests : pc[q] \in Working \/ pc'[q] \in Working => pc'[q] = pc[q]
    BY <1>5, <2>1 DEF Beside
  <2> QED
    BY <1>5, <2>1, <2>2 DEF Beside, Working
<1>6. ASSUME NEW r \in Requests, Transpile(r) PROVE LookupVerified'
  BY <1>6 DEF Transpile, ghosts
<1>7. ASSUME NEW r \in Requests, LookupBinary(r) PROVE LookupVerified'
  <2>1. ~mixed' => ~mixed
    BY <1>7 DEF LookupBinary, Overlap
  <2>2. ~mixed /\ Verified(bin) => bin.bin = "whole"
    BY DEF DigestSound, Verified
  <2>3. got' = got \/ got' = [got EXCEPT ![r] = None] \/ (Verified(bin) /\ got' = [got EXCEPT ![r] = bin.bin])
    BY <1>7 DEF LookupBinary
  <2> QED
    BY <1>7, <2>1, <2>2, <2>3
<1>8. ASSUME NEW r \in Requests, Compile(r) PROVE LookupVerified'
  BY <1>8 DEF Compile, ghosts
<1>9. ASSUME NEW r \in Requests, Store(r) PROVE LookupVerified'
  BY <1>9 DEF Store, Overlap
<1>10. ASSUME NEW r \in Requests, Launch(r) PROVE LookupVerified'
  <2>1. Beside(r)
    BY <1>10, StepsBeside
  <2>2. \A q \in Requests : pc[q] \in Working \/ pc'[q] \in Working => pc'[q] = pc[q]
    BY <1>10, <2>1 DEF Beside
  <2> QED
    BY <1>10, <2>1, <2>2 DEF Beside, Working
<1>11. ASSUME NEW g \in Engines, Crash(g) PROVE LookupVerified'
  BY <1>11, CrashLeaves, CrashHeals
<1>12. CASE UNCHANGED resolverVars
  BY <1>12 DEF resolverVars
<1> HIDE DEF LookupVerified, Values
<1> QED
  BY <1>1, <1>2, <1>3, <1>4, <1>5, <1>6, <1>7, <1>8, <1>9, <1>10, <1>11, <1>12
  DEF ResolverNext

(* main.js and main are whole for those who execute them, or being built.  *)
LEMMA OutSoundKept ==
  ASSUME Values, Launching, Caching, Stages, Effect, OutSound, [ResolverNext]_resolverVars
  PROVE  OutSound'
<1> USE DEF OutSound
<1>1. ASSUME NEW r \in Requests, Lookup(r) PROVE OutSound'
  <2>1. Beside(r)
    BY <1>1, StepsBeside
  <2>2. \A q \in Requests : pc[q] \in Working \/ pc'[q] \in Working => pc'[q] = pc[q]
    BY <1>1, <2>1 DEF Beside, Values
  <2>3. Storers' = Storers /\ (Compiling => Compiling') /\ (Transpiling => Transpiling')
    BY <2>2 DEF Working, Storers, Compiling, Transpiling
  <2>4. lang = "native" => \A q \in Requests : ~Turns(q, "out")
    BY <2>2 DEF Turns, Working, Transpile, Store
  <2>5. lang = "native" /\ OutNeeded' => OutNeeded
    BY <2>3, <2>4, NotNewlyNeeded DEF OutNeeded
  <2> QED
    BY <2>1, <2>3, <2>5, MarkerStays DEF Beside, Standing
<1>2. ASSUME NEW r \in Requests, CheckMarker(r) PROVE OutSound'
  <2>1. Beside(r)
    BY <1>2, StepsBeside
  <2>2. \A q \in Requests : pc[q] \in Working \/ pc'[q] \in Working => pc'[q] = pc[q]
    BY <1>2, <2>1 DEF Beside, Values
  <2>3. Storers' = Storers /\ (Compiling => Compiling') /\ (Transpiling => Transpiling')
    BY <2>2 DEF Working, Storers, Compiling, Transpiling
  <2>4. lang = "native" => \A q \in Requests : ~Turns(q, "out")
    BY <2>2 DEF Turns, Working, Transpile, Store
  <2>5. lang = "native" /\ OutNeeded' => OutNeeded
    BY <2>3, <2>4, NotNewlyNeeded DEF OutNeeded
  <2> QED
    BY <2>1, <2>3, <2>5, MarkerStays DEF Beside, Standing
<1>3. ASSUME NEW r \in Requests, WriteFile(r) PROVE OutSound'
  <2>1. Beside(r)
    BY <1>3, StepsBeside
  <2>2. \A q \in Requests : pc[q] \in Working \/ pc'[q] \in Working => pc'[q] = pc[q]
    BY <1>3, <2>1 DEF Beside, Values
  <2>3. Storers' = Storers /\ (Compiling => Compiling') /\ (Transpiling => Transpiling')
    BY <2>2 DEF Working, Storers, Compiling, Transpiling
  <2>4. lang = "native" => \A q \in Requests : ~Turns(q, "out")
    BY <2>2 DEF Turns, Working, Transpile, Store
  <2>5. lang = "native" /\ OutNeeded' => OutNeeded
    BY <2>3, <2>4, NotNewlyNeeded DEF OutNeeded
  <2> QED
    BY <2>1, <2>3, <2>5, MarkerStays DEF Beside, Standing
<1>4. ASSUME NEW r \in Requests, WriteMarker(r) PROVE OutSound'
  <2>1. Beside(r)
    BY <1>4, StepsBeside
  <2>2. \A q \in Requests : pc[q] \in Working \/ pc'[q] \in Working => pc'[q] = pc[q]
    BY <1>4, <2>1 DEF Beside, Values
  <2>3. Storers' = Storers /\ (Compiling => Compiling') /\ (Transpiling => Transpiling')
    BY <2>2 DEF Working, Storers, Compiling, Transpiling
  <2>4. lang = "native" => \A q \in Requests : ~Turns(q, "out")
    BY <2>2 DEF Turns, Working, Transpile, Store
  <2>5. lang = "native" /\ OutNeeded' => OutNeeded
    BY <2>3, <2>4, NotNewlyNeeded DEF OutNeeded
  <2> QED
    BY <2>1, <2>3, <2>5, MarkerStays DEF Beside, Standing
<1>5. ASSUME NEW r \in Requests, Interpret(r) PROVE OutSound'
  <2>1. Beside(r)
    BY <1>5, StepsBeside
  <2>2. \A q \in Requests : pc[q] \in Working \/ pc'[q] \in Working => pc'[q] = pc[q]
    BY <1>5, <2>1 DEF Beside, Values
  <2>3. Storers' = Storers /\ (Compiling => Compiling') /\ (Transpiling => Transpiling')
    BY <2>2 DEF Working, Storers, Compiling, Transpiling
  <2>4. lang = "native" => \A q \in Requests : ~Turns(q, "out")
    BY <2>2 DEF Turns, Working, Transpile, Store
  <2>5. lang = "native" /\ OutNeeded' => OutNeeded
    BY <2>3, <2>4, NotNewlyNeeded DEF OutNeeded
  <2> QED
    BY <2>1, <2>3, <2>5, MarkerStays DEF Beside, Standing
<1>6. ASSUME NEW r \in Requests, Transpile(r) PROVE OutSound'
  <2>1. lang = "typescript" /\ lang' = lang /\ valid' = valid /\ cut' = cut
    BY <1>6 DEF Transpile, ghosts
  <2>2. ~Transpiling => work.out # "part" \/ cut \/ ~valid
    BY <2>1
  <2>3. CASE valid
    <3>1. \/ pc[r] = "build" /\ pc' = [pc EXCEPT ![r] = "launch"] /\ work' = work
          \/ pc' = [pc EXCEPT ![r] = "transpile"]
          \/ work'.out = "whole"
      BY <1>6, <2>3 DEF Transpile, Goto, Resolved, Values, Forms
    <3>2. CASE pc[r] = "build" /\ pc' = [pc EXCEPT ![r] = "launch"] /\ work' = work
      <4>1. Transpiling => Transpiling'
        BY <1>6, <3>2 DEF Transpiling, Values
      <4> QED
        BY <2>1, <2>2, <3>2, <4>1
    <3>3. CASE pc' = [pc EXCEPT ![r] = "transpile"]
      BY <1>6, <2>1, <3>3 DEF Transpiling, Values
    <3>4. CASE work'.out = "whole"
      BY <2>1, <3>4
    <3> QED
      BY <3>1, <3>2, <3>3, <3>4
  <2> QED
    BY <2>1, <2>3
<1>7. ASSUME NEW r \in Requests, LookupBinary(r) PROVE OutSound'
  <2>1. lang = "native" /\ lang' = lang /\ valid' = valid /\ cut' = cut /\ pc[r] = "build"
    BY <1>7 DEF LookupBinary
  <2>2. CASE pc' = [pc EXCEPT ![r] = "compile"]
    BY <1>7, <2>1, <2>2 DEF Compiling, Values
  <2>3. CASE pc' = [pc EXCEPT ![r] = "launch"] /\ work' = work
    <3>1. Storers' = Storers /\ (Compiling => Compiling')
      BY <1>7, <2>1, <2>3 DEF Storers, Compiling, Values
    <3>2. \A q \in Requests : ~Turns(q, "out")
      BY <1>7, <2>1, <2>3 DEF Turns, Transpile, Store, Values
    <3>3. OutNeeded' => OutNeeded
      BY <3>1, <3>2, NotNewlyNeeded DEF OutNeeded
    <3> QED
      BY <2>1, <2>3, <3>1, <3>3
  <2> QED
    BY <1>7, <2>2, <2>3 DEF LookupBinary, Goto, Resolved
<1>8. ASSUME NEW r \in Requests, Compile(r) PROVE OutSound'
  <2>1. lang = "native" /\ lang' = lang /\ valid' = valid
    BY <1>8 DEF Compile, Stages
  <2>2. valid => work'.out = "whole"
    BY <1>8 DEF Compile, Values, Forms
  <2> QED
    BY <2>1, <2>2
<1>9. ASSUME NEW r \in Requests, Store(r) PROVE OutSound'
  <2>1. lang = "native" /\ lang' = lang /\ valid' = valid /\ cut' = cut /\ work' = work
    BY <1>9 DEF Store, Stages
  <2>2. pc[r] \in {"copy", "hash", "sha"} /\ \E x \in {"hash", "sha", "launch"} : pc' = [pc EXCEPT ![r] = x]
    BY <1>9 DEF Store, Goto, Resolved
  <2>3. Compiling => Compiling'
    BY <1>9, <2>2 DEF Compiling, Values
  <2>4. OutNeeded
    BY <1>9, <2>2 DEF OutNeeded, Storers
  <2> QED
    BY <2>1, <2>3, <2>4
<1>10. ASSUME NEW r \in Requests, Launch(r) PROVE OutSound'
  <2>1. Beside(r)
    BY <1>10, StepsBeside
  <2>2. \A q \in Requests : pc[q] \in Working \/ pc'[q] \in Working => pc'[q] = pc[q]
    BY <1>10, <2>1 DEF Beside, Values
  <2>3. Storers' = Storers /\ (Compiling => Compiling') /\ (Transpiling => Transpiling')
    BY <2>2 DEF Working, Storers, Compiling, Transpiling
  <2>4. lang = "native" => \A q \in Requests : ~Turns(q, "out")
    BY <2>2 DEF Turns, Working, Transpile, Store
  <2>5. lang = "native" /\ OutNeeded' => OutNeeded
    BY <2>3, <2>4, NotNewlyNeeded DEF OutNeeded
  <2> QED
    BY <2>1, <2>3, <2>5, MarkerStays DEF Beside, Standing
<1>11. ASSUME NEW g \in Engines, Crash(g) PROVE OutSound'
  <2> SUFFICES ASSUME ~cut', valid
               PROVE  /\ lang = "typescript" /\ work'.out = "part" => Transpiling'
                      /\ lang = "native" /\ OutNeeded' => work'.out = "whole" \/ Compiling'
    BY MarkerStays DEF Standing
  <2>1. ~cut
    BY <1>11, CrashHeals
  <2>2. CASE \E b \in Builders : EngineOf[b] = g
    <3>1. lang # "typescript"
      BY <1>11, <2>2, CrashHeals
    <3>2. ~OutNeeded'
      BY <1>11, <2>2, OutNotNeeded
    <3> QED
      BY <3>1, <3>2
  <2>3. CASE ~\E b \in Builders : EngineOf[b] = g
    <3>1. work'.out = work.out
      BY <1>11, <2>3, CrashLeaves
    <3>2. \A q \in Requests : pc[q] \in {"compile", "transpile"} => pc'[q] = pc[q]
      BY <1>11, <2>3, CrashLeaves, ZenonT(30) DEF Builders
    <3>3. (Compiling => Compiling') /\ (Transpiling => Transpiling')
      BY <3>2 DEF Compiling, Transpiling
    <3>4. OutNeeded' => OutNeeded
      <4>1. Storers' # {} => Storers # {}
        BY <1>11, CrashLeaves, ZenonT(30) DEF Storers
      <4>2. \A h \in Engines : Uses(h, "out")' => Uses(h, "out")
        BY <1>11, CrashEffect DEF NoNewUse, Vias
      <4> QED
        BY <4>1, <4>2 DEF OutNeeded
    <3> QED
      BY <2>1, <3>1, <3>3, <3>4
  <2> QED
    BY <2>2, <2>3
<1>12. CASE UNCHANGED resolverVars
  BY <1>12 DEF resolverVars, OutNeeded, Storers, Uses, Compiling, Transpiling
<1> HIDE DEF OutSound
<1> QED
  BY <1>1, <1>2, <1>3, <1>4, <1>5, <1>6, <1>7, <1>8, <1>9, <1>10, <1>11, <1>12
  DEF ResolverNext

-----------------------------------------------------------------------------
(* The theorems                                                            *)

LEMMA ResolverInvInit == ResolverInit => ResolverInv
<1> SUFFICES ASSUME ResolverInit PROVE ResolverInv
  OBVIOUS
<1>1. \A r \in Requests : pc[r] = "new" /\ spec[r] = None /\ got[r] = None /\ pos[r] = 1
  BY DEF ResolverInit
<1>2. Values
  <2>1. pc \in [Requests -> Places] /\ got \in [Requests -> Contents \cup {None}]
    BY DEF ResolverInit, Places, Idle
  <2>2. pos \in [Requests -> 1..Files] /\ crashes \in 0..MaxCrashes
    BY EngineAssumption DEF ResolverInit
  <2>3. work \in Forms /\ bin \in [bin : Contents, sha : Contents]
    BY DEF ResolverInit, Forms, Contents
  <2> QED
    BY <2>1, <2>2, <2>3 DEF ResolverInit, Values
<1>3. Launching /\ OneAtATime
  BY <1>1 DEF ResolverInit, Launching, OneAtATime, Idle
<1>4. Caching /\ \A g \in Engines, k \in Keys : cache[g][k] = None
  BY DEF ResolverInit, Caching, NoSpecs, Keys
<1>5. \A g \in Engines, via \in Vias : ~Uses(g, via)
  BY <1>1, <1>4 DEF Uses
<1>6. Ways
  BY <1>1, <1>5 DEF Ways, Stages, Vias
<1>7. Writers = {} /\ Storers = {} /\ Copying = {} /\ work.marker = FALSE
  BY <1>1 DEF Writers, Storers, Copying, ResolverInit
<1>8. LateWriters /\ FilesSound
  BY <1>7 DEF LateWriters, FilesSound
<1>9. OutSound
  BY <1>5, <1>7 DEF OutSound, OutNeeded, Vias, ResolverInit
<1>10. DigestSound /\ HandleSound /\ LookupVerified
  BY <1>1, <1>7 DEF DigestSound, HandleSound, LookupVerified, ResolverInit
<1> QED
  BY <1>2, <1>3, <1>4, <1>6, <1>8, <1>9, <1>10 DEF ResolverInv

LEMMA ResolverInvStep == ResolverInv /\ [ResolverNext]_resolverVars => ResolverInv'
<1> SUFFICES ASSUME ResolverInv, [ResolverNext]_resolverVars PROVE ResolverInv'
  OBVIOUS
<1> USE DEF ResolverInv
<1>1. Values' /\ OneAtATime'
  BY ValuesKept, OneAtATimeKept
<1>2. Ways' /\ Effect
  BY WaysKept
<1>3. Launching' /\ Caching'
  BY <1>2 DEF Effect
<1>4. LateWriters' /\ FilesSound'
  BY LateWritersKept, FilesSoundKept
<1>5. Stages
  BY DEF Ways, Stages
<1>8. OutSound'
  BY <1>2, <1>5, OutSoundKept
<1>9. DigestSound' /\ HandleSound' /\ LookupVerified'
  BY <1>5, DigestSoundKept, HandleSoundKept, LookupVerifiedKept
<1> QED
  BY <1>1, <1>2, <1>3, <1>4, <1>8, <1>9

(* The inductive invariant holds for any number of engines, requests, files and crashes. *)
THEOREM ResolverSafe == ResolverSpec => []ResolverInv
BY ResolverInvInit, ResolverInvStep, PTL DEF ResolverSpec

(* Every value keeps its type, a request has a spec exactly while it launches, and no engine   *)
(* caches a spec that needs the frame of a zygote request (resolve_opts, resolved_cache_key).  *)
THEOREM ResolverTyped == ResolverSpec => []ResolverTypeOK
<1>1. ResolverInv => ResolverTypeOK
  <2> SUFFICES ASSUME ResolverInv PROVE ResolverTypeOK
    OBVIOUS
  <2> USE DEF ResolverInv
  <2>1. ASSUME NEW g \in Engines, NEW r \in Requests, cache[g][Key(r)] # None
        PROVE  cache[g][Key(r)].via \in {"files", "out", "fd"}
    <3>1. PICK k \in Keys : k = Key(r)
      BY DEF Keys
    <3>2. PICK s : s = cache[g][k]
      OBVIOUS
    <3>3. s \in SpecsUnder(g, k)
      BY <2>1, <3>1, <3>2 DEF Caching
    <3>4. s.via \in {"files", "out", "fd"}
      BY <3>3, SpecsUnderForm DEF Vias
    <3> QED
      BY <3>1, <3>2, <3>4
  <2>2. \A r \in Requests : (spec[r] # None) = (pc[r] = "launch")
    <3> SUFFICES ASSUME NEW r \in Requests PROVE (spec[r] # None) = (pc[r] = "launch")
      OBVIOUS
    <3>1. PICK s : s = spec[r]
      OBVIOUS
    <3>2. CASE pc[r] = "launch"
      <4>1. s \in SpecsFor(r)
        BY <3>1, <3>2 DEF Launching
      <4>2. s # None
        BY <4>1, SpecsForForm
      <4> QED
        BY <3>1, <3>2, <4>2
    <3>3. CASE pc[r] # "launch"
      BY <3>3 DEF Launching
    <3> QED
      BY <3>2, <3>3
  <2>3. /\ lang \in Langs /\ valid \in BOOLEAN /\ pc \in [Requests -> Places] /\ pos \in [Requests -> 1..Files]
        /\ handle \subseteq Engines /\ crashes \in 0..MaxCrashes
    BY DEF Values
  <2>4. work.files \in [1..Files -> Contents] /\ work.out \in Contents /\ bin.bin \in Contents /\ bin.sha \in Contents
    BY DEF Values, Forms
  <2> QED
    BY <2>1, <2>2, <2>3, <2>4 DEF ResolverTypeOK, Places
<1> QED
  BY <1>1, ResolverSafe, PTL

(* A request is launched as it asked but for the two fields a hit leaves stale: no cached spec *)
(* brings in another request's limits, volumes or deadline (resolved_cache_key and the patch   *)
(* of a hit).                                                                                  *)
THEOREM ResolverAsAsked == ResolverSpec => []SpecAsAsked
<1>1. ResolverInv => SpecAsAsked
  <2> SUFFICES ASSUME ResolverInv, NEW r \in Requests, pc[r] = "launch"
               PROVE  Keyed(spec[r].child) = Keyed(ChildSpec(r))
    BY DEF SpecAsAsked, Keyed
  <2>1. PICK s : s = spec[r]
    OBVIOUS
  <2>2. s \in SpecsFor(r)
    BY <2>1 DEF ResolverInv, Launching
  <2>3. Keyed(s.child) = Keyed(ChildSpec(r))
    BY <2>2, SpecsForForm
  <2> QED
    BY <2>1, <2>3
<1> QED
  BY <1>1, ResolverSafe, PTL

(* A binary that BinaryCache.lookup hands out was whole when it was verified, as long as no    *)
(* copy overlapped another or a compile (lookup, store).                                       *)
THEOREM ResolverVerified == ResolverSpec => []LookupVerified
<1>1. ResolverInv => LookupVerified
  BY DEF ResolverInv
<1> QED
  BY <1>1, ResolverSafe, PTL

(* A child finds its program whole when no engine is writing it, whatever was crashed and      *)
(* cached before, unless a crash cut it off in a way the resolver never heals                  *)
(* (materialize_work_dir, transpile_typescript, precompile, store).                            *)
THEOREM ResolverRunsWhole == ResolverSpec => []RunsWhole
<1>1. ResolverInv => RunsWhole
  <2> SUFFICES ASSUME ResolverInv, NEW r \in Requests, pc[r] = "launch",
                      Writers \cup Builders \cup Storers = {}, valid, ~cut,
                      spec[r].via = "fd" => ~mixed
               PROVE  Artefact(spec[r].via) = {"whole"}
    BY DEF RunsWhole
  <2> USE DEF ResolverInv
  <2>1. PICK s : s = spec[r]
    OBVIOUS
  <2>2. s \in SpecsFor(r)
    BY <2>1 DEF Launching
  <2>3. s.via \in Vias
    BY <2>2, SpecsForForm
  <2>4. PICK v \in Vias : v = spec[r].via
    BY <2>1, <2>3
  <2>5. EngineOf[r] \in Engines /\ Uses(EngineOf[r], v)
    BY <2>4, EngineAssumption DEF Uses
  <2>6. \A q \in Requests : pc[q] \notin {"write", "fill", "mark", "compile", "transpile", "copy", "hash", "sha"}
    BY DEF Writers, Builders, Storers
  <2>7. CASE v = "frame"
    BY <2>4, <2>7 DEF Artefact
  <2>8. CASE v = "files"
    <3>1. work.marker
      BY <2>5, <2>8 DEF Ways
    <3>2. \A i \in 1..Files : work.files[i] = "whole"
      BY <2>6, <3>1 DEF FilesSound, Sound
    <3>3. 1 \in 1..Files
      BY EngineAssumption
    <3>4. {work.files[i] : i \in 1..Files} = {"whole"}
      BY <3>2, <3>3
    <3> QED
      BY <2>4, <2>8, <3>4 DEF Artefact
  <2>9. CASE v = "out"
    <3>1. lang \in {"typescript", "native"} /\ (lang = "typescript" => work.out # "none")
      BY <2>5, <2>9 DEF Ways
    <3>2. work.out \in Contents
      BY DEF Values, Forms
    <3>3. work.out = "whole"
      BY <2>5, <2>6, <2>9, <3>1, <3>2 DEF OutSound, OutNeeded, Compiling, Transpiling, Contents
    <3> QED
      BY <2>4, <2>9, <3>3 DEF Artefact
  <2>10. CASE v = "fd"
    <3>1. handle # {} /\ ~mixed
      BY <2>4, <2>5, <2>10 DEF Ways
    <3>2. bin.bin = "whole"
      BY <2>6, <3>1 DEF HandleSound
    <3> QED
      BY <2>4, <2>10, <3>2 DEF Artefact
  <2> QED
    BY <2>7, <2>8, <2>9, <2>10 DEF Vias
<1> QED
  BY <1>1, ResolverSafe, PTL
=============================================================================
