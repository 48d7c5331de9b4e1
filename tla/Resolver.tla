------------------------------ MODULE Resolver ------------------------------
(***************************************************************************)
(* From settings to a child that can be launched: resolve_opts of          *)
(* core/crates/engine/src/resolver/spec.rs, with the caches it fills: the  *)
(* resolved specs of an engine, the content-addressed work directory and   *)
(* the binary cache (core/crates/cache/src/binary_cache.rs), which all     *)
(* engines of the host share.                                              *)
(*                                                                         *)
(* Both shared caches are keyed by content, so that requests for different *)
(* programs touch different directories: the module is about the requests  *)
(* for one program.  An engine resolves one request at a time; engines     *)
(* resolve beside each other, and nothing on disk is locked.               *)
(*                                                                         *)
(* Abstractions: a file is missing, cut short or whole, since whoever      *)
(* writes it writes the same bytes; the digest of a file is its content.   *)
(* An engine that crashes takes the compiler it waits for with it.         *)
(***************************************************************************)
EXTENDS Naturals, FiniteSets

CONSTANTS
  Requests,   \* requests for the program
  Engines,
  EngineOf,   \* the engine a request goes to
  Settings,   \* the settings of each request, a value for each of Fields
  Langs,      \* "python", "typescript", "native"
  Files,      \* number of the program's files
  None,
  MaxCrashes  \* bound on crashes

(* Mutant: the volumes of a request are left out of the key. *)
KeyFieldsNoMounts ==
  {"runtime", "mode", "limits", "wall", "capabilities", "network", "env", "determinism", "observability"}

(* resolved_cache_key, next to the digest of the program and its language. *)
KeyFields ==
  {"runtime", "mode", "limits", "wall", "capabilities", "network", "filesystem", "env",
   "determinism", "observability"}

Fields == KeyFields \cup {"filesystem", "id", "secrets", "session"}

ASSUME SettingsAssumption ==
  /\ DOMAIN Settings = Requests /\ \A r \in Requests : DOMAIN Settings[r] = Fields
ASSUME EngineAssumption ==
  EngineOf \in [Requests -> Engines] /\ Files \in Nat \ {0} /\ MaxCrashes \in Nat
(* exec::run is reached in mode "exec" only; a session's cell and a worker are given that mode. *)
ASSUME ModeAssumption == \A r \in Requests : Settings[r].mode = "exec"

VARIABLES
  lang,      \* the program's language
  valid,     \* the program compiles
  pc,        \* how far a request is
  pos,       \* the file a request writes
  spec,      \* the resolved spec of a request: its ChildSpec, and what it executes
  cache,     \* RESOLVED_CACHE of each engine: a spec for each key
  handle,    \* engines whose BinaryCache holds a handle
  work,      \* the work directory: files, marker, and main or main.js
  bin,       \* main.bin and main.sha256 in the binary cache
  got,       \* what main.bin held when a request's lookup accepted it
  cut,       \* a crash left the program's artefacts half written in a way no later request heals
  mixed,     \* a copy into the binary cache has overlapped another, or a compile
  crashes

resolverVars == <<lang, valid, pc, pos, spec, cache, handle, work, bin, got, cut, mixed, crashes>>
ghosts == <<got, cut, mixed>>

Read(r, fields) == [f \in fields |-> Settings[r][f]]
Key(r) == Read(r, KeyFields)
NoSpecs == [k \in {Key(r) : r \in Requests} |-> None]
Contents == {"none", "part", "whole"}
Idle == {"new", "done", "failed"}
Built == {"compile", "copy", "hash", "sha", "launch"}

ResolverInit ==
  /\ lang \in Langs /\ valid \in BOOLEAN
  /\ pc = [r \in Requests |-> "new"] /\ pos = [r \in Requests |-> 1]
  /\ spec = [r \in Requests |-> None]
  /\ cache = [g \in Engines |-> NoSpecs] /\ handle = {}
  /\ work = [files |-> [i \in 1..Files |-> "none"], marker |-> FALSE, out |-> "none"]
  /\ bin = [bin |-> "none", sha |-> "none"]
  /\ got = [r \in Requests |-> None] /\ cut = FALSE /\ mixed = FALSE
  /\ crashes = 0

Goto(r, next) == pc' = [pc EXCEPT ![r] = next]
Writers == {r \in Requests : pc[r] \in {"write", "fill", "mark"}}
Builders == {r \in Requests : pc[r] \in {"compile", "transpile"}}
Storers == {r \in Requests : pc[r] \in {"copy", "hash", "sha"}}
Copying == {r \in Requests : pc[r] \in {"hash", "sha"}}
Overlap(r, with) == mixed' = (mixed \/ with \ {r} # {})

-----------------------------------------------------------------------------
(* The spec cache *)

(* What each part of a spec is computed from.  Cells and workers come with mode "exec" and *)
(* name their volume in filesystem.mounts. *)
EnvOf(r) == Read(r, {"runtime", "env", "secrets", "determinism"})
LimitsOf(r) == Read(r, {"limits", "capabilities", "mode"})
MountsOf(r) == Read(r, {"limits", "filesystem"} \cup (CASE Settings[r].mode = "session" -> {"session"}
                                                      [] Settings[r].mode = "rl" -> {"id"}
                                                      [] OTHER -> {}))
SeccompOf(r) == Read(r, {"mode"})
AppArmorOf(r) == Read(r, {"mode", "capabilities", "id"})

ChildSpec(r) ==
  [id |-> Settings[r].id, wall |-> Settings[r].wall, env |-> EnvOf(r), limits |-> LimitsOf(r),
   mounts |-> MountsOf(r), seccomp |-> SeccompOf(r), apparmor |-> AppArmorOf(r)]

Spec(r, via) == [child |-> ChildSpec(r), via |-> via]

(* A hit: the cached spec with the request's own id and deadline. *)
Patched(s, r) == [s EXCEPT !.child.id = Settings[r].id, !.child.wall = Settings[r].wall]
ASSUME NoneAssumption ==
  \A r, q \in Requests, via \in {"frame", "files", "out", "fd"} :
    None \notin {Spec(r, via), Patched(Spec(r, via), q)}
Cached(r) == cache[EngineOf[r]][Key(r)]

(* Mutant: a spec that was resolved without writing the program is cached as well. *)
CacheableAlways(materialize) == TRUE

(* Only materialised results are cached. *)
Cacheable(materialize) == materialize

Resolved(r, via, materialize) ==
  /\ spec' = [spec EXCEPT ![r] = Spec(r, via)]
  /\ cache' = IF Cacheable(materialize) THEN [cache EXCEPT ![EngineOf[r]][Key(r)] = Spec(r, via)] ELSE cache
  /\ Goto(r, "launch")

(* A miss materialises the program, unless the request goes to the zygote, which gets it in *)
(* its frame. *)
Lookup(r) ==
  /\ pc[r] = "new" /\ \A q \in Requests : EngineOf[q] = EngineOf[r] => pc[q] \in Idle
  /\ \/ /\ Cached(r) # None
        /\ spec' = [spec EXCEPT ![r] = Patched(Cached(r), r)]
        /\ Goto(r, "launch") /\ UNCHANGED cache
     \/ /\ Cached(r) = None /\ lang = "python"
        /\ Resolved(r, "frame", FALSE)
     \/ /\ Cached(r) = None
        /\ Goto(r, "marker") /\ UNCHANGED <<spec, cache>>
  /\ UNCHANGED <<lang, valid, pos, handle, work, bin, ghosts, crashes>>

-----------------------------------------------------------------------------
(* The work directory: materialize_work_dir *)

(* Mutant: the marker is written before the files. *)
CheckMarkerFirst(r) ==
  /\ pc[r] = "marker"
  /\ Goto(r, IF work.marker THEN "build" ELSE "write")
  /\ work' = [work EXCEPT !.marker = TRUE]
  /\ UNCHANGED <<lang, valid, pos, spec, cache, handle, bin, ghosts, crashes>>

(* A directory with the marker is taken as it is. *)
CheckMarker(r) ==
  /\ pc[r] = "marker"
  /\ Goto(r, IF work.marker THEN "build" ELSE "write")
  /\ pos' = [pos EXCEPT ![r] = 1]
  /\ UNCHANGED <<lang, valid, spec, cache, handle, work, bin, ghosts, crashes>>

(* Each file is truncated and written in place. *)
WriteFile(r) ==
  /\ \/ /\ pc[r] = "write" /\ Goto(r, "fill")
        /\ work' = [work EXCEPT !.files[pos[r]] = "part"] /\ UNCHANGED pos
     \/ /\ pc[r] = "fill" /\ Goto(r, IF pos[r] = Files THEN "mark" ELSE "write")
        /\ work' = [work EXCEPT !.files[pos[r]] = "whole"]
        /\ pos' = [pos EXCEPT ![r] = IF @ = Files THEN 1 ELSE @ + 1]
  /\ UNCHANGED <<lang, valid, spec, cache, handle, bin, ghosts, crashes>>

(* The marker comes last. *)
WriteMarker(r) ==
  /\ pc[r] = "mark"
  /\ work' = [work EXCEPT !.marker = TRUE]
  /\ Goto(r, "build")
  /\ UNCHANGED <<lang, valid, pos, spec, cache, handle, bin, ghosts, crashes>>

-----------------------------------------------------------------------------
(* Transpiling, compiling and the binary cache *)

Interpret(r) ==
  /\ pc[r] = "build" /\ lang = "python"
  /\ Resolved(r, "files", TRUE)
  /\ UNCHANGED <<lang, valid, pos, handle, work, bin, ghosts, crashes>>

(* transpile_typescript: a main.js that exists is taken as it is; a failure removes it. *)
Transpile(r) ==
  /\ lang = "typescript"
  /\ \/ /\ pc[r] = "build" /\ work.out # "none"
        /\ Resolved(r, "out", TRUE) /\ UNCHANGED work
     \/ /\ pc[r] = "build" /\ work.out = "none"
        /\ work' = [work EXCEPT !.out = "part"]
        /\ Goto(r, "transpile") /\ UNCHANGED <<spec, cache>>
     \/ /\ pc[r] = "transpile" /\ valid
        /\ work' = [work EXCEPT !.out = "whole"]
        /\ Resolved(r, "out", TRUE)
     \/ /\ pc[r] = "transpile" /\ ~ valid
        /\ work' = [work EXCEPT !.out = "none"]
        /\ Goto(r, "failed") /\ UNCHANGED <<spec, cache>>
  /\ UNCHANGED <<lang, valid, pos, handle, bin, ghosts, crashes>>

(* Mutant: a digest that is there will do. *)
VerifiedPresence(b) == b.sha # "none" /\ b.bin # "none"

(* BinaryCache.lookup compares the digest of main.bin with main.sha256. *)
Verified(b) == b.sha # "none" /\ b.bin # "none" /\ b.bin = b.sha

(* A hit executes the verified fd, a miss compiles. *)
LookupBinary(r) ==
  /\ pc[r] = "build" /\ lang = "native"
  /\ IF EngineOf[r] \in handle \/ Verified(bin)
       THEN /\ handle' = handle \cup {EngineOf[r]}
            /\ got' = [got EXCEPT ![r] = IF EngineOf[r] \in handle THEN None ELSE bin.bin]
            /\ Resolved(r, "fd", TRUE) /\ UNCHANGED work
       ELSE /\ work' = [work EXCEPT !.out = "part"]
            /\ Goto(r, "compile") /\ UNCHANGED <<handle, got, spec, cache>>
  /\ Overlap(r, Storers)
  /\ UNCHANGED <<lang, valid, pos, bin, cut, crashes>>

(* precompile and run_compile, which tries again without the linker flag. *)
Compile(r) ==
  /\ pc[r] = "compile"
  /\ \/ valid /\ work' = [work EXCEPT !.out = "whole"] /\ Goto(r, "copy")
     \/ ~ valid /\ work' = [work EXCEPT !.out = "none"] /\ Goto(r, "failed")
  /\ UNCHANGED <<lang, valid, pos, spec, cache, handle, bin, ghosts, crashes>>

(* BinaryCache.store: copy over main.bin in place, hash what is there then, write the digest. *)
(* Its errors are ignored; the request executes /sandbox/main in any case. *)
Store(r) ==
  /\ \/ /\ pc[r] = "copy" /\ Goto(r, "hash")
        /\ bin' = [bin EXCEPT !.bin = "part"] /\ UNCHANGED <<handle, spec, cache>>
     \/ /\ pc[r] = "hash" /\ Goto(r, "sha")
        /\ bin' = [bin EXCEPT !.bin = work.out]
        /\ UNCHANGED <<handle, spec, cache>>
     \/ /\ pc[r] = "sha"
        /\ bin' = [bin EXCEPT !.sha = bin.bin] /\ handle' = handle \cup {EngineOf[r]}
        /\ Resolved(r, "out", TRUE)
     \/ /\ pc[r] = "copy" /\ Resolved(r, "out", TRUE) /\ UNCHANGED <<bin, handle>>
  /\ Overlap(r, Builders \cup Copying)
  /\ UNCHANGED <<lang, valid, pos, work, got, cut, crashes>>

-----------------------------------------------------------------------------
(* The child starts: it opens the program. *)
Launch(r) ==
  /\ pc[r] = "launch"
  /\ Goto(r, "done") /\ spec' = [spec EXCEPT ![r] = None] /\ got' = [got EXCEPT ![r] = None]
  /\ UNCHANGED <<lang, valid, pos, cache, handle, work, bin, cut, mixed, crashes>>

(* An engine dies, and comes back with empty caches.  What no later request heals: a file       *)
(* truncated in a directory that has its marker, or gets it from another writer; a main.js cut *)
(* short; a main.bin cut short under another engine's handle.  A compiler that dies may have     *)
(* truncated its output after another one had written it. *)
Crash(g) == LET mine == {r \in Requests : EngineOf[r] = g /\ pc[r] \notin Idle}
                others == Requests \ mine IN
  /\ crashes < MaxCrashes /\ mine # {}
  /\ crashes' = crashes + 1
  /\ pc' = [r \in Requests |-> IF r \in mine THEN "failed" ELSE pc[r]]
  /\ spec' = [r \in Requests |-> IF r \in mine THEN None ELSE spec[r]]
  /\ got' = [r \in Requests |-> IF r \in mine THEN None ELSE got[r]]
  /\ cache' = [cache EXCEPT ![g] = NoSpecs] /\ handle' = handle \ {g}
  /\ cut' = \/ cut
            \/ mine \cap Writers # {} /\ \E q \in others : pc[q] \notin {"new", "marker"}
            \/ mine \cap Builders # {} /\ (lang = "typescript" \/ \E q \in others : pc[q] \in Built \/ cache[EngineOf[q]] # NoSpecs)
            \/ mine \cap Storers # {} /\ handle \ {g} # {}
  /\ mixed' = (mixed \/ (mine \cap Builders # {} /\ others \cap Storers # {}))
  /\ \E out \in {work.out} \cup {"part" : r \in mine \cap Builders} : work' = [work EXCEPT !.out = out]
  /\ UNCHANGED <<lang, valid, pos, bin>>

ResolverNext ==
  \/ \E r \in Requests :
       \/ Lookup(r) \/ CheckMarker(r) \/ WriteFile(r) \/ WriteMarker(r)
       \/ Interpret(r) \/ Transpile(r) \/ LookupBinary(r) \/ Compile(r) \/ Store(r) \/ Launch(r)
  \/ \E g \in Engines : Crash(g)

ResolverSpec == ResolverInit /\ [][ResolverNext]_resolverVars

-----------------------------------------------------------------------------
(* Properties *)

(* Values, a request has a spec exactly while it launches, and what an engine caches can be    *)
(* executed without the frame of the zygote request it came from (resolve_opts' materialize).  *)
ResolverTypeOK ==
  /\ lang \in Langs /\ valid \in BOOLEAN
  /\ pc \in [Requests -> Idle \cup {"marker", "write", "fill", "mark", "build", "transpile", "compile",
                                    "copy", "hash", "sha", "launch"}]
  /\ pos \in [Requests -> 1..Files]
  /\ \A g \in Engines, r \in Requests :
       cache[g][Key(r)] = None \/ cache[g][Key(r)].via \in {"files", "out", "fd"}
  /\ handle \subseteq Engines
  /\ work.files \in [1..Files -> Contents] /\ work.out \in Contents
  /\ bin.bin \in Contents /\ bin.sha \in Contents
  /\ \A r \in Requests : (spec[r] # None) = (pc[r] = "launch")
  /\ crashes \in 0..MaxCrashes

(* What a spec executes, as it is on the disk now. *)
Artefact(via) == CASE via = "frame" -> {"whole"}
                   [] via = "files" -> {work.files[i] : i \in 1..Files}
                   [] via = "out" -> {work.out}
                   [] via = "fd" -> {bin.bin}

(* A child of a program that compiles finds it whole when it starts, whatever was crashed and  *)
(* cached before, unless another engine is writing the artefact at this moment or a crash cut  *)
(* it off for good (materialize_work_dir, transpile_typescript, precompile, store).            *)
RunsWhole == \A r \in Requests :
  pc[r] = "launch" /\ Writers \cup Builders \cup Storers = {} /\ valid /\ ~ cut /\ (spec[r].via = "fd" => ~ mixed)
    => Artefact(spec[r].via) = {"whole"}

(* A binary that the cache hands out was whole when it was verified, also after a crash in the *)
(* middle of a copy over an older binary; only a copy that overlaps another, or a compile,     *)
(* defeats the digest, which store takes of whatever is there (BinaryCache.lookup, store).     *)
LookupVerified == \A r \in Requests : ~ mixed => got[r] \in {None, "whole"}

(* Apart from the two fields a hit leaves stale (SpecIsOwn), a request is launched as it asked: *)
(* its id, deadline, limits, volumes and filter are its own, whatever an equal program was     *)
(* cached with; two sessions that run the same cell do not share a volume (resolved_cache_key).*)
SpecAsAsked == \A r \in Requests : pc[r] = "launch" =>
  LET Keyed(c) == [c EXCEPT !.env.secrets = None, !.apparmor.id = None]
  IN Keyed(spec[r].child) = Keyed(ChildSpec(r))

(* A request runs with its own environment: env::resolve puts resolved_secrets into the spec,  *)
(* and a hit in RESOLVED_CACHE patches the id and the deadline only.                           *)
SpecIsOwn == \A r \in Requests : pc[r] = "launch" => spec[r].child.env = EnvOf(r)
=============================================================================
