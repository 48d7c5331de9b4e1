---------------------------- MODULE Confinement ----------------------------
(***************************************************************************)
(* The layers a sandboxed process puts on itself before user code runs,    *)
(* and what each layer takes away from the ones after it.                  *)
(*                                                                         *)
(* Two processes do this: the child of SandboxLauncher::launch, up to its  *)
(* execve (core/crates/kernel/src/linux/launcher.rs, run_child), and the   *)
(* fork of the Python zygote, up to runpy (engine/src/modes/zygote.rs).    *)
(* A layer uses system calls and privileges; the seccomp filter refuses    *)
(* the calls its profile does not list, and the capability drop ends every *)
(* privileged call.  Only the system calls the layers themselves use are   *)
(* kept of the syscall tables.                                             *)
(***************************************************************************)
EXTENDS Naturals, Sequences, Functions

Profiles == {"interp_aot", "interp_jit", "native_jit", "go", "rl_step", "relaxed_compiler"}

(* BASE_SYSCALLS, cut to the calls of the setup. *)
BaseSyscalls == {"read", "write", "close", "openat", "mkdirat", "chdir", "prctl", "capset", "prlimit64"}

(* The tables for one kind of program, cut likewise: no mount, pivot_root or unshare in any. *)
ExtraSyscalls(profile) ==
  CASE profile \in {"interp_aot", "interp_jit", "rl_step"} -> {"prlimit64"}
    [] profile = "go" -> {"prlimit64", "prctl"}
    [] profile = "relaxed_compiler" -> {"prlimit64", "prctl", "dup"}
    [] OTHER -> {}

(* build_filter: every profile starts from the base table and adds execve; *)
(* only interpreters and compilers may also execveat.                      *)
Allowed(profile) ==
  BaseSyscalls \cup ExtraSyscalls(profile) \cup {"execve"}
    \cup (IF profile \in {"interp_aot", "interp_jit", "relaxed_compiler"}
            THEN {"execveat"} ELSE {})

(* SeccompProfileId::for_language; the workers of an episode get the interpreter's. *)
ProfileOf == [python |-> "interp_aot", typescript |-> "interp_jit", go |-> "go",
              rust |-> "native_jit", cpp |-> "native_jit", rl |-> "interp_aot"]

(* MountPlan::apply: the new root, the steps of the plan, pivot_root, a read-only root. *)
StepCalls == {"stat", "mkdir", "mknod", "mount"}
MountCalls == StepCalls \cup {"mkdir", "mount", "pivot_root", "chdir", "umount2", "rmdir"}

(* write_attr_exec, set_no_new_privs, drop_all_capabilities, apply_rlimits. *)
AppArmorCalls == {"openat", "write", "close"}
PrivsCalls == {"prctl"}
CapsCalls == {"prctl", "capset"}
RlimitCalls == {"prlimit64"}

(* The calls of each layer. *)
Syscalls ==
  [redirect |-> {"dup2"}, mounts |-> MountCalls, apparmor |-> AppArmorCalls, nnp |-> PrivsCalls,
   seccomp |-> {"seccomp"}, caps |-> CapsCalls, rlimits |-> RlimitCalls, exec |-> {"execve"},
   unshare |-> {"unshare"}, files |-> {"mkdirat", "openat", "write", "close"},
   runpy |-> {"read", "openat", "close"}]

(* Layers that need a capability in the child's user namespace, which it has *)
(* only once its parent wrote the id maps.  PR_CAPBSET_DROP is one of them.  *)
Privileged == {"mounts", "unshare", "caps"}

(* Mutant: the filter goes on before the mounts it forbids. *)
FilterFirstLayers(zygote) ==
  IF zygote THEN <<"redirect", "mounts", "nnp", "exec">>
  ELSE <<"redirect", "apparmor", "nnp", "seccomp", "mounts", "caps", "rlimits", "exec">>

(* run_child: the order of the layers; a zygote process stops after NO_NEW_PRIVS *)
(* (it confines each of its forks instead). *)
LauncherLayers(zygote) ==
  IF zygote THEN <<"redirect", "mounts", "nnp", "exec">>
  ELSE <<"redirect", "mounts", "apparmor", "nnp", "seccomp", "caps", "rlimits", "exec">>

(* middle and child of the zygote's shim. *)
ForkLayers ==
  <<"unshare", "redirect", "mounts", "files", "apparmor", "nnp", "seccomp", "caps",
    "rlimits", "runpy">>

Done(order, n) == {order[i] : i \in 1..n}

(* A layer cannot be put on: the filter in force refuses one of its calls, it *)
(* needs a privilege that was dropped or never granted, or it is the filter    *)
(* and NO_NEW_PRIVS is not set.                                                *)
Blocked(order, n, profile, maps) ==
  LET layer == order[n + 1]
      done  == Done(order, n)
  IN \/ "seccomp" \in done /\ ~(Syscalls[layer] \subseteq Allowed(profile))
     \/ layer \in Privileged /\ ("caps" \in done \/ ~maps)
     \/ layer = "seccomp" /\ ~({"nnp"} \subseteq done)

(* The layers user code must never run without. *)
Required == {"mounts", "nnp", "seccomp", "caps", "rlimits"}
=============================================================================
