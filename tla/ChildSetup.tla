----------------------------- MODULE ChildSetup -----------------------------
(***************************************************************************)
(* daemon_child_setup: from fork(2) to execve(2), in the child of cyberd   *)
(* which is to become a daemon with the configuration that was parsed.     *)
(*                                                                         *)
(* One action is one system call, or the failure of one, which ends the    *)
(* child by err(-1, ...).  open(2), chdir(2) and execve(2) may fail for    *)
(* reasons in the file system; setuid(2), setgid(2) and setpriority(2)     *)
(* fail for want of privileges only; dup2(2), sigprocmask(2) and, in a     *)
(* child which leads no group, setsid(2) do not fail.                      *)
(*                                                                         *)
(* An operator named Wrong... is a bug which the one after it does not     *)
(* have: no module uses it, it is there to be put in its place, so that    *)
(* the properties are seen to fail.                                        *)
(***************************************************************************)
EXTENDS DaemonConf

CONSTANTS
  Files,    \* files which the daemon may be configured by
  Name,     \* the name of the daemon
  DevNull,  \* CONFIG_DAEMON_DEV_NULL
  Root,     \* CONFIG_DAEMON_DEFAULT_WORKDIR
  Console,  \* what process 1 has for its standard streams, if anything
  Socket,   \* an endpoint, a connection, the directory or the log of cyberd
  Source,   \* the file of the daemon
  MaxUsed,  \* the greatest descriptor which cyberd may be using
  SIGKILL

ASSUME NumbersAssumption == MaxUsed \in Nat
ASSUME FilesAssumption == Files \subseteq Seq(Seq(STRING \cap Chars))

VARIABLES
  table,  \* the open descriptors of cyberd, which fork(2) copies
  call,   \* the call which is next; "none" before fork, "run" after execve
  ended,  \* the cause of the child's end
  fds,    \* its descriptors: the open file, and whether execve(2) closes it
  std,    \* infd, outfd and errfd
  proc    \* the rest of what the kernel knows of it

childVars == <<table, call, ended, fds, std, proc>>
configurationVars == <<parserVars, conf, argumentsVars>>

File(f, cloexec) == [file |-> f, cloexec |-> cloexec]

(* Wrong: connections stay open in the daemons (socket_endpoint_node.c:43).  *)
WrongOwn(f) == File(f, f # Socket)

(* What cyberd opens: its sockets, the log and the directory are closed by   *)
(* execve(2); the file, which configuration_fopenat has open when a scan     *)
(* starts a daemon, is not.                                                  *)
Own(f) == File(f, f = Socket)

(* The signals which cyberd has handlers for, and blocks. *)
Handled == {Signo[<<"TERM">>], Signo[<<"HUP">>], Signo[<<"CHLD">>]}

(* cyberd's own, which fork(2) copies. *)
Inherited ==
  [uid |-> 0, gid |-> 0, umask |-> 18, cwd |-> Root, blocked |-> Handled, pending |-> {},
   leader |-> FALSE, priority |-> 0, path |-> NULL, argv |-> << >>, envp |-> << >>]

ChildInit ==
  /\ call = "none" /\ ended = "no" /\ fds = << >> /\ table = << >> /\ proc = Inherited
  /\ std = [in |-> 0, out |-> 0, err |-> 0]

(* Any descriptors may be in use, as sockets come and go.  Without a console *)
(* they begin at 0.                                                          *)
Fork ==
  /\ call = "none" /\ parse = "parsed"
  /\ \E used \in SUBSET (0..MaxUsed), streams \in {{}, 0..2} :
       \E source \in {{}} \cup {{d} : d \in used \ streams} :
         table' = [d \in used \cup streams |->
                      CASE d \in streams -> Own(Console)
                        [] d \in source -> Own(Source)
                        [] OTHER -> Own(Socket)]
  /\ fds' = table' /\ call' = "open in"
  /\ UNCHANGED <<ended, std, proc, configurationVars>>

-----------------------------------------------------------------------------

(* What is used, also where the configuration does not say it.               *)
InFile == IF conf.in = NULL THEN DevNull ELSE conf.in
OutFile == IF conf.out = NULL THEN DevNull ELSE conf.out
ErrFile == IF conf.err = NULL THEN OutFile ELSE conf.err
Workdir == IF conf.workdir = NULL THEN Root ELSE conf.workdir
Argv == IF conf.arguments = << >> THEN <<Name>> ELSE conf.arguments

(* The call c succeeds, and next is the one behind it. *)
Then(c, next) ==
  /\ call = c /\ ended = "no"
  /\ call' = next /\ UNCHANGED <<table, ended, configurationVars>>

(* open(2) of f, to the least descriptor which is not in use. *)
Open(f, s) ==
  /\ \E d \in 0..Cardinality(DOMAIN fds) :
       /\ d \notin DOMAIN fds /\ 0..d - 1 \subseteq DOMAIN fds
       /\ fds' = [e \in DOMAIN fds \cup {d} |-> IF e = d THEN File(f, TRUE) ELSE fds[e]]
       /\ std' = [std EXCEPT ![s] = d]
  /\ UNCHANGED proc

OpenIn == Then("open in", "open out") /\ Open(InFile, "in")
OpenOut == Then("open out", "open err") /\ Open(OutFile, "out")
OpenErr ==
  /\ Then("open err", "dup2 in")
  /\ IF conf.err = NULL
     THEN std' = [std EXCEPT !.err = std.out] /\ UNCHANGED <<fds, proc>>
     ELSE Open(conf.err, "err")

(* dup2(2) gives n a copy which execve(2) does not close; on one and the     *)
(* same descriptor it does nothing.                                          *)
Dup2(s, n) ==
  /\ fds' = IF std[s] = n THEN fds
            ELSE [d \in DOMAIN fds \cup {n} |->
                    IF d = n THEN File(fds[std[s]].file, FALSE) ELSE fds[d]]
  /\ UNCHANGED <<std, proc>>

(* Wrong: the standard input is made from the wrong descriptor.              *)
WrongDup2In == Then("dup2 in", "dup2 out") /\ Dup2("out", 0)

Dup2In == Then("dup2 in", "dup2 out") /\ Dup2("in", 0)
Dup2Out == Then("dup2 out", "dup2 err") /\ Dup2("out", 1)
Dup2Err == Then("dup2 err", "umask") /\ Dup2("err", 2)

Change(p) == proc' = p /\ UNCHANGED <<fds, std>>

SetUmask == Then("umask", "chdir") /\ Change([proc EXCEPT !.umask = conf.umask])

Chdir == Then("chdir", "sigprocmask") /\ Change([proc EXCEPT !.cwd = Workdir])

(* daemon_child_sigprocmask: cyberd's handlers take what was pending. *)
Sigprocmask ==
  /\ Then("sigprocmask", "setuid")
  /\ Change([proc EXCEPT !.blocked = {}, !.pending = {}])

SetUid == Then("setuid", "setgid") /\ Change([proc EXCEPT !.uid = conf.uid])

MaySetGid == proc.uid = 0 \/ conf.gid = proc.gid
MaySetPriority == proc.uid = 0 \/ conf.priority >= proc.priority

(* Wrong: a group which cannot be had is done without.                       *)
WrongSetGid ==
  /\ Then("setgid", "setsid")
  /\ Change([proc EXCEPT !.gid = IF MaySetGid THEN conf.gid ELSE @])

SetGid == Then("setgid", "setsid") /\ MaySetGid /\ Change([proc EXCEPT !.gid = conf.gid])

SetSid == Then("setsid", "setpriority") /\ Change([proc EXCEPT !.leader = ~conf.nosid])

SetPriority ==
  /\ Then("setpriority", "execve") /\ MaySetPriority
  /\ Change([proc EXCEPT !.priority = conf.priority])

Execve ==
  /\ Then("execve", "run")
  /\ fds' = [d \in {e \in DOMAIN fds : ~fds[e].cloexec} |-> fds[d]]
  /\ proc' = [proc EXCEPT !.path = conf.path, !.argv = Argv, !.envp = conf.environment]
  /\ UNCHANGED std

Fails ==
  \/ call \in {"open in", "open out", "chdir", "execve"}
  \/ call = "open err" /\ conf.err # NULL
  \/ call = "setgid" /\ ~MaySetGid
  \/ call = "setpriority" /\ ~MaySetPriority

(* Wrong: the child of a daemon which cannot be set up ends with a success.  *)
WrongErr ==
  /\ ended = "no" /\ Fails
  /\ ended' = "exitsuccess"
  /\ UNCHANGED <<table, call, fds, std, proc, configurationVars>>

(* err(-1, ...) *)
Err ==
  /\ ended = "no" /\ Fails
  /\ ended' = "exitfailure"
  /\ UNCHANGED <<table, call, fds, std, proc, configurationVars>>

(* cyberd stops, reloads or ends the daemon before it is one.  A signal with *)
(* a handler of cyberd's waits, or is lost; another one may end the child.   *)
Signal ==
  /\ call \notin {"none", "run"} /\ ended = "no"
  /\ \E s \in {conf.sigfinish, conf.sigreload, SIGKILL} \cap 1..NSIG - 1 :
       \/ /\ s \in proc.blocked
          /\ proc' = [proc EXCEPT !.pending = @ \cup {s}] /\ UNCHANGED ended
       \/ /\ s \notin proc.blocked \cup Handled
          /\ ended' \in (IF s = SIGKILL THEN {"killed"} ELSE {"killed", "dumped"})
          /\ UNCHANGED proc
  /\ UNCHANGED <<table, call, fds, std, configurationVars>>

ChildNext ==
  \/ OpenIn \/ OpenOut \/ OpenErr \/ Dup2In \/ Dup2Out \/ Dup2Err
  \/ SetUmask \/ Chdir \/ Sigprocmask \/ SetUid \/ SetGid \/ SetSid \/ SetPriority \/ Execve
  \/ Err \/ Signal

Init == ParserInit(Files) /\ ChildInit
Next == (ParserNext /\ UNCHANGED childVars) \/ Fork \/ ChildNext
Spec == Init /\ [][Next]_<<configurationVars, childVars>>

-----------------------------------------------------------------------------
(* Properties. *)

Calls ==
  {"none", "open in", "open out", "open err", "dup2 in", "dup2 out", "dup2 err", "umask", "chdir",
   "sigprocmask", "setuid", "setgid", "setsid", "setpriority", "execve", "run"}

(* The types of the parser's and of the child's state, and that the child    *)
(* exists only once the file has been parsed.                                *)
TypeOK ==
  /\ parse \in {"reading", "expanding", "parsed", "failed"}
  /\ line \in 1..Len(file) + 1 /\ section \in Sections \cup {NULL}
  /\ call \in Calls /\ ended \in {"no", "exitfailure", "killed", "dumped"}
  /\ call # "none" => parse = "parsed"
  /\ ended # "no" => call \notin {"none", "run"}
  /\ std \in [{"in", "out", "err"} -> Nat]
  /\ \A d \in DOMAIN fds : d \in Nat /\ fds[d].cloexec \in BOOLEAN

(* Whatever the order of the calls and the signals that come in between      *)
(* (daemon.c:120-154), a program is run only with all that its configuration *)
(* says, with no signal blocked or left pending from cyberd: a call which    *)
(* fails, or is refused, is never gone over.                                 *)
RunsAsConfigured ==
  call = "run" =>
    proc = [uid |-> conf.uid, gid |-> conf.gid, umask |-> conf.umask,
            cwd |-> Workdir, blocked |-> {}, pending |-> {}, leader |-> ~conf.nosid,
            priority |-> conf.priority, path |-> conf.path, argv |-> Argv,
            envp |-> conf.environment]

IsStream(d, f) == d \in DOMAIN fds /\ fds[d].file = f

(* The program has its standard streams, unless cyberd itself runs without:  *)
(* dup2(2) on a descriptor which is in its place already leaves it to be     *)
(* closed by execve(2) (daemon.c:104-112).  That is so exactly when 0 is not *)
(* in use by cyberd, or neither 1 nor 2 and standard error is a copy.        *)
StreamsAreThere ==
  call = "run" =>
    (IsStream(0, InFile) /\ IsStream(1, OutFile) /\ IsStream(2, ErrFile)
       <=> 0 \in DOMAIN table /\ (DOMAIN table \cap {1, 2} # {} \/ conf.err # NULL))

(* No socket of cyberd, nor the console, gets to a program.  The file of the *)
(* daemon, which is open when a scan starts it, does (configuration.c:149    *)
(* opens it without O_CLOEXEC).                                              *)
InheritsNothingElse ==
  call = "run" =>
    \A d \in DOMAIN fds :
      \/ fds[d].file \in {InFile, OutFile, ErrFile}
      \/ d \in DOMAIN table /\ fds[d].file = Source /\ table[d].file = Source

Ends == {"exitsuccess", "exitfailure", "killed", "dumped"}
K == INSTANCE Kernel WITH
  Names <- {Name}, Rc <- NULL, Orphan <- Socket, Pids <- {1}, NoPid <- 0, Sigvals <- {},
  Causes <- Ends,
  proc <- [p \in {1} |->
    [status |-> CASE ended # "no" -> ended [] call = "none" -> "free"
                  [] ended = "no" /\ call = "run" -> "running" [] OTHER -> "forked",
     prog |-> IF call = "none" THEN Socket ELSE Name, sigs |-> {}]],
  pending <- IF ended = "no" THEN {} ELSE {"CHLD"}, queued <- "PLAIN"

(* The child does what module Kernel takes a child to do, with which the     *)
(* whole of cyberd is checked: it runs its program, or it ends, and then not *)
(* with a success.                                                           *)
IsKernels ==
  [][Fork \/ K!Exec(1) \/ \E cause \in Ends : K!Exit(1, cause)]_(K!kernelVars)

(* daemon_conf.h:22, "Group-id the process will be executed with", and       *)
(* man/cyberd.5 on user, group and priority: a daemon with a user can have   *)
(* them all.                                                                 *)
CredentialsAreGot == ended = "exitfailure" => call \notin {"setgid", "setpriority"}
=============================================================================
