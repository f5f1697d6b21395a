# cyberd in TLA+

cyberd is a small init: process 1 of a system, which starts daemons from a
directory of configuration files, starts them again when they end, is driven by
signals and through sockets in the file system, and ends in reboot(2). This
directory holds TLA+ modules of it, the TLC configurations which check them on
small instances, and proofs, checked by TLAPS, of what holds on all instances.

Paths are those of the repository: `src/cyberd/main.c:278` is line 278 of that
file. `PROJECT.json` names, for each definition, the lines it stands for.

1. [The system](#1-the-system)
2. [The modules](#2-the-modules)
3. [The runs](#3-the-runs)
4. [Fairness](#4-fairness)
5. [The proofs](#5-the-proofs)
6. [Where code and documentation disagree](#6-where-code-and-documentation-disagree)
7. [What is not modelled](#7-what-is-not-modelled)
8. [Plan](#8-plan)

## 1. The system

cyberd is one thread. What runs beside it, and makes it hard, are the children
it forked and those it inherited, the kernel which recycles their pids and lets
signals coalesce, the administrator who edits the directory and signals init,
the clients of its sockets, and one alarm.

| component | state | operations |
|---|---|---|
| main loop, `main.c` | the place in the code; the signal mask | `rc`, `setup`, the loop around pselect(2), `reap_children`, `teardown` |
| signals, `signals.c` | `sigreboot`, `sigchld`, `sighup`, `sigalrm`, the alarm | four handlers, `signals_setup`, `signals_alarm` |
| daemons, `daemon.c` | per daemon: `state` (STARTED, STOPPED, STOPPING), `pid`, `conf` | create, destroy, start, stop, reload, end; the set-up of a child |
| spawns, `spawns.c` | a tree of the daemons which have a process, by pid | record, retrieve, empty, `spawns_stop` |
| configuration, `configuration.c` | a tree of all daemons, by name | load, reload |
| configuration files, `daemon_conf.c` | per file: what it sets | parse |
| tree, `tree.c` | an AVL tree | insert, remove, find, last, traversals |
| socket switch, `socket_switch.c` | a tree of sockets by descriptor, the active set | setup, insert, remove, prepare, operate, teardown |
| endpoints, `socket_endpoint_node.c` | a listening socket, its path, a set of capabilities | create, operate (accept), destroy |
| connections, `socket_connection_node.c` | a parser: state, capabilities, word, name | create, operate (read and parse), destroy |
| cyberctl, `cyberctl.c` | none | reads its command line, writes one message |

How they interact:

- `main` calls everything else. One return of pselect(2) means either handlers
  ran (reload, then reaping) or descriptors are ready (the switch operates
  them), never both (`main.c:280-292`).
- a command on a connection finds a daemon in the configuration's tree and calls
  daemon.c; a system command is turned into a SIGTERM which cyberd queues to
  itself, so that it takes the same way as an administrator's.
- a struct daemon is owned by the configuration's tree, or by the old tree
  during a reload; spawns only refers to it. rc's is on the stack.
- the three trees (daemons by name, spawns by pid, sockets by descriptor) are
  the same `tree.c`, whose insertion aborts on a key which is there already:
  each user relies on an invariant of its own for that never to happen.

What is hard, and what makes each part correct:

- **Pids are recycled.** A pid is cyberd's only as long as its process has not
  been collected. So spawns must hold exactly the daemons which are not STOPPED,
  each under the pid of an uncollected process which was forked for it
  (`SpawnsTracked`, `PidsOwned`), and signals must reach their own daemon
  (`SignalsOwn`).
- **Signals coalesce**, and the flags are cleared after the work, not before. A
  child which ends in between must not be forgotten (`NoLostChild`,
  `ZombiesReaped`); this rests on the signal mask.
- **A reload meets a directory that changed**, files which do not parse, an
  openat(2), readdir(3) or fork(2) that fails. No daemon may be in two trees,
  nor in spawns without being in one, and one whose file is still there goes on
  undisturbed (`OneOwner`, `NoDangling`, `ReloadKeeps`).
- **The way down** has daemons that end with a status they are to be started
  again for, an alarm that rings at any time, requests that come late. No daemon
  may be forked any more, no process may be left, what was decided must stand
  (`StoppedForGood`, `NoSpawnInTeardown`, `CleanOff`, `DecisionFinal`,
  `ShutdownCompletes`).
- **Descriptors are closed and reused** while the ready ones are walked
  (`NeverBlocks`, `ActiveIsStored`, `Served`).
- **Each daemon** is started, stopped, ended, reloaded and collected by handlers
  which know nothing of each other, while pids are recycled and files come and
  go; yet it has to go through one simple life (`Supervises`).
- **A child is not a program yet** between fork(2) and execve(2): it opens and
  moves descriptors, drops its privileges, and may be signalled or fail at every
  call. What is run must have all its file says, and nothing of cyberd's
  (`RunsAsConfigured`, `StreamsAreThere`, `InheritsNothingElse`, `IsKernels`).
- **Files are parsed in place**: the two ends of a line move towards each other,
  and the words of the arguments are written into the text which is being read
  (`LineMeans`, `FileMeans`, `NeverOvertakes`, `Expands`, `QuotedIsKept`).
- **Bytes come from anyone**, in reads of any size, on connections whose
  endpoint restricts them (`Attenuated`, `NeverAborts`, `Obeyed`,
  `CreatedAsAsked`); and a creation which fails unlinks the path of an endpoint
  which is there already (`PathsKept`).
- **Rotations** of the tree are decided by recorded heights (`Balanced`,
  `Searchable`, `TreeIsSet`).

The hazards, each at its line and with the properties which would show it going
wrong, are listed in `PROJECT.json`.

## 2. The modules

```
Kernel --- Daemon --- Configuration --+-- Cyberd --- MCCyberd     (TLC)
   |                                  |     |
   +------ Signals -------------------+     +-- CyberdProofs --- CyberdSafety
Arguments --- DaemonConf --- ChildSetup --- MCChildSetup          (TLC)
   |              |              |
   |       DaemonConfProofs -----+-- ChildSetupProofs
   +-- ArgumentsProofs
SocketSwitch --- SwitchProofs
Tree --- TreeProofs
Connection --- Cyberctl --- MCConnection                          (TLC)
                  +-------- ConnectionProofs
```

| abstract specification | implemented by | under the mapping |
|---|---|---|
| Supervision | Cyberd (`Supervises`, proved) | `life <- state`; a daemon of spawns has the process of its pid |
| Expansion | Arguments (`Expands`, proved) | the word is what is between two pointers |
| Kernel's steps of a child | ChildSetup (`IsKernels`, proved) | a child is forked until execve(2) |
| SortedSet | Tree (`TreeIsSet`, proved) | `set <- Members` |

Operators named `Wrong...` are bugs which the definition after them does not
have. Nothing uses them; put in its place, they make a property fail, and so
show that the property says something about the code.

**Kernel** is external: the process table, fork, execve, kill, exit, waitid and
the pending signals, as main.c, daemon.c and signals.c use them. A process is
`free`, `forked` (it runs cyberd's own code, with cyberd's handlers), `running`,
or a zombie, whose status is its cause of death. A pid is free once collected,
and any fork may take it. A process which cyberd inherited is an `Orphan`.

**Signals** is signals.c. `Deliver(S, mask)` runs the handlers of the pending
signals `S` while only those of `mask` are unblocked; it is used with the masks
of pselect and of the two sigsuspend. POSIX lets several handlers run in one
wait, so `S` may be any set.

**Daemon** is daemon.c and spawns.c. A daemon is named by its file (or `Rc`,
which is on the stack of `rc`). The spawns tree is the set of daemons in it, and
its key their `pid`; `SpawnsFind` is the lookup. `state`, `pid` and `start`
(the flags of the [start] section) are the structure's fields. A daemon of which
no structure exists looks like a STOPPED one with no flags.

**Configuration** is configuration.c. The directory may change at any time, so
each entry a scan returns is read as *any* file: one which does not parse, or
one with any of the start sections in `StartSets`. A name which is not there,
does not open or is lost to a readdir(3) error is one the scan ends without.
`LoadEntry` and `ReloadEntry` are one turn of the loops with all they call.
Within a scan, signals are blocked but children end, and the steps of the
environment come in between.

**Cyberd** is main.c, composed of those four. `pc` is the place in the code;
each action goes from one point where cyberd waits or begins a turn of a loop to
the next. `Progress` is what cyberd does by itself, `Request` what a connection
asks for, `Environment` the rest. After `off`, which stands for sync(2) and
reboot(2), the system has stopped: this is why deadlock is not checked for it.

**Supervision** is the abstract promise of cyberd to an administrator, without
pids, signals and files: per daemon its life, what became of its process, and the
ends after which it is started again. `Start`, `Configure`, `Stop`, `End`,
`Collect` and `Abandon` are about one daemon (`Abandon` about all whose files are
gone), `Close` about the system.

**Arguments** is daemon_conf_parse_general_arguments: the value of the arguments
key is unquoted and split within its own copy, one turn of the loop an action,
with the pointers `it`, `dst`, `src` and `arg`. **Expansion** says what it is to
come to: it reads each character once and appends to a list of words; `Whole` is what
it has come to at the end of a value, and `QuotedList` how a list of words is written
so that it comes to that list.

**DaemonConf** is the rest of daemon_conf.c. A file is a sequence of lines, a
line one of characters; a word which the parser never looks into counts as one
character. `ParseLine` works as daemon_conf_parse_line does, on the places which
it moves; the actions are the turns of daemon_conf_parse, `Parse...` and
`Conf...` the keys of each section. `Meaning`, `LinesOf` and `Latest` are the
reference: what a line and a file mean by `man/cyberd.5`, said without places.
`FileMeans` compares the whole configuration with them: paths, identities, signals,
umask, priority, arguments, environment and start flags; `QuotedIsKept` is about the
lists of words in `Lists`, which someone wants to write. **DaemonConfProofs** has the lemmas
about one line and one turn; the theorems are in ChildSetupProofs, where the
specification is that the parser is a part of.

**ChildSetup** takes a configuration which DaemonConf has made, forks (`Fork`) and
goes through daemon_child_setup one system call an action, each of which may fail
(`Err`) or be preceded by a signal (`Signal`). The descriptors cyberd had open at
the fork are chosen freely; open(2) takes the least which is free, and what is
left after execve(2) is what the program gets.

**SocketSwitch** is socket_switch.c with those operations of endpoints and
connections which open or close descriptors. `Operates(f)` says that the loop of
`socket_switch_operate` has come to `f`; the kernel's `readable` is what select
would return. It has no bytes in it, and **Connection** has no descriptors:
between them they share the fact that parsing may create endpoints (`Create`).

**Connection** is the parser of socket_connection_node.c with the creation of
endpoints and the bytes of cyberctl's messages. A byte is chosen when the parser looks
at it, unless cyberctl wrote it, since an unknown client sends anything, and
what is behind the received bytes is anything too. `count` is what the code
believes is left; a capset_t is the set of its bits, so that the conversions of
`ntohl` and of `1 << byte` are done on bits and bytes. A read returns any part of
what cyberctl wrote, and the parser goes on where the last read left it (`GoOn`).
The parser cannot cope with one kind of split: `name_fill` adds the length of what
it has copied to the bytes that are left, so that a name of which a read returns a
part is completed from memory behind it. The history variable `torn` records
that a read ended within the name; what is stated of cyberctl is about all other
splits, what is stated of capabilities, types and paths about these too.
Connections share only the endpoints, so one is followed at a time, each through
an endpoint that an earlier one may have created. The end of a connection is not
modelled: another `Connect` may come whenever no byte is left.

**Cyberctl** is cyberctl.c from the words of its command line (`Main`, by the name
it is run under) to a request, or to the usage. Its requests are the `Asks` of
Connection (`TypedAssumption`), and `Invoke` connects to the endpoint which the
line names. `CyberctlSpec` is Connection with this client and any other.

**Tree** is tree.c: insertion and removal with the four rotations, `Find`,
`Last` and the traversal, on records which stand for the nodes. The functions of
tree.c which call themselves are recursive functions on the `Pointers` of a tree,
and its `while` loops are `Loop`, which follows one pointer after the other for as many turns
as the tree is high. It implements
**SortedSet**, by the refinement mapping `set <- Members`. Users give `tree_insert`
only elements which are not there, as the invariants of Cyberd and of
SocketSwitch show for theirs. Elements are integers: the users compare pids,
descriptors and, with strcmp(3), names, of which only the order is used.

## 3. The runs

| run | module, cfg | checks | distinct states |
|---|---|---|---|
| `spawns` | MCCyberd, Spawns.cfg | SpawnsTracked, PidsOwned, NoDangling, OneOwner; SignalsOwn, ReloadKeeps | 2.0 M |
| `teardown` | MCCyberd, Teardown.cfg | TypeOK, NoLostChild, StoppedForGood, CleanOff; Supervises, NoSpawnInTeardown, DecisionFinal | 2.1 M |
| `liveness` | MCCyberd, Live.cfg | ZombiesReaped, BootCompletes, ShutdownCompletes | 182 k |
| `tree` | Tree, Tree.cfg | Balanced, Searchable; TreeIsSet | 216 k |
| `switch` | SocketSwitch, Switch.cfg | TypeOK, ActiveIsStored, NeverBlocks; Served | 24 k |
| `parser` | MCConnection, Parser.cfg | TypeOK, NeverAborts, Obeyed; Attenuated, CreatedAsAsked, PathsKept | 802 k |
| `from_file` | MCChildSetup, FromFile.cfg | TypeOK, NeverOvertakes, LineMeans, FileMeans, QuotedIsKept, RunsAsConfigured, StreamsAreThere, InheritsNothingElse; Expands, IsKernels | 577 k |
| `one_instance`, `stop_is_told`, `only_asked`, `little_endian`, `credentials` | | one property each, which fails: section 6 | |

All are exhaustive: no constraint cuts the state space other than the bounds
below, which are constants of the modules or of the cfg.

**`spawns`** asks whether the trees, the pids and the process table agree. Two
files over two pids is the least in which a stale pid may have become another
daemon's; every further pid or name only adds a bystander. All four commands are
there, and a daemon starts at load, at reload and after a failure, so that forks
come from every place which has one. Signals are kept to a plain SIGTERM.

**`teardown`** asks whether the way down is one way, and whether each daemon goes
through the life Supervision says. One file is enough, as a
daemon on the way down meets the alarm, orphans (the second pid), late signals
and its own exit status, but never another daemon; the proofs cover any number.
SIGTERM comes plain, with HALT, or as a SUSPEND which is to be ignored: one for
each branch of the handler. Two causes and three start sections tell a daemon
which is started again from one which is not, after the same end.

**`liveness`** asks whether ends are collected, boot ends and a reboot request
arrives, with one file and two pids.

**`tree`** inserts and removes twelve elements in every order. Twelve is the
least number with which a tree has five levels, and so the least with which one
removal rotates twice, the second time by a height which the first has changed.

**`switch`** has four descriptors for sockets and one in between, 1, which is not
a socket of the switch. With four an endpoint may accept into a descriptor which
was closed in the same walk, before or after the loop's place, while
another connection waits behind it. `Fds` stands for descriptors below
FD_SETSIZE.

**`parser`** has 0 (nul, and the endpoint creation command), 47 (`/`) and 129 for
the bytes of names and of an unknown client. 129 is a letter of names which, as a
shift count of 32 bits, may act as 1, start; 47 may act as 15, which is no command.
As bytes of a capability set they have bits that no command has, 15 among them. The
commands and words of cyberctl are any bytes. NAME_MAX is 3: cyberctl's names have
1 or 2 bytes, as docs/endpoints.md:15 has them, NAME_MAX bytes or none, which
`name_fill` accepts as well, or 4, or a slash, which it refuses (`Accepted`). A read
returns up to five bytes, which is what a name that is too long takes, less than
the message which creates an endpoint: messages come in one to eight parts.
`MaxCount`, 3, bounds how far the parser is followed over
bytes which it wrongly believes were received; the state it is in after
each does not depend on how many are left. `MaxEndpoints`, 2, lets one endpoint
be created with the capabilities of the root, and restricted ones be created from
a restricted connection after that, which fail or succeed as names allow; the
proofs cover chains of any length. Nineteen command lines of cyberctl are
there: each name of the program, options that are repeated, missing or unknown, a
wrong number of words, each of the names above, and endpoints which may be created
or not. `PathsKept` needs two endpoints of one name, so that bind(2) fails, and a
connection which may not create any. The dot is not among the bytes: a hidden name
is refused for an endpoint as the empty one is, which is there. The machine is big
endian; AskedIsDone and EndpointsAreAsAsked are proved for both byte orders, and
MostSignificantFirst fails on a little endian one (section 6).

**`from_file`** goes from a file to the program it configures, for six sets of
files, each about another part of the way: all lines of up to five characters out
of six (`LineFiles`: a letter, `=`, `#`, the brackets, a space), for what the line
parser does with its places; all files of up to three out of eighteen lines
(`SectionFiles`), for sections, keys in the wrong one, and values which are valid
or not; all values of arguments of up to four characters out of five
(`TextFiles`); lists of one word of up to three such characters, or of two words of up to
one, which are quoted by the rule of the code's comment (`QuotedFiles`); all files of three
lines out of six (`ListFiles`), for lists which replace each other, are not closed, or
are in another section; and the files of daemons which are set up
(`DaemonFiles`), with each option alone and each which needs privileges together
with a user. cyberd may use any of the descriptors up to `MaxUsed`, 3, for any of
its files: the three standard ones and one beyond are all that open(2) and
dup2(2) can tell apart, as the proofs confirm for any number.

Symmetry is used over pids and names in `spawns` and `teardown`, which are only
compared for equality, and in no run with a liveness property.

## 4. Fairness

`FairSpec` of Cyberd assumes, and no more:

- `WF(Progress)`: cyberd does not stop by itself. It is one thread that is
  always scheduled, and blocks only where an action is not enabled.
- the run commands end, as `rc` waits for them;
- a process which got SIGKILL ends, as the kernel guarantees. A daemon which got
  its own signal need not end: shutting down relies on the alarm;
- the alarm rings once it is armed;
- `Rest`: requests, administrators' signals, inherited processes and processes
  that end unasked come to a rest. The code does need this one: `reap_children` returns
  only when no zombie is left, and starts daemons again itself
  (`main.c:112`), and Linux's pselect(2) delivers no signal while a descriptor
  is ready. A daemon which fails at once and is started again for it keeps init
  in that loop, and a client who never stops sending keeps it in the other.

`FairSpec` of SocketSwitch assumes only that cyberd goes on (`WF(Turn)`). Clients
may connect and send for ever, and still each ready socket is served.

## 5. The proofs

TLAPS checks these for all values of the constants, under the named assumptions
of Kernel, Configuration, Cyberd, SocketSwitch, Tree, Connection, Cyberctl, Arguments
and ChildSetup (`Rc` is no file name, `NoPid` is no pid, causes and start sections
are among those of the code, descriptors are a finite set of naturals, the elements
of a tree are integers, requests
of cyberctl have names which are strings, files are sequences of lines of text
without a nul, lists of words which are looked for in a file have a word,
no section is called by the name of none, and the like).

| theorem | says | inductive invariant |
|---|---|---|
| `TypeCorrect` | `[]TypeOK` | itself |
| `SpawnsCorrect` | `[](SpawnsTracked /\ PidsOwned)` | `SpawnsInv`: with `RcFirst` |
| `NoChildIsLost` | `[]NoLostChild` | itself, with TypeOK |
| `DaemonsAreOwned` | `[](OneOwner /\ NoDangling)` | `OwnerInv` |
| `TeardownStops` | `[](StoppedForGood /\ CleanOff)` | `DownInv`, with SpawnsInv |
| `TeardownForksNothing` | `NoSpawnInTeardown` | follows from DownInv |
| `DecisionIsFinal` | `DecisionFinal` | `Undecided` |
| `SignalsReachTheirOwn` | `SignalsOwn` | follows from SpawnsInv |
| `ReloadIsQuiet` | `ReloadKeeps` | follows from SpawnsInv and OwnerInv |
| `CyberdSupervises` | `Supervises`: Cyberd implements Supervision | follows from SpawnsInv, step by step |
| `OperatesReady` | `[](TypeOK /\ ActiveIsStored /\ NeverBlocks)`, of SocketSwitch | `Ahead` |
| `TreeBalanced` | `[]Balanced` | `TreeInv` |
| `TreeSearchable` | `[]Searchable` | `TreeInv` |
| `TreeImplementsSet` | `TreeIsSet`: Tree implements SortedSet | `TreeInv` |
| `ParserNeverAborts` | `[]NeverAborts` | `CapabilitiesInv` |
| `CapabilitiesNarrow` | `Attenuated` | `CapabilitiesInv` |
| `FieldsFit` | `[]TypeOK`, of Connection | `TypeInv`: with `WordInv` |
| `PathsAreKept` | `PathsKept` | `CapabilitiesInv` |
| `AskedIsDone` | `[]Obeyed` | `ClientInv`, with TypeInv |
| `EndpointsAreAsAsked` | `CreatedAsAsked`, for both byte orders | `ClientInv`, with TypeInv and CapabilitiesInv |
| `CyberctlIsAClient` | `CyberctlSpec => Spec`: what is proved of any client is true of cyberctl | |
| `ExpansionNeverOvertakes` | `[]NeverOvertakes` | `ExpandInv` |
| `ExpansionInPlace` | `Expands`: Arguments implements Expansion | `ExpandInv` |
| `ChildTypes` | `[]TypeOK`, of ChildSetup | `TypeOK`, with `FileType` |
| `LinesAreRead` | `[]LineMeans` | `FileInv` |
| `FilesAreRead` | `[]FileMeans` | `FileInv`, `ListInv` |
| `QuotedAreKept` | `[]QuotedIsKept` | `ListInv`: with `ReadInv` |
| `RunsAsSaid` | `[]RunsAsConfigured` | `SettledInv` |
| `StreamsAreGot` | `[]StreamsAreThere` | `PlacesInv`, `FilesInv` |
| `NothingElseIsInherited` | `[]InheritsNothingElse` | `FilesInv` |
| `ChildIsKernels` | `IsKernels`: a child does what Kernel takes it to do | `EndInv` |

- **SpawnsCorrect.** `SpawnsTracked` and `PidsOwned` are inductive but for the
  fork of `rc`, which takes it that `Rc` is not in spawns: `RcFirst` says that
  spawns is empty there. The heart is `ReapKeeps`: when a pid becomes free, the
  daemon which had it has left spawns in the same step, before the pid may be
  given to another by the restart which that step may contain. `DestroyKeeps`
  needs that pids in spawns differ, which PidsOwned gives: two daemons under one
  pid would be the programs of one process.
- **NoChildIsLost.** Only an exit makes a zombie, and it raises SIGCHLD; the
  steps that consume SIGCHLD lead to a place of reaping or set `sigchld`, and
  the places where `sigchld` is cleared are those where no zombie is.
- **DaemonsAreOwned.** `OwnerInv` adds that the old tree is empty out of a reload,
  and that boot has no daemon in the configuration's. OneOwner itself has the
  part that makes a scan safe: what it has inserted is not among the names it
  has still to read, as readdir(3) returns a name once.
- **TeardownStops, TeardownForksNothing.** `DownInv` carries that after
  `spawns_stop` no daemon in spawns has a start flag; a step which reaps finds
  the flag it would need missing, so `daemon_start` is never called.
- **DecisionIsFinal.** `Undecided`: wherever SIGTERM may be delivered next, nothing
  is decided yet, as the loop ends before it waits again, and teardown's mask
  keeps SIGTERM blocked.
- **SignalsReachTheirOwn.** A daemon which is signalled is not STOPPED, so it is in
  spawns, under a pid which is its own process's.
- **ReloadIsQuiet.** A daemon in spawns is not STOPPED, so that `daemon_start` leaves
  it alone; what the end of the reload destroys is in the old tree, and so,
  by OneOwner, not in the new one.
- **CyberdSupervises.** `SpawnsInv` gives the refinement mapping its meaning: a
  daemon which is STOPPED is out of spawns and has no process, and the pid of one
  which is not names its own process. So a fork gives a process to one daemon and
  changes no other's, since the pid it takes was free; reaping takes it from one,
  and the restart which the same step may contain finds it STOPPED; a process
  beside spawns is nobody's. Each action is shown to be a step of Supervision or
  none (`IsStart`, `IsStop`, `IsCollect` and so on say which). That no daemon is
  started again once the system stops need not be added: `Close` takes from each
  what it would be started again after.
- **OperatesReady.** `Ahead`: what is in readset at or behind the loop's place
  is stored, active and readable, since a step touches only the socket it
  operates, which is before the place afterwards, and descriptors which are
  unused.
- **The tree.** `TreeInv`: the tree is `Avl` of some set of elements, which says of
  every node at once that it is between what is on its left and on its right, that
  its recorded height is true, and that its subtrees differ by one at most. Balanced
  alone is not inductive: which rotation is taken is decided by comparing elements
  on insertion, and by recorded heights on removal. A property of trees is proved by
  induction on their heights (`FromChildren`, from the well-order of the naturals),
  and the recursive functions of the model are shown to exist in the same way
  (`InsertNodeIs`, `RemoveNodeIs`, `PreorderIs`). The four lemmas `RotatedRight` to
  `RotatedRightLeft` say what a rotation makes of a node that leans by two: a balanced
  tree of the same elements, and how high it is. Insertion carries, up the tree, that a
  subtree which has become higher leans toward the new element (`Grown`, `Toward`),
  which is why the code may compare elements instead of heights; removal carries
  that a subtree has become lower by one at most (`Shrunk`), so that `RemoveBalance`
  never meets a difference beyond two (`Rebalanced`), whether the node had no child, one,
  or a successor to take its place (`Spliced`, `Succeeded`).
- **The parser.** `CapabilitiesInv`: every endpoint, and the connection, has
  capabilities among the nine, and the state of a daemon command is entered
  only with its capability. `FieldsFit` shows that what `name_fill` appends, part by
  part, never exceeds the buffer; `WordInv` says how many bytes of a word each
  state of the parser has. The two states of an endpoint's creation are entered
  with its capability only, which is all that `PathsAreKept` takes.
- **AskedIsDone, EndpointsAreAsAsked.** `ClientInv` follows cyberctl's message from
  the wire over the buffer through the parser, as long as no read ended within the
  name. `Left` is what was written and not taken, read or not, so that a read does
  not change it. Either the parser is at the command, at the name of a daemon, in
  the word (and what it has of it with what is left are the word and the name that
  were written), or at the name of an endpoint; or it has refused the message; or
  the message is taken and, if it was not about an endpoint, executed. `NameWhole`
  says that a name is on the wire in whole or not at all, so that it comes in one
  piece (`OnePiece`); by `NameTaken` it is then taken whole, or refused, and
  refused exactly when it is too long or has a slash. What the parser makes of the
  bytes behind the message can only add to what was executed. `OctetBits` shows
  that the bytes which htonl(3) makes of a set of bits are that set again once
  they are shifted in, the first one to the most significant place (`WordKept`).
  Where ntohl(3) swaps them, the nine capabilities come to lie where no endpoint
  has any (`WordSwapped`, and `CapabilitiesInv`): `Granted` is empty, and nothing
  is created.
- **The expansion in place.** `ExpandInv`: what is written ends before the place
  which is read, or at it between words, and the part from there on is still
  the value; the pointer to the word and the one behind it then delimit what
  Expansion has as its word. The end of a word is written on the character which
  is read at the very moment when that has been looked at.
- **A line.** `ParsedMeans` is about one line, of any length. A place of Meaning is
  the least or the greatest of a set of places, which exists as such a set is
  finite and numbers are well ordered (`PlaceFound`, `FirstDarkPlace`,
  `LastDarkPlace`); the parser's two ends stop at the same places, unless the
  line is `Misread`, and what is between two equal places is the same text.
- **A file.** `FileInv` says of each turn that the section the parser is in is that
  of the last section line before, and, if no line was misread, that every field of
  the configuration is what the lines so far mean. A turn adds its line to the
  lines of its section, and to no other's (`SectionGrows`, `LinesGrow`): if the value is
  valid the line is the last of its key from then on, if not the last one stays;
  start flags become a union with one more member; a variable of the environment is
  the last in order, and the ranks of those before it are kept. So each of
  `GeneralAdds`, `EnvironmentAdds` and `StartAdds` has a sibling, `...Kept`, for
  the turns which are none of its business. `NoneMisread` is about all lines so far:
  once a line was misread nothing is promised of the file.
- **The arguments.** They take a turn for each character, and their words mean
  something only at the end of the value, so `ListInv` speaks of two situations.
  While a list is read (`ListIsRead`) the configuration has the list of the lines
  before it, and `ReadInv` says that the expansion knows what `Reading` knows after
  as many characters; between lines the configuration has the last list which was
  closed and has a word (`ArgumentsAsMeant`). `ExpandEnd` goes from one to the other.
- **Quoted lists.** `QuotedReads` says that a list of words, quoted by the rule, is
  read as that list, for words of any length and characters. `AtWord` relates what is
  known after some characters to those which are left: so many words whole, so many
  characters of the next one, and whether an escape or a quote comes next. Each
  character leads to such a relation again (`AtOpening`, `AtSpace`, `AtQuoted`,
  `AtEscaped`), and the last one to the whole list. The induction is over the
  number of characters, as a set of naturals which has each one's successor
  (`OneByOne`), since the induction of the library is over an operator. A quoted list is therefore closed and has a word, so it is
  the last value of its key exactly where it is the last list, and FileMeans has it in
  the configuration. No word with a `#` can be written in a file at all, as a comment
  starts in quotes too: the value is then another one, and nothing is said of it.
- **The child.** `SettledInv` says of each field of the process that it has its
  configured value from its call on, and that no later one changes it. `PlacesInv`:
  each stream was opened at the least descriptor that was free, so a stream can be
  opened in the place of another only if cyberd had none of the lower ones; with
  that `FilesInv` follows each copy until execve(2), which closes those which dup2(2)
  left alone. `EndInv`: only a child which is being set up ends.

What stays with TLC: `ZombiesReaped`, `BootCompletes`, `ShutdownCompletes` and
`Served`, since fairness and ENABLED are out of the prover's reach.

## 6. Where code and documentation disagree

Each has a run in which TLC finds the property violated.

- **OnlyAsked.** `name_fill` adds the length of a name to the bytes which are left
  (`socket_connection_node.c:122`) where it has consumed them. After `cyberctl
  start x` the parser goes on over bytes which nobody sent, and executes those
  which are commands. Capabilities still hold (`Attenuated` is checked and
  proved over those bytes too). For the same reason a name which comes in two
  reads is completed from bytes which nobody sent, or refused, and its second part
  is taken for a message.
- **MostSignificantFirst**, on a little endian machine. The word of a capability set
  is assembled most significant byte first, which is the host's value, and then
  given to ntohl(3) (`socket_connection_node.c:185`). `cyberctl create-endpoint`
  creates no endpoint there at all, which is a part of `CreatedAsAsked` and proved;
  another client gets the endpoint if it writes its bytes in the opposite order.
- **OneInstance.** "Only one instance of a daemon can run at any time"
  (`man/cyberd.8:19`). A reload destroys a daemon whose file is gone, and leaves
  its process; when the file is back, the next reload may start a second one.
- **StoppingWasTold.** Between fork(2) and execve(2) the child has cyberd's SIGTERM
  handler, which consumes a stop. The daemon is STOPPING, runs, and was told
  nothing; `start`, `stop` and `reload` refuse it from then on, `end` alone helps.
- **CredentialsAreGot.** `daemon_child_setup` calls setuid(2) (`daemon.c:134`)
  before setgid(2) and setpriority(2), which a user other than 0 may no longer
  do: a daemon with such a user and a group, or a priority below 0, ends before
  execve(2), each time. `man/cyberd.5:31` and `daemon_conf.h:22` promise the group
  without a word on the user.

Others were met which no run is spent on:

- `cyberctl create-endpoint` takes its capabilities from all words behind it, and
  its name from the first of them (`cyberctl.c:200`, `:212`): an endpoint can only
  be named like a command, and always gets that command's capability. Cyberctl
  models this (`Capabilities`, `InitctlCommand`).
- a name has "N bytes, 0 < N < NAME_MAX" (`docs/endpoints.md:15`); `name_fill`
  accepts a name of no byte, and one of NAME_MAX bytes, and a daemon is looked up by
  it. Obeyed is about what the code accepts (`Accepted`).
- a line which is indented and has nothing before its comment or its `=` is taken
  for something else (`Misread` in DaemonConf says exactly which): LineMeans and
  FileMeans are about the other ones.
- where the user database cannot be read, `user` sets nothing and is no error
  (`daemon_conf.c:434`); FileMeans leaves this case out.
- `daemon_conf_deinit` does not free the paths of the streams (`daemon_conf.c:627`):
  each reload leaks them.

## 7. What is not modelled

- allocation failures (malloc, strdup, tree nodes), memory which is leaked,
  logging, sync(2), and the clean-up before reboot(2), which only debug builds do;
- a failure of reboot(2), after which init exits;
- pselect(2) failing for a reason other than EINTR: the loop goes on as it was;
- descriptors beyond FD_SETSIZE (`socket_switch.c:69`): the models assume a limit
  on open files which keeps cyberd below;
- the spelling of numbers: strtol(3) is a table of the words which are numbers to
  base 10 and 8. Names of users, groups and signals are tables too;
- in the composition: what is in files. In Cyberd a file parses into start flags
  or does not, and a child runs its program or fails; DaemonConf and ChildSetup
  say when, and `IsKernels` that Cyberd's children are like that;
- which descriptors of cyberd are open at a fork is over-approximated: any, with
  any of its files;
- lengths of paths, and mkdir(2) of the endpoint directory; connect(2) and write(2)
  of cyberctl failing, after which nothing was asked;
- options of cyberctl written together in one word, or behind operands, as some
  implementations of getopt(3) allow;
- the end of a system by suspend, which `sigterm_handler` ignores;
- build files, manual pages and examples, which have no behaviour.

## 8. Plan

The order was: the core (Kernel, Daemon, Configuration, Signals, Cyberd), which
decides whether a system boots, runs and stops; then the tree and the switch, on
which all of it stands; the protocol, where the outside comes in; the way from a
file to a program; and the abstract life of a daemon which all of Cyberd comes
to. What could be done beyond:

- the endpoints of Connection and the descriptors of SocketSwitch in one module,
  with several connections between which the parser's turns interleave: they
  share nothing but the endpoints, which each model has in full.
