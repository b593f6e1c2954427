------------------------------ MODULE HkyStart ------------------------------
(***************************************************************************)
(* What a process sets up once: its options and names (src/core/husky.c,   *)
(* src/core/hky_file.c), the sockets it inherits, its directories, and the *)
(* title it shows (src/unix/hky_setproctitle.c as Linux and Darwin build   *)
(* it), which is written over its arguments and its environment.  Calls    *)
(* that run out of memory are left out; hky_alloc is read as meant, for as *)
(* it is written hky_init_setproctitle always fails (see HkyPool).         *)
(***************************************************************************)
EXTENDS HkyNumbers

-----------------------------------------------------------------------------
(* Memory is a function from addresses to bytes; a string ends at a NUL.   *)
StringAt(mem, a) ==
    LET end == Min({x \in DOMAIN mem : x >= a /\ mem[x] = NUL})
    IN  [i \in 1..(end - a) |-> mem[a + i - 1]]

Behind(mem, a) == a + Len(StringAt(mem, a)) + 1

Store(mem, a, text) ==
    [x \in DOMAIN mem |-> IF x \in a..(a + Len(text) - 1) THEN text[x - a + 1] ELSE mem[x]]

(* Mutant: the variable is copied, the environment still leads to the old  *)
(* place.                                                                  *)
MovedVariableOnly(s, i) ==
    IF s.last # s.environ[i] THEN s
    ELSE LET value == StringAt(s.mem, s.environ[i])
         IN  [s EXCEPT !.mem = Store(s.mem, s.p, Cpystrn(value, Len(value) + 1)),
                       !.last = @ + Len(value) + 1, !.p = @ + Len(value) + 1]

(* A variable that follows what will be overwritten is moved to p.         *)
MovedVariable(s, i) ==
    IF s.last # s.environ[i] THEN s
    ELSE LET value == StringAt(s.mem, s.environ[i])
         IN  [s EXCEPT !.mem = Store(s.mem, s.p, Cpystrn(value, Len(value) + 1)),
                       !.environ[i] = s.p,
                       !.last = @ + Len(value) + 1, !.p = @ + Len(value) + 1]

(* hky_init_setproctitle: the arguments that follow each other, and then   *)
(* the variables that do, are the room of the title.  p is the memory the  *)
(* variables are moved to; it has room for all of them.                    *)
InitSetproctitle(mem, argv, environ, p) ==
    LET last  == FoldLeft(LAMBDA l, a : IF l = a THEN Behind(mem, a) ELSE l, argv[1], argv)
        moved == FoldLeftDomain(LAMBDA s, i : MovedVariable(s, i),
                                [mem |-> mem, environ |-> environ, last |-> last, p |-> p],
                                environ)
    IN  [moved EXCEPT !.last = @ - 1]

\* "husky:"
ProcessName == <<104, 117, 115, 107, 121, COLON>>

(* The text is cut to what is left before last; p is at its NUL then.      *)
Appended(s, text) ==
    LET written == Cpystrn(text, s.last - s.p)
    IN  [s EXCEPT !.mem = Store(s.mem, s.p, written),
                  !.p = IF written = <<>> THEN @ ELSE @ + Len(written) - 1]

(* hky_setproctitle: one argument is left; the rest of the room is filled  *)
(* with HKY_SETPROCTITLE_PAD, a NUL.                                       *)
Setproctitle(s, argv, title) ==
    LET shown == Appended(Appended([s EXCEPT !.p = argv[1]], ProcessName), title)
    IN  [mem |-> Store(shown.mem, shown.p, Repeat(NUL, shown.last - shown.p)),
         environ |-> s.environ, last |-> s.last, argv |-> <<argv[1]>>]

(* What the two promise: the title stands where the first argument did, as *)
(* far as there is room; every variable reads as before; and nothing but   *)
(* the room and the place for the variables has been written.              *)
TitleRight(before, after, argv, environ, place, title) ==
    LET text == ProcessName \o title
        room == after.last - argv[1]
    IN  /\ StringAt(after.mem, argv[1]) = Prefix(text, IF room = 0 THEN 0 ELSE room - 1)
        /\ \A i \in DOMAIN environ :
              StringAt(after.mem, after.environ[i]) = StringAt(before, environ[i])
        /\ \A x \in DOMAIN before :
              after.mem[x] # before[x] => x \in argv[1]..(after.last - 1) \/ x >= place

-----------------------------------------------------------------------------
TestFullName(name) == name # <<>> /\ name[1] = SLASH

GetFullName(prefix, name) == IF TestFullName(name) THEN name ELSE prefix \o name

(* hky_conf_full_name: relative to the place of the configuration file, or *)
(* to that of the program.                                                 *)
ConfFullName(cycle, name, conf_prefix) ==
    GetFullName(IF conf_prefix THEN cycle.conf_prefix ELSE cycle.prefix, name)

ConfPath == <<99, SLASH, 104>>      \* stands for "conf/husky.conf"

(* An option is a sequence: empty if it was not given.  Without a prefix   *)
(* the working directory is one.                                           *)
PrefixOf(prefix, cwd) ==
    IF prefix = <<>> THEN Append(cwd, SLASH)
    ELSE IF prefix[1] # <<>> /\ Last(prefix[1]) # SLASH THEN Append(prefix[1], SLASH)
    ELSE prefix[1]

(* hky_process_options.  The search for the directory of the file ends     *)
(* before its first character.                                             *)
ProcessOptions(prefix, conf_file, cwd) ==
    LET place == PrefixOf(prefix, cwd)
        file  == GetFullName(place, IF conf_file = <<>> THEN ConfPath ELSE conf_file[1])
        slashes == {i \in 2..Len(file) : file[i] = SLASH}
    IN  [prefix |-> place, conf_file |-> file,
         conf_prefix |-> IF slashes = {} THEN place ELSE SubSeq(file, 1, Max(slashes))]

(* A directory as a name: all up to the last slash of a name.              *)
DirectoryOf(name) ==
    LET slashes == {i \in DOMAIN name : name[i] = SLASH}
    IN  IF slashes = {} THEN <<>> ELSE SubSeq(name, 1, Max(slashes))

-----------------------------------------------------------------------------
SEMICOLON == 59

(* hky_add_inherited_sockets: the numbers of HUSKY, each ended by ":" or   *)
(* ";", until one that is none; what no delimiter ends is ignored.         *)
AddInheritedSockets(inherited) ==
    LET read(s, p) ==
            IF s.broken \/ inherited[p] \notin {COLON, SEMICOLON} THEN s
            ELSE LET number == Atoi(SubSeq(inherited, s.v, p - 1))
                 IN  IF number = Error THEN [s EXCEPT !.broken = TRUE]
                     ELSE [s EXCEPT !.fds = Append(@, number), !.v = p + 1]
    IN  FoldLeftDomain(read, [v |-> 1, fds |-> <<>>, broken |-> FALSE], inherited).fds

(* The numbers of the variable that count: those before the first part     *)
(* that is no number or has no end.                                        *)
InheritedMeaning(inherited) ==
    LET ends == SetToSortSeq({i \in DOMAIN inherited : inherited[i] \in {COLON, SEMICOLON}},
                             LAMBDA i, j : i < j)
        number(k) == DecimalMeaning(SubSeq(inherited, IF k = 1 THEN 1 ELSE ends[k - 1] + 1,
                                           ends[k] - 1), MaxInt)
        valid == {k \in 0..Len(ends) : \A j \in 1..k : number(j) # Error}
    IN  [k \in 1..Max(valid) |-> number(k)]

-----------------------------------------------------------------------------
Directory == [exists : BOOLEAN, owner : {"self", "user"}, rwx : BOOLEAN]

(* hky_create_paths: each directory is created if need be, given to the    *)
(* user, and opened to its owner; fails is the set of calls that fail.     *)
CreatePath(dir, user, fails) ==
    LET made  == IF dir.exists THEN dir ELSE [exists |-> TRUE, owner |-> "self", rwx |-> TRUE]
        owned == [made EXCEPT !.owner = user]
    IN  IF "mkdir" \in fails /\ ~dir.exists THEN <<dir, "error">>
        ELSE IF user = "unset" THEN <<made, "ok">>
        ELSE IF "stat" \in fails \/ ("chown" \in fails /\ made.owner # user)
             THEN <<made, "error">>
        ELSE IF "chmod" \in fails /\ ~made.rwx THEN <<owned, "error">>
        ELSE <<[owned EXCEPT !.rwx = TRUE], "ok">>

(* The first failure ends the loop and is returned.                        *)
CreatePaths(dirs, user, fails) ==
    LET step(s, i) ==
            IF s.rc = "error" THEN s
            ELSE LET d == CreatePath(s.dirs[i], user, fails[i])
                 IN  [dirs |-> [s.dirs EXCEPT ![i] = d[1]], rc |-> d[2]]
    IN  FoldLeftDomain(step, [dirs |-> dirs, rc |-> "ok"], dirs)

(* A directory the process may use.                                        *)
Usable(dir, user) == dir.exists /\ (user # "unset" => dir.owner = user /\ dir.rwx)
=============================================================================
