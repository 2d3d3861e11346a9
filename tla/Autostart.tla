----------------------------- MODULE Autostart -----------------------------
(***************************************************************************)
(* The autostart entry (crates/winnet/src/autostart.rs): what the toggle   *)
(* of the settings page reads from HKCU\...\Run and writes there.          *)
(*                                                                         *)
(* A path is the sequence of its words, the pieces between blanks; an      *)
(* entry is a command line: words, the first of which may be in quotes.    *)
(***************************************************************************)
EXTENDS Integers, Sequences, SequencesExt

CONSTANTS
  Exe,          \* the path of this executable
  Disk,         \* the files there are: path |-> the file it leads to
  Folded,       \* to_lowercase: word |-> word
  WithExe,      \* with .exe behind it, unless it has an extension: word |-> word
  Expanded      \* environment variables filled in: word |-> words

\* The program has a path, and there is no variable in it.
ASSUME ExeAssumption ==
  /\ Exe \in Seq(Range(Exe)) /\ Exe # << >>
  /\ \A i \in DOMAIN Exe : Expanded[Exe[i]] = <<Exe[i]>>

NoEntry == [quoted |-> FALSE, program |-> << >>, arguments |-> << >>]
Quoted(path, arguments) == [quoted |-> TRUE, program |-> path, arguments |-> arguments]
\* Without quotes nothing tells the program from its arguments.
Bare(words) == [quoted |-> FALSE, program |-> words, arguments |-> << >>]

\* quote, expand_env.
Quote(path) == Quoted(path, << >>)
ExpandEnv(run) ==
  [run EXCEPT !.program = FlattenSeq([i \in DOMAIN @ |-> Expanded[@[i]]])]

LowerCase(path) == [i \in DOMAIN path |-> Folded[path[i]]]
\* fs::canonicalize: spelling makes no difference to the file system.
Resolves(path) == LowerCase(path) \in DOMAIN Disk
Canonical(path) == Disk[LowerCase(path)]

\* Another name of the same file counts, a file that is gone does not.
MatchesExeByIdentity(path) ==
  Resolves(path) /\ Resolves(Exe) /\ Canonical(path) = Canonical(Exe)
MatchesExe(path) == LowerCase(path) = LowerCase(Exe)

\* What if a bare entry were cut at its first blank?
Beginnings_First(words) == {SubSeq(words, 1, 1)}

Beginnings(words) == {SubSeq(words, 1, n) : n \in 1 .. Len(words)}

\* The path must be followed by a blank or by the end.
MatchesPrefixBoundary(words) ==
  Len(Exe) <= Len(words) /\ MatchesExe(SubSeq(words, 1, Len(Exe)))

PointsAt(run) ==
  /\ run # NoEntry
  /\ IF run.quoted
     THEN MatchesExeByIdentity(run.program) \/ MatchesExe(run.program)
     ELSE \/ \E path \in Beginnings(run.program) : MatchesExeByIdentity(path)
          \/ MatchesPrefixBoundary(run.program)

\* CreateProcess: where no file has that name, .exe is added to it.
WithExtension(path) == [path EXCEPT ![Len(path)] = WithExe[@]]
Leads(path) == Resolves(path) \/ Resolves(WithExtension(path))
FileOf(path) == IF Resolves(path) THEN Canonical(path) ELSE Canonical(WithExtension(path))

\* What Windows starts at logon: the program in quotes, otherwise the first
\* piece from the left that leads to a file.
Program(run) ==
  LET e == ExpandEnv(run)
      found == {n \in 1 .. Len(e.program) : Leads(SubSeq(e.program, 1, n))}
  IN IF e = NoEntry THEN {}
     ELSE IF e.quoted THEN {path \in {e.program} : Leads(path)}
     ELSE {SubSeq(e.program, 1, n) : n \in {m \in found : \A k \in found : m <= k}}
Started(run) == {FileOf(path) : path \in Program(run)}

\* is_enabled, enable and disable, on an entry that may be absent together
\* with its key.
IsEnabled(run) == PointsAt(ExpandEnv(run))
Enable == Quote(Exe)
Disable == NoEntry

-----------------------------------------------------------------------------
(* A property, of a set of entries.                                        *)

\* The box of the toggle is checked exactly when Windows would start this
\* executable, whatever the spelling of its name, the quotes and the arguments;
\* with two exceptions.  A name without its .exe starts it and is not recognised,
\* and a bare entry that names another program further left starts that one.
BoxIsHonest(entries) ==
  \A run \in entries :
    /\ Canonical(Exe) \in Started(run) =>
         IsEnabled(run) \/ \E path \in Program(run) : ~Resolves(path)
    /\ IsEnabled(run) => Canonical(Exe) \in Started(run) \/ (~run.quoted /\ Started(run) # {})
=============================================================================
