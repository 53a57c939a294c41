------------------------------ MODULE Volatility ------------------------------
(***************************************************************************)
(* What git tells of a workspace's files (src/src/volatility.rs): the       *)
(* commits that touched each in the last months, and the report on them.    *)
(*                                                                         *)
(* A commit is its place in the log. A file is a sequence that ends with    *)
(* its name.                                                                *)
(***************************************************************************)
EXTENDS Naturals, Sequences, FiniteSets, FiniteSetsExt, SequencesExt

CONSTANTS
  Months,            \* --volatility-months
  LowThreshold,      \* --volatility-low
  HighThreshold,     \* --volatility-high
  Alphabet           \* the names, in their order

\* The command line does not compare them, and `statistics` counts a file twice
\* and underflows when they cross.
ASSUME ThresholdsInOrder == LowThreshold <= HighThreshold

\* What the run finds on the disk: whether volatility is asked for, whether git
\* answers for the directory of the manifest, the files below that directory,
\* the commits, and the lines of code of each file.
VARIABLE repo

\* A commit is `age` months old and did to each file in `changes` what git's
\* letter for it says.
HistoryTypeOK ==
  /\ {repo.asked, repo.usable} \subseteq BOOLEAN
  /\ \A c \in Range(repo.log) : c.age \in Nat /\ Range(c.changes) \subseteq {"A", "C", "D", "M", "R"}
  /\ \A f \in DOMAIN repo.lines : repo.lines[f] \in Nat

-----------------------------------------------------------------------------
\* The letters that `--diff-filter` lets through: all but deletions.
Listed == {"A", "C", "M", "R"}

\* `--since`: a commit as old as the window is out of it.
InWindow(c) == c.age < Months

\* `git log` runs beside the manifest, and its pathspec is of that directory.
LoggedFiles(c) == {f \in DOMAIN c.changes \cap repo.below : c.changes[f] \in Listed}

\* VolatilityAnalyzer::analyze: the files that were touched, each with its commits.
ChangesByFile ==
  LET touched(k) == IF InWindow(repo.log[k]) THEN LoggedFiles(repo.log[k]) ELSE {}
  IN  [f \in UNION {touched(k) : k \in DOMAIN repo.log} |-> {k \in DOMAIN repo.log : f \in touched(k)}]
Commits(f) == IF f \in DOMAIN ChangesByFile THEN ChangesByFile[f] ELSE {}

-----------------------------------------------------------------------------
\* Mutant: a count at a threshold is above it.
LevelFromThreshold(count) ==
  CASE count < LowThreshold -> "LOW"
    [] LowThreshold <= count /\ count < HighThreshold -> "MEDIUM"
    [] OTHER -> "HIGH"
\* Volatility::from_count.
Level(count) ==
  CASE count <= LowThreshold -> "LOW"
    [] LowThreshold < count /\ count <= HighThreshold -> "MEDIUM"
    [] OTHER -> "HIGH"

PositionOf(name) == CHOOSE k \in DOMAIN Alphabet : Alphabet[k] = name
NameBefore(a, b) == PositionOf(a) < PositionOf(b)

GetChangeCount(f) == Cardinality(Commits(f))
NormalizedScore(f) == <<GetChangeCount(f), Max({GetChangeCount(g) : g \in DOMAIN ChangesByFile})>>

\* How many files are of each level: what is neither low nor high is between.
Statistics ==
  LET files == DOMAIN ChangesByFile
      low == {f \in files : GetChangeCount(f) <= LowThreshold}
      high == {f \in files : GetChangeCount(f) > HighThreshold}
  IN  [files |-> Cardinality(files), low |-> Cardinality(low), high |-> Cardinality(high),
       medium |-> Cardinality(files) - Cardinality(low) - Cardinality(high)]

\* The files by their changes, then by their paths.
PathBefore(f, g) ==
  \E k \in DOMAIN g :
    /\ \A i \in 1 .. (k - 1) : i \in DOMAIN f /\ f[i] = g[i]
    /\ k \in DOMAIN f => NameBefore(f[k], g[k])
FormatReport ==
  LET before(f, g) ==
        \/ GetChangeCount(f) > GetChangeCount(g)
        \/ GetChangeCount(f) = GetChangeCount(g) /\ PathBefore(f, g)
      row(f) == [file |-> f, count |-> GetChangeCount(f), score |-> NormalizedScore(f),
                 level |-> Level(GetChangeCount(f))]
      files == SetToSortSeq(DOMAIN ChangesByFile, before)
  IN  [statistics |-> Statistics, rows |-> [k \in DOMAIN files |-> row(files[k])]]

=============================================================================
