------------------------------- MODULE PathRules -------------------------------
(***************************************************************************)
(* The two rules by which paths are understood that are more than an       *)
(* equality: what a file named on the command line is in the repository    *)
(* (path_utils.rs), and what a pattern of --exclude matches (filters.rs).  *)
(*                                                                         *)
(* A name typed by the user is a sequence of components, a pattern and a   *)
(* path sequences of characters; both grow by one at a time.               *)
(***************************************************************************)
EXTENDS Integers, SequencesExt

CONSTANTS
  Letters,      \* characters of a path but the slash
  Names,        \* ordinary components
  Root,         \* components of the repository's root
  Bases,        \* directories below it that --repo may name
  MaxPattern, MaxPath, MaxInput   \* bounds on the lengths

Star == "*"
Slash == "/"
Up == ".."
Here == "."

VARIABLES
  pattern, path,    \* what is matched
  base, input,      \* directory and name typed there
  absolute          \* whether the name starts at the root of the file system

vars == <<pattern, path, base, input, absolute>>

-----------------------------------------------------------------------------
(* lexical_normalize: a component at a time; above the root is the root.   *)
lexical_normalize(components) ==
  FoldLeft(LAMBDA done, c : CASE c = Here -> done
                              [] c = Up   -> IF done = <<>> THEN done ELSE Front(done)
                              [] OTHER    -> Append(done, c),
           <<>>, components)

Refused == <<"refused">>

(* What is in the repository is below its root, and not the root itself.   *)
StripRoot(normalized) ==
  IF IsStrictPrefix(Root, normalized)
  THEN SubSeq(normalized, Len(Root) + 1, Len(normalized)) ELSE Refused

(* A name that starts at the root of the file system is never empty.       *)
IsEmpty == ~absolute /\ input = <<>>
Typed == IF absolute THEN input ELSE base \o input
normalize_input_path == IF IsEmpty THEN Refused ELSE StripRoot(lexical_normalize(Typed))

-----------------------------------------------------------------------------
(* str::split('*') *)
split(text) ==
  LET stars == SetToSortSeq({i \in DOMAIN text : text[i] = Star}, LAMBDA i, j : i < j)
      ends  == <<0>> \o stars \o <<Len(text) + 1>>
  IN  [k \in 1..(Len(stars) + 1) |-> SubSeq(text, ends[k] + 1, ends[k+1] - 1)]

(* Where part stands in text, from offset on; offsets count from 0.        *)
Finds(text, part, offset) ==
  {i \in offset..(Len(text) - Len(part)) : SubSeq(text, i + 1, i + Len(part)) = part}

(* Mutant of AfterPart: a part may overlap the one before.                 *)
AfterPart_Overlap(at, part) == at + 1
AfterPart(at, part) == at + Len(part)

Failed == -1

(* Each part is looked for after the one before, the first one at the very *)
(* beginning unless a star precedes it; the last one must end the text.    *)
wildcard_match(pat, text) ==
  LET parts == split(pat)
      Step(offset, k) ==
        LET found == IF k = 1 THEN Finds(text, parts[k], 0) \cap {0}
                              ELSE Finds(text, parts[k], offset)
        IN  CASE offset = Failed \/ parts[k] = <<>> -> offset
              [] OTHER -> IF found = {} THEN Failed ELSE AfterPart(Min(found), parts[k])
      offset == FoldLeft(Step, 0, [k \in DOMAIN parts |-> k])
  IN  IF \A i \in DOMAIN pat : pat[i] # Star THEN pat = text
      ELSE offset # Failed /\ IsSuffix(Last(parts), text)

path_basename(p) ==
  LET slashes == {i \in DOMAIN p : p[i] = Slash}
  IN  IF slashes = {} THEN p ELSE SubSeq(p, Max(slashes) + 1, Len(p))

(* A pattern without a star names a file, with as many of its directories  *)
(* as it likes.                                                            *)
NamesFile(p, pat) == p = pat \/ IsSuffix(<<Slash>> \o pat, p) \/ path_basename(p) = pat

path_matches_pattern(p, pat) ==
  /\ pat # <<>>
  /\ IF \E i \in DOMAIN pat : pat[i] = Star
     THEN wildcard_match(pat, p) \/ wildcard_match(pat, path_basename(p))
     ELSE NamesFile(p, pat)

-----------------------------------------------------------------------------
Init ==
  /\ pattern = <<>> /\ path = <<>> /\ input = <<>>
  /\ base \in Bases /\ absolute \in BOOLEAN

MorePattern(c) ==
  /\ input = <<>> /\ Len(pattern) < MaxPattern /\ pattern' = Append(pattern, c)
  /\ UNCHANGED <<path, base, input, absolute>>

(* git prints no empty component.                                          *)
MorePath(c) ==
  /\ input = <<>> /\ Len(path) < MaxPath /\ path' = Append(path, c)
  /\ c = Slash => path # <<>> /\ Last(path) # Slash
  /\ UNCHANGED <<pattern, base, input, absolute>>

MoreInput(c) ==
  /\ pattern = <<>> /\ path = <<>> /\ Len(input) < MaxInput /\ input' = Append(input, c)
  /\ UNCHANGED <<pattern, path, base, absolute>>

Next ==
  \/ \E c \in Letters \cup {Star, Slash} : MorePattern(c)
  \/ \E c \in Letters \cup {Slash} : MorePath(c)
  \/ \E c \in Names \cup {Up, Here} : MoreInput(c)

Spec == Init /\ [][Next]_vars

-----------------------------------------------------------------------------
IsPath(p) == p # <<>> /\ Last(p) # Slash

(* What a star stands for, by definition: any characters, also slashes.    *)
RECURSIVE Glob(_, _)
Glob(pat, text) ==
  IF pat = <<>> THEN text = <<>>
  ELSE IF Head(pat) = Star
       THEN \E i \in 0..Len(text) : Glob(Tail(pat), SubSeq(text, i + 1, Len(text)))
       ELSE text # <<>> /\ Head(text) = Head(pat) /\ Glob(Tail(pat), Tail(text))

(* Looking for each part at its first place only is enough: whatever the   *)
(* star could stand for is found, and nothing else, parts that overlap     *)
(* and stars in a row included.                                            *)
WildcardIsGlob == IsPath(path) => (wildcard_match(pattern, path) <=> Glob(pattern, path))

(* A pattern excludes a file for its whole path or for its last name, and  *)
(* a file in a directory of that name is not excluded.                     *)
ExcludesWholeNames ==
  IsPath(path) /\ pattern # <<>> /\ Star \notin ToSet(pattern) =>
    (path_matches_pattern(path, pattern) <=>
       \E i \in 0..Len(path) : /\ SubSeq(path, i + 1, Len(path)) = pattern
                               /\ i = 0 \/ path[i] = Slash)

(* Whatever is typed, the answer is a file below the root: the components  *)
(* that stay are those that no later ".." takes back, and the name is      *)
(* refused exactly when it is empty or they do not lead through the root.  *)
InputStaysInside ==
  LET Count(i, j, what) == Cardinality({k \in i..j : (Typed[k] = Up) = what /\ Typed[k] # Here})
      stays == SelectSeq([i \in DOMAIN Typed |-> i],
                 LAMBDA i : /\ Typed[i] \notin {Up, Here}
                            /\ \A j \in i..Len(Typed) :
                                 Count(i + 1, j, TRUE) <= Count(i + 1, j, FALSE))
      walked == [n \in DOMAIN stays |-> Typed[stays[n]]]
  IN  /\ normalize_input_path # Refused => walked = Root \o normalize_input_path
      /\ normalize_input_path = Refused <=> IsEmpty \/ ~IsStrictPrefix(Root, walked)
=============================================================================
