------------------------------ MODULE MCPackStore ------------------------------
(***************************************************************************)
(* Families of object directories for PackStore: three objects, a commit   *)
(* and two trees, in two packs with two offsets each.                      *)
(***************************************************************************)
EXTENDS PackStore, TLC

CONSTANTS a, b, c

MCIds == {a, b, c}
MCPacks == 1..2
MCOffsets == 1..2
MCKind == [x \in {a, b, c, Garbage} |-> IF x = a THEN "commit" ELSE "tree"]
MCSize == [x \in {a, b, c, Garbage} |-> CASE x = a -> 1 [] x = b -> 2 [] OTHER -> 4]

Full(id) == [object |-> id, form |-> "full", base |-> None]
OnOffset(id, offset) == [object |-> id, form |-> "offset", base |-> offset]
OnId(id, base) == [object |-> id, form |-> "id", base |-> base]
Broken(id) == [object |-> id, form |-> "broken", base |-> None]
Unused == Broken(None)

Layout(first, second, third, fourth) ==
  (<<1, 1>> :> first) @@ (<<1, 2>> :> second) @@ (<<2, 1>> :> third) @@ (<<2, 2>> :> fourth)

(* Sound directories: a chain inside a pack, chains across packs, the same *)
(* object twice, everything loose.                                         *)
SoundLayouts ==
  { Layout(Full(a), OnOffset(b, 1), OnId(c, b), Unused),
    Layout(Full(b), OnId(a, c), Full(c), OnOffset(b, 1)),
    Layout(Full(b), Unused, Full(a), OnOffset(c, 1)) }

(* Every form of a delta, bases that are the slot itself, cycles over      *)
(* offsets, ids and both, slots that cannot be read.                       *)
AnyLayouts ==
  { Layout(first, second, third, Unused) :
      first \in {Full(a), OnOffset(a, 1), OnId(a, b), OnId(a, c), Broken(a)},
      second \in {Full(b), OnOffset(b, 1), OnOffset(b, 2), OnId(b, a), OnId(b, c)},
      third \in {Full(c), OnOffset(c, 1), OnId(c, a), OnId(c, b)} }

Directory(layout, files, corrupt, visible) ==
  [slots |-> layout, loose |-> files, corrupt |-> corrupt, visible |-> visible]

SoundRepositories ==
  {Directory(l, f, {}, f) : l \in SoundLayouts, f \in {{}, {c}}}
AnyRepositories ==
  {Directory(l, f, {}, f) : l \in AnyLayouts, f \in SUBSET {a, c}}
    \cup {Directory(l, {b}, {b}, {b}) : l \in SoundLayouts}
ChangingRepositories ==
  {Directory(l, f, {}, v) : l \in SoundLayouts, f \in {{}, {b}}, v \in {{b}, {b, c}}}
    \cup {Directory(Layout(OnId(a, b), OnId(b, a), Full(c), Unused), {}, {}, {a, b})}
=============================================================================
