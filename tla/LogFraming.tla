------------------------------ MODULE LogFraming ------------------------------
(***************************************************************************)
(* How the output of `git log -z` is taken apart (src/history/parsers.rs). *)
(* git prints the commits one after the other; git_log_records then hands  *)
(* out one record after the other, and one of three parsers reads it:      *)
(*                                                                         *)
(*   names    parse_git_log, of --name-only                                *)
(*   renames  parse_git_log_rename_aware, of --name-status                 *)
(*   follow   parse_git_follow_history, of --follow --name-status          *)
(*                                                                         *)
(* Bytes are numbers; one of them, Invalid, stands for a byte that is in   *)
(* no UTF-8 text.  A commit is a record of its fields, <<hash, time, date, *)
(* subject>> (<<hash>> for follow), and of its changes, each a sequence of *)
(* tokens: <<path>>, <<status, path>> or <<status, old, new>>.             *)
(***************************************************************************)
EXTENDS Naturals, SequencesExt

CONSTANTS
  Modes,       \* of the three parsers, those looked at
  Commits,     \* [Modes -> sets of commits]
  MaxCommits   \* bound on the length of a log

NUL == 0
LF  == 10
US  == 31
Dot == 46
Slash == 47
Digits == 48..57
HexDigits == Digits \cup 65..70 \cup 97..102
Zulu == 90
UTC == <<43, 48, 48, 58, 48, 48>>     \* +00:00
Invalid == 255
StatusA == 65
StatusC == 67
StatusM == 77
StatusR == 82
StatusT == 84

VARIABLES
  mode,     \* the parser
  log,      \* commits printed so far
  rest,     \* bytes printed and not taken apart yet
  header,   \* of the record that is taken apart
  parsed,   \* commits read
  pc        \* "printing", "reading", "body", "ok" or "error"

vars == <<mode, log, rest, header, parsed, pc>>

-----------------------------------------------------------------------------
Joined(parts, separator) ==
  FoldLeft(LAMBDA s, p : IF s = <<>> THEN p ELSE s \o <<separator>> \o p, <<>>, parts)
Ended(tokens) == FlattenSeq([i \in DOMAIN tokens |-> Append(tokens[i], NUL)])

(* What git prints; of a date in UTC, the offset is a letter.              *)
PrintedField(f) == IF IsSuffix(UTC, f) THEN Append(SubSeq(f, 1, Len(f) - Len(UTC)), Zulu) ELSE f
PrintedFields(fields) ==
  [i \in DOMAIN fields |-> IF i = 3 THEN PrintedField(fields[i]) ELSE fields[i]]

Printed(c) ==
  <<NUL>> \o Joined(PrintedFields(c.fields), US) \o <<NUL>>
    \o (IF c.changes = <<>> THEN <<>> ELSE <<LF>> \o Ended(FlattenSeq(c.changes)))

Init ==
  /\ mode \in Modes
  /\ log = <<>> /\ rest = <<>> /\ header = <<>> /\ parsed = <<>> /\ pc = "printing"

Emit(c) ==
  /\ pc = "printing" /\ Len(log) < MaxCommits
  /\ log' = Append(log, c)
  /\ rest' = rest \o (IF log = <<>> THEN <<>> ELSE <<NUL>>) \o Printed(c)
  /\ UNCHANGED <<mode, header, parsed, pc>>

EndOfOutput ==
  /\ pc = "printing"
  /\ pc' = "reading"
  /\ UNCHANGED <<mode, log, rest, header, parsed>>

-----------------------------------------------------------------------------
From(s, i) == SubSeq(s, i, Len(s))
IndexOf(s, x) == SelectInSeq(s, LAMBDA y : y = x)

(* One line feed separates the header from the changes.                    *)
StripSeparator(s) == IF s # <<>> /\ s[1] = LF THEN Tail(s) ELSE s

(* An empty token, a NUL with none or a NUL before it, ends the changes of *)
(* a commit.                                                               *)
FileEnd(s) ==
  LET empty == {i \in DOMAIN s : s[i] = NUL /\ (i = 1 \/ s[i - 1] = NUL)}
  IN  IF empty = {} THEN Len(s) ELSE Min(empty) - 1

(* The longest runs of bytes that are not the separator.                  *)
Tokens(s, separator) ==
  LET Begins(i) == s[i] # separator /\ (i = 1 \/ s[i - 1] = separator)
      Ends(i)   == s[i] # separator /\ (i = Len(s) \/ s[i + 1] = separator)
      first == SelectSeq([i \in DOMAIN s |-> i], Begins)
      last  == SelectSeq([i \in DOMAIN s |-> i], Ends)
  IN  [k \in DOMAIN first |-> SubSeq(s, first[k], last[k])]

(* splitn: at most n fields, the last with the separators that are left.   *)
splitn(s, n) ==
  LET parts[k \in 1..n] ==
        LET before == IF k = 1 THEN <<s>> ELSE parts[k - 1]
            at == IndexOf(Last(before), US)
        IN  IF k = 1 \/ at = 0 THEN before
            ELSE Front(before) \o <<SubSeq(Last(before), 1, at - 1), From(Last(before), at + 1)>>
  IN  parts[n]

-----------------------------------------------------------------------------
(* Mutant of PathCount: a copy has one path.                               *)
PathCount_Copy(status) == IF status[1] = StatusR THEN 2 ELSE 1

(* The paths that follow a status, none after one that is not supported.   *)
PathCount(status) ==
  CASE status[1] \in {StatusR, StatusC} -> 2
    [] status[1] \in {StatusA, StatusM, StatusT} -> 1
    [] OTHER -> 0

(* The changes of a name-status record, or that it cannot be read.         *)
StatusChanges(tokens) ==
  LET from[i \in 1..Len(tokens) + 1] ==
        IF i > Len(tokens) THEN [ok |-> TRUE, changes |-> <<>>]
        ELSE LET n == PathCount(tokens[i])
             IN  IF n = 0 \/ i + n > Len(tokens) THEN [ok |-> FALSE, changes |-> <<>>]
                 ELSE LET later == from[i + n + 1]
                      IN  [later EXCEPT !.changes = <<SubSeq(tokens, i, i + n)>> \o @]
  IN  from[1]

(* s without what was there before.                                        *)
Unique(s) ==
  LET firsts == SelectSeq([i \in DOMAIN s |-> i], LAMBDA i : IndexOf(s, s[i]) = i)
  IN  [k \in DOMAIN firsts |-> s[firsts[k]]]

IsUTF8(text) == Invalid \notin ToSet(text)

(* decode_git_path of a text: its components but the empty ones and ".".   *)
decode_git_path(raw) == Joined(SelectSeq(Tokens(raw, Slash), LAMBDA part : part # <<Dot>>), Slash)

(* The paths a parser decodes: of a copy, the rename-aware one leaves out  *)
(* the source.                                                             *)
DecodedPaths(change) ==
  CASE mode = "names"                                      -> change
    [] mode = "renames" /\ Head(change)[1] # StatusR -> <<Last(change)>>
    [] OTHER                                               -> Tail(change)

(* A change of which a path decodes to nothing is passed over.             *)
Decoded(changes) ==
  SelectSeq([i \in DOMAIN changes |->
               [renamed |-> mode = "renames" /\ changes[i][1][1] = StatusR,
                paths |-> [k \in DOMAIN DecodedPaths(changes[i]) |->
                             decode_git_path(DecodedPaths(changes[i])[k])]]],
            LAMBDA c : mode # "follow" => <<>> \notin ToSet(c.paths))

(* The last path of a change is the one it leaves.                         *)
Files(decoded) == Unique([i \in DOMAIN decoded |-> Last(decoded[i].paths)])
Renames(decoded) ==
  LET renames == SelectSeq(decoded, LAMBDA c : c.renamed)
  IN  [i \in DOMAIN renames |-> [old |-> renames[i].paths[1], new |-> renames[i].paths[2]]]
TargetPaths(decoded) == UNION {ToSet(decoded[i].paths) : i \in DOMAIN decoded} \ {<<>>}

normalize_git_iso8601_date(date) ==
  IF date # <<>> /\ Last(date) = Zulu THEN Front(date) \o UTC ELSE date

(* The header: a hash where a path is followed, else three fields and the  *)
(* subject, which may be missing.  git prints a time without a sign.       *)
Fields == splitn(header, 4)
HeaderIsRead ==
  IF mode = "follow"
  THEN header # <<>> /\ ToSet(header) \subseteq HexDigits
  ELSE Len(Fields) >= 3 /\ Fields[2] # <<>> /\ ToSet(Fields[2]) \subseteq Digits
HeaderFields ==
  IF mode = "follow" THEN <<header>>
  ELSE <<Fields[1], Fields[2], normalize_git_iso8601_date(Fields[3]),
         IF Len(Fields) = 4 THEN Fields[4] ELSE <<>>>>

(* What a parser makes of the header and the changes of a record.          *)
Read(changes) ==
  CASE mode = "names"   -> [fields |-> HeaderFields, files |-> Files(Decoded(changes))]
    [] mode = "renames" -> [fields |-> HeaderFields, files |-> Files(Decoded(changes)),
                            renames |-> Renames(Decoded(changes))]
    [] mode = "follow"  -> [fields |-> HeaderFields, files |-> TargetPaths(Decoded(changes))]

(* git_log_records: the header of the next record, after any NULs.  It has *)
(* an end and is text, or the parser fails and what is left is dropped.    *)
NextHeader ==
  LET start  == From(rest, SelectInSeq(rest, LAMBDA x : x # NUL))
      at     == IndexOf(start, NUL)
      text   == SubSeq(start, 1, at - 1)
  IN  /\ pc = "reading"
      /\ \E i \in DOMAIN rest : rest[i] # NUL
      /\ IF at = 0 \/ ~IsUTF8(text)
         THEN pc' = "error" /\ rest' = <<>> /\ UNCHANGED header
         ELSE /\ header' = text
              /\ rest' = StripSeparator(From(start, at + 1))
              /\ pc' = "body"
      /\ UNCHANGED <<mode, log, parsed>>

(* The bytes of its changes, and the parser's turn of the loop: it fails   *)
(* at a header, a status or a path that it cannot read.                    *)
NextBody ==
  /\ pc = "body"
  /\ \E end \in {FileEnd(rest)} : \E file_bytes \in {SubSeq(rest, 1, end)} :
     \E tokens \in {Tokens(file_bytes, NUL)} :
       LET made == IF mode = "names"
                   THEN [ok |-> TRUE, changes |-> [i \in DOMAIN tokens |-> <<tokens[i]>>]]
                   ELSE StatusChanges(tokens)
           text == \A i \in DOMAIN made.changes : \A raw \in ToSet(DecodedPaths(made.changes[i])) :
                     IsUTF8(raw)
       IN  /\ rest' = From(rest, end + 1)
           /\ IF HeaderIsRead /\ made.ok /\ text
              THEN pc' = "reading" /\ parsed' = Append(parsed, Read(made.changes))
              ELSE pc' = "error" /\ UNCHANGED parsed
  /\ UNCHANGED <<mode, log, header>>

Return ==
  /\ pc = "reading"
  /\ \A i \in DOMAIN rest : rest[i] = NUL
  /\ pc' = "ok"
  /\ UNCHANGED <<mode, log, rest, header, parsed>>

Next == (\E c \in Commits[mode] : Emit(c)) \/ EndOfOutput \/ NextHeader \/ NextBody \/ Return

Spec == Init /\ [][Next]_vars

-----------------------------------------------------------------------------
(* A commit the parsers are made for: git knows its date, and what is      *)
(* printed of it is UTF-8 text, but for the source of a copy, which the    *)
(* rename-aware parser has no use for.                                     *)
Supported(c) ==
  /\ \A i \in DOMAIN c.fields : IsUTF8(c.fields[i])
  /\ mode # "follow" => c.fields[2] # <<>>
  /\ \A i \in DOMAIN c.changes : \A k \in DOMAIN c.changes[i] :
       IsUTF8(c.changes[i][k]) \/ (mode = "renames" /\ c.changes[i][1][1] = StatusC /\ k = 2)

(* Record r tells what commit c is: its fields, the paths it leaves (of    *)
(* repeated ones the first counts) in their order, and its renames.        *)
Means(r, c) ==
  LET left == [i \in DOMAIN c.changes |-> Last(c.changes[i])]
      renamed == {c.changes[i] : i \in {j \in DOMAIN c.changes : c.changes[j][1][1] = StatusR}}
  IN  /\ r.fields = c.fields
      /\ IF mode = "follow"
         THEN r.files = UNION {ToSet(Tail(c.changes[i])) : i \in DOMAIN c.changes}
         ELSE /\ ToSet(r.files) = ToSet(left)
              /\ \A i, j \in DOMAIN r.files :
                   i < j => IndexOf(left, r.files[i]) < IndexOf(left, r.files[j])
      /\ mode = "renames" =>
           {<<r.renames[i].old, r.renames[i].new>> : i \in DOMAIN r.renames}
             = {Tail(x) : x \in renamed}

(* Types, and that a parser that ends well has read a record per commit.   *)
TypeOK ==
  /\ mode \in Modes /\ pc \in {"printing", "reading", "body", "ok", "error"}
  /\ Len(log) <= MaxCommits /\ Len(parsed) <= Len(log)
  /\ pc = "ok" => Len(parsed) = Len(log)

(* Whatever the paths and subjects are made of (line feeds, separators,    *)
(* names that look like a status, no path at all), each record read is the *)
(* commit git printed at its place; the output is refused only at a commit *)
(* that is not supported, and no such commit is taken for another one.     *)
ReadIsLog ==
  /\ \A i \in DOMAIN parsed : Supported(log[i]) /\ Means(parsed[i], log[i])
  /\ pc = "error" => Len(parsed) < Len(log) /\ ~Supported(log[Len(parsed) + 1])
=============================================================================
