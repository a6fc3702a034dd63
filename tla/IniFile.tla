------------------------------- MODULE IniFile ------------------------------
(***************************************************************************)
(* The INI files of src/ini.c, line by line.  Two parsers read them, and    *)
(* they do not read quite the same language: the vendored ini_parse, which  *)
(* calls a handler for every entry, and parse_file of read_profile_string   *)
(* and write_profile_string, which looks for one.                           *)
(*                                                                         *)
(* A line is a section header, an entry "name=value", a loose entry (as     *)
(* "name : value", or with spaces around the "="), a note (a comment), text *)
(* that is none of these, or blank.  It may be indented.  Lines end with a  *)
(* newline, and headers stand alone on theirs; there is no '%' in them,     *)
(* which write_profile_string would take for a format when it copies the    *)
(* rest of the file.                                                        *)
(***************************************************************************)
EXTENDS Integers, SequencesExt

Lines == [kind : {"header", "entry", "loose", "text", "note", "blank"},
          name : STRING, value : STRING, indent : BOOLEAN]

Line(kind, name, value) ==
  [kind |-> kind, name |-> name, value |-> value, indent |-> FALSE]
Header(name) == Line("header", name, "")
Entry(name, value) == Line("entry", name, value)
Loose(name, value) == Line("loose", name, value)
Text(value) == Line("text", "", value)
Note == Line("note", "", "")
Blank == Line("blank", "", "")
Indented(line) == [line EXCEPT !.indent = TRUE]

Of(file, kinds) == {i \in DOMAIN file : file[i].kind \in kinds}
LastOf(lines, i) == Max({0} \cup {j \in lines : j < i})

(* a line as the value of an entry it continues *)
Whole(line) ==
  CASE line.kind = "header" -> "[" \o line.name \o "]"
    [] line.kind = "entry" -> line.name \o "=" \o line.value
    [] line.kind = "loose" -> line.name \o " : " \o line.value
    [] OTHER -> line.value

-----------------------------------------------------------------------------
(* ini_parse_file, line by line: an indented line continues the entry       *)
(* before it, unless a header has reset prev_name since                     *)
AtHeader_KeepsName(st, line) == [st EXCEPT !.section = line.name]
AtHeader(st, line) == [st EXCEPT !.section = line.name, !.prev_name = ""]
AtEntry(st, n, line) ==
  [st EXCEPT !.prev_name = line.name,
             !.calls = Append(@, [line |-> n, section |-> st.section,
                                  key |-> line.name, value |-> line.value])]
AtContinuation(st, n, line) ==
  [st EXCEPT !.calls = Append(@, [line |-> n, section |-> st.section,
                                  key |-> st.prev_name,
                                  value |-> Whole(line)])]

AtLine(st, n, line) ==
  LET continues == line.indent /\ st.prev_name # ""
  IN CASE line.kind \in {"note", "blank"} -> st
       [] continues /\ line.kind \notin {"note", "blank"} ->
            AtContinuation(st, n, line)
       [] ~continues /\ line.kind = "header" -> AtHeader(st, line)
       [] ~continues /\ line.kind \in {"entry", "loose"} ->
            AtEntry(st, n, line)
       [] ~continues /\ line.kind = "text" -> st

(* after the first m lines; calls are those of the handler *)
Scan(file, m) ==
  LET scan[n \in 0 .. m] ==
        IF n = 0 THEN [section |-> "", prev_name |-> "", calls |-> << >>]
        ELSE AtLine(scan[n - 1], n, file[n])
  IN scan[m]
Calls(file) == Scan(file, Len(file)).calls

(* the handler of psuservice.c; of two entries the last one counts *)
handler(cfg, call) ==
  LET x == [section |-> call.section, key |-> call.key]
  IN IF x \in DOMAIN cfg THEN [cfg EXCEPT ![x] = call.value] ELSE cfg

Handled(calls, old) ==
  LET cfg[n \in 0 .. Len(calls)] ==
        IF n = 0 THEN old ELSE handler(cfg[n - 1], calls[n])
  IN cfg[Len(calls)]
ini_parse(file, old) == Handled(Calls(file), old)

-----------------------------------------------------------------------------
(* parse_file: strncmp with the length of the name in the file, so that any *)
(* prefix of the section or key asked for is taken for it; the first entry  *)
(* found counts, and without one the last section                           *)

FileHeaders(file) == {h \in Of(file, {"header"}) : ~file[h].indent}
SectionLines(file, section) ==
  {h \in FileHeaders(file) : IsPrefix(file[h].name, section)}

(* the line after a header and the white space that follows it *)
LineAfter(file, h) ==
  Min({i \in h + 1 .. Len(file) : file[i].kind # "blank"}
        \cup {Len(file) + 1})

(* An indented entry is not found, but for one right after the header: its  *)
(* indentation has been passed over with the white space.                   *)
KeyLines(file, section, key) ==
  LET headers == FileHeaders(file)
  IN {i \in Of(file, {"entry"}) :
        /\ file[i].name # "" /\ IsPrefix(file[i].name, key)
        /\ LET h == LastOf(headers, i)
           IN /\ h # 0 /\ IsPrefix(file[h].name, section)
              /\ file[i].indent => i = LineAfter(file, h)}

(* sec_e *)
SectionEnd_EndOfFile(file, section) == Len(file) + 1
SectionEnd(file, section) == LineAfter(file, Max(SectionLines(file, section)))

read_profile_string(file, section, key, default) ==
  LET found == KeyLines(file, section, key)
  IN IF found = {} THEN default ELSE file[Min(found)].value

(* Without the section it is added at the end of the file, after an empty   *)
(* line; without the key it is added at the head of the section, where it   *)
(* takes over the indentation of the line that stood there.                 *)
AddAt(file, i, line) ==
  IF i > Len(file) THEN Append(file, line)
  ELSE InsertAt([file EXCEPT ![i].indent = FALSE], i,
                [line EXCEPT !.indent = file[i].indent])

write_profile_string_NoHeader(file, section, key, value) ==
  file \o <<Entry(key, value)>>
write_profile_string_DropsRest(file, section, key, value) ==
  IF SectionLines(file, section) = {}
    THEN file \o <<Blank, Header(section), Entry(key, value)>>
    ELSE SubSeq(file, 1, SectionEnd(file, section) - 1)
           \o <<Entry(key, value)>>
write_profile_string(file, section, key, value) ==
  LET found == KeyLines(file, section, key)
  IN IF SectionLines(file, section) = {}
       THEN file \o (IF file = << >> THEN << >> ELSE <<Blank>>)
                 \o <<Header(section), Entry(key, value)>>
     ELSE IF found = {}
       THEN AddAt(file, SectionEnd(file, section), Entry(key, value))
     ELSE [file EXCEPT ![Min(found)].value = value]
=============================================================================
