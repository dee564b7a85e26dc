------------------------------- MODULE Cfgtxt -------------------------------
(* U-Boot's config.txt parser (lib/rpi_cfgtxt.c and cmd/cfgtxt.c of           *)
(* ci/uboot-patches/0001): sections that filter lines, single and indexed     *)
(* environment variables, include files, and "cfgtxt clear".                  *)
(*                                                                            *)
(* A file is a sequence of lines as copy_line and the first comparisons of    *)
(* handle_directive tell them apart, a record with the field t:               *)
(*   "section"   kind: all, none, broken (no ']', empty or too long), or one  *)
(*               of Kinds with the value v it asks for                        *)
(*   "single"    key=value, which sets one variable, and initramfs, which     *)
(*               sets two: the function set from keys to values               *)
(*   "list"      dtoverlay, dtparam and gpio: key and v                       *)
(*   "include"   v is the file, which the callback may not find               *)
(*   "other"     blank, comment, no '=' or a key too long                     *)
EXTENDS Naturals, Sequences, FiniteSets, FiniteSetsExt

CONSTANTS Contents,     \* the possible contents of all files: a set of functions
          Main,         \* the file that "cfgtxt import" is given
          Opts,         \* struct rpi_cfgtxt_opts
          Keys, Lists,  \* single and multi-value keys
          None,         \* a variable that is not set
          MaxDepth,     \* RPI_CFGTXT_MAX_INCLUDE_DEPTH
          MaxNames,     \* ARRAY_SIZE(names) in rpi_cfgtxt_clear
          MaxIndex,     \* bound on indexed variables
          MaxCommands   \* bound on import and clear commands

VARIABLES content,   \* file |-> its lines
          stack,     \* the calls of rpi_cfgtxt_parse, the innermost last
          single,    \* rpi_cfg_<key>
          indexed,   \* rpi_cfg_<key>_<n>
          counted,   \* rpi_cfg_<key>_count, None or the number
          commands,  \* import and clear commands so far
          fresh      \* 1: the last command was an import, into an empty environment

env == <<single, indexed, counted>>
vars == <<content, stack, single, indexed, counted, commands, fresh>>

Kinds == {"model", "serial", "partition", "tryboot", "edid", "gpio"}
Filters == {"unset", "match", "nomatch"}
Index == 0 .. MaxIndex - 1

Top == stack[Len(stack)]
Rest == SubSeq(stack, 1, Len(stack) - 1)
Lines(f) == content[f.file]
Line == Lines(Top)[Top.pos]

TypeOK ==
    /\ \A i \in DOMAIN stack :
          /\ stack[i].file \in DOMAIN content /\ stack[i].pos \in 1 .. Len(Lines(stack[i])) + 1
          /\ stack[i].filter \in [Kinds -> Filters] /\ stack[i].none \in 0 .. 1
          /\ stack[i].n \in [Lists -> 0 .. MaxIndex]
    /\ DOMAIN single = Keys /\ DOMAIN indexed = Lists \X Index
    /\ \A l \in Lists : counted[l] \in {None} \cup {<<n>> : n \in 1 .. MaxIndex}
    /\ commands \in 0 .. MaxCommands /\ fresh \in 0 .. 1

Unset == [k \in Kinds |-> "unset"]
Frame(file) ==
    [file |-> file, pos |-> 1, filter |-> Unset, none |-> 0, n |-> [l \in Lists |-> 0]]

NoSingle == [k \in Keys |-> None]
NoIndexed == [x \in Lists \X Index |-> None]
NoCounted == [l \in Lists |-> None]

Init ==
    /\ content \in Contents
    /\ stack = <<>> /\ commands = 0 /\ fresh = 0
    /\ single = NoSingle /\ indexed = NoIndexed /\ counted = NoCounted
-----------------------------------------------------------------------------
\* The sections that hold on a board model
model_filters ==
    [pi0 |-> {"pi0"}, pi02 |-> {"pi0", "pi02"}, pi1 |-> {"pi1"}, cm1 |-> {"pi1", "cm1"},
     pi2 |-> {"pi2"}, pi3 |-> {"pi3"}, cm3 |-> {"pi3", "cm3"},
     pi4 |-> {"pi4"}, pi400 |-> {"pi4", "pi400"}, cm4 |-> {"pi4", "cm4"},
     pi5 |-> {"pi5"}, pi500 |-> {"pi5", "pi500"}, cm5 |-> {"pi5", "cm5"}]

Holds(line) ==
    CASE line.kind = "model" -> line.v \in model_filters[Opts.model]
      [] line.kind \in {"serial", "partition"} -> line.v = Opts[line.kind]
      [] line.kind = "tryboot" -> Opts.tryboot = 1
      [] line.kind \in {"edid", "gpio"} -> FALSE

M_Section_AllButGpio(f, line) ==
    IF line.kind = "all"
    THEN [f EXCEPT !.none = 0, !.filter = [Unset EXCEPT !["gpio"] = f.filter["gpio"]]]
    ELSE IF line.kind = "none" THEN [f EXCEPT !.none = 1]
    ELSE [f EXCEPT !.none = 0,
                   !.filter[line.kind] = IF Holds(line) THEN "match" ELSE "nomatch"]

\* eval_section_header for a header it can read
eval_section_header(f, line) ==
    IF line.kind = "all" THEN [f EXCEPT !.none = 0, !.filter = Unset]
    ELSE IF line.kind = "none" THEN [f EXCEPT !.none = 1]
    ELSE [f EXCEPT !.none = 0,
                   !.filter[line.kind] = IF Holds(line) THEN "match" ELSE "nomatch"]

line_accepted(f) == f.none = 0 /\ \A k \in Kinds : f.filter[k] # "nomatch"

\* The innermost call has a line of type t before it.
Reading(t) == stack # <<>> /\ Top.pos <= Len(Lines(Top)) /\ Line.t = t
Next1(f) == [f EXCEPT !.pos = @ + 1]

Section ==
    /\ Reading("section")
    /\ stack' = Append(Rest, Next1(IF Line.kind = "broken" THEN Top
                                   ELSE eval_section_header(Top, Line)))
    /\ UNCHANGED <<content, env, commands, fresh>>

Skip ==
    /\ stack # <<>> /\ Top.pos <= Len(Lines(Top))
    /\ Line.t = "other" \/ (Line.t # "section" /\ ~line_accepted(Top))
    /\ stack' = Append(Rest, Next1(Top))
    /\ UNCHANGED <<content, env, commands, fresh>>

Assigned(k) == IF k \in DOMAIN Line.set THEN Line.set[k] ELSE single[k]

\* handle_directive of what sets single variables
Single ==
    /\ Reading("single") /\ line_accepted(Top)
    /\ single' = [k \in Keys |-> Assigned(k)]
    /\ stack' = Append(Rest, Next1(Top))
    /\ UNCHANGED <<content, indexed, counted, commands, fresh>>

Slot(n) == n

\* set_env_indexed with the counter of this call
List ==
    /\ Reading("list") /\ line_accepted(Top)
    /\ LET k == Line.key n == Top.n[k]
       IN  /\ n < MaxIndex
           /\ indexed' = [indexed EXCEPT ![<<k, Slot(n)>>] = Line.v]
           /\ counted' = [counted EXCEPT ![k] = <<n + 1>>]
           /\ stack' = Append(Rest, [Next1(Top) EXCEPT !.n[k] = n + 1])
    /\ UNCHANGED <<content, single, commands, fresh>>

\* include_depth is the number of calls around this one.
MayInclude == Opts.include_cb = 1 /\ Len(stack) - 1 < MaxDepth

\* The callback finds the file, and rpi_cfgtxt_parse does not refuse it as empty.
Loads(file) == file \in DOMAIN content /\ content[file] # <<>>

Include ==
    /\ Reading("include") /\ line_accepted(Top)
    /\ stack' = IF MayInclude /\ Loads(Line.v)
                THEN Rest \o <<Next1(Top), Frame(Line.v)>>
                ELSE Append(Rest, Next1(Top))
    /\ UNCHANGED <<content, env, commands, fresh>>

\* The end of a file: rpi_cfgtxt_parse returns.
Return ==
    /\ stack # <<>> /\ Top.pos > Len(Lines(Top))
    /\ stack' = Rest
    /\ UNCHANGED <<content, env, commands, fresh>>

Set == {<<"single", k>> : k \in {k \in Keys : single[k] # None}}
       \cup {<<"indexed", x>> : x \in {x \in Lists \X Index : indexed[x] # None}}
       \cup {<<"counted", l>> : l \in {l \in Lists : counted[l] # None}}

\* do_cfgtxt_import
Import ==
    /\ stack = <<>> /\ commands < MaxCommands /\ content[Main] # <<>>
    /\ stack' = <<Frame(Main)>>
    /\ commands' = commands + 1 /\ fresh' = IF Set = {} THEN 1 ELSE 0
    /\ UNCHANGED <<content, env>>

\* What rpi_cfgtxt_clear collects before it deletes: as many names as fit, in the
\* order of the hash table.
Removed == {S \in SUBSET Set : Cardinality(S) = Min({MaxNames, Cardinality(Set)})}

Clear ==
    /\ stack = <<>> /\ commands < MaxCommands
    /\ \E S \in Removed :
          /\ single' = [k \in Keys |-> IF <<"single", k>> \in S THEN None ELSE single[k]]
          /\ indexed' = [x \in Lists \X Index |->
                            IF <<"indexed", x>> \in S THEN None ELSE indexed[x]]
          /\ counted' = [l \in Lists |-> IF <<"counted", l>> \in S THEN None ELSE counted[l]]
    /\ commands' = commands + 1 /\ fresh' = 0
    /\ UNCHANGED <<content, stack>>

Next == Section \/ Skip \/ Single \/ List \/ Include \/ Return \/ Import \/ Clear

Spec == Init /\ [][Next]_vars
-----------------------------------------------------------------------------
(* What the sections of a file say about its line i, without a state machine: *)
(* of the headers since the last [all] the last one of each kind counts, and  *)
(* a [none] counts until the next header.                                     *)
Accepted(lines, i) ==
    LET headers == {j \in 1 .. i - 1 : lines[j].t = "section" /\ lines[j].kind # "broken"}
        alls == {j \in headers : lines[j].kind = "all"}
        last(k) == {j \in headers : lines[j].kind = k /\ \A a \in alls : a < j}
    IN  /\ headers # {} => lines[Max(headers)].kind # "none"
        /\ \A k \in Kinds : last(k) # {} => Holds(lines[Max(last(k))])

\* The directives of a file from line i on, with those of the files it includes
RECURSIVE Flat(_, _, _)
Flat(file, i, depth) ==
    IF file \notin DOMAIN content \/ depth > MaxDepth THEN <<>>
    ELSE IF i > Len(content[file]) THEN <<>>
    ELSE LET line == content[file][i]
             here == IF ~Accepted(content[file], i) THEN <<>>
                     ELSE IF line.t = "include"
                     THEN IF Opts.include_cb = 1 THEN Flat(line.v, 1, depth + 1) ELSE <<>>
                     ELSE IF line.t \in {"single", "list"} THEN <<line>> ELSE <<>>
         IN  here \o Flat(file, i + 1, depth)

\* An import into an empty environment that has ended
Imported == stack = <<>> /\ fresh = 1

(* eval_section_header and line_accepted let through the lines that the      *)
(* sections before them in their own file say, in whatever order the headers *)
(* come and however the file was reached.                                    *)
FiltersExact ==
    \A i \in DOMAIN stack : line_accepted(stack[i]) <=> Accepted(Lines(stack[i]), stack[i].pos)

(* Every single variable has the value of the last accepted line that sets   *)
(* it, those of included files in their place, and is not set if none does.  *)
LastWins ==
    Imported =>
        LET flat == Flat(Main, 1, 0) IN
        \A k \in Keys :
            LET at == {i \in DOMAIN flat : flat[i].t = "single" /\ k \in DOMAIN flat[i].set}
            IN  single[k] = IF at = {} THEN None ELSE flat[Max(at)].set[k]

(* The indexed variables of a multi-value key are its accepted lines in      *)
(* order, and the count says how many (set_env_indexed).                     *)
ListsKept ==
    Imported =>
        \A l \in Lists :
            LET of == SelectSeq(Flat(Main, 1, 0),
                                LAMBDA x : IF x.t = "list" THEN x.key = l ELSE FALSE)
            IN  /\ counted[l] = IF of = <<>> THEN None ELSE <<Len(of)>>
                /\ \A n \in Index :
                      indexed[<<l, n>>] = IF n < Len(of) THEN of[n + 1].v ELSE None

(* The same, for files where only config.txt itself has multi-value keys.    *)
ListsOfMain ==
    (\A f \in DOMAIN content \ {Main} : \A i \in DOMAIN content[f] : content[f][i].t # "list")
        => ListsKept

(* Files that include each other are read to the depth the header promises   *)
(* and no deeper (RPI_CFGTXT_MAX_INCLUDE_DEPTH).                             *)
DepthBounded == Len(stack) <= MaxDepth + 1

(* "cfgtxt clear" leaves no rpi_cfg_ variable behind (rpi_cfgtxt_clear).     *)
ClearsAll == [][commands' # commands /\ stack' = <<>> => Set' = {}]_vars
=============================================================================
