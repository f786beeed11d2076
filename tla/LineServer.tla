----------------------------- MODULE LineServer -----------------------------
(***************************************************************************)
(* What the stdio bridge promises the client that owns its stdin: lines    *)
(* are taken one at a time, each request is answered once, with its own    *)
(* id and before the next line is read, and a notification never is.       *)
(* Other lines (no JSON, arrays, a null id, a request over the megabyte)   *)
(* may be answered without an id.                                          *)
(***************************************************************************)
EXTENDS Naturals, Sequences

Kind == {"request", "silent", "other"}

VARIABLES lines,  \* the kind of every line read so far
          out,    \* the answers written: which line each is for, and whether
                  \* it carries that line's id
          open    \* the line still to be dealt with, or 0

vars == <<lines, out, open>>

Init == lines = <<>> /\ out = <<>> /\ open = 0

Read(k) ==
    /\ open = 0
    /\ lines' = Append(lines, k)
    /\ open' = Len(lines')
    /\ UNCHANGED out

Reject ==
    /\ open = 0
    /\ lines' = Append(lines, "other")
    /\ out' = Append(out, [line |-> Len(lines'), id |-> FALSE])
    /\ UNCHANGED open

Answer(id) ==
    /\ open # 0
    /\ lines[open] # "silent"
    /\ lines[open] = "request" => id
    /\ out' = Append(out, [line |-> open, id |-> id])
    /\ open' = 0
    /\ UNCHANGED lines

Pass ==
    /\ open # 0
    /\ lines[open] # "request"
    /\ open' = 0
    /\ UNCHANGED <<lines, out>>

Next == \/ \E k \in Kind : Read(k)
        \/ Reject
        \/ \E id \in BOOLEAN : Answer(id)
        \/ Pass

Spec == Init /\ [][Next]_vars

(* Answers come in the order of the lines, at most one for each; none is   *)
(* for a notification, and one for a request has its id; and every request *)
(* is answered but the one still open.                                     *)
OneAnswerEach ==
    /\ \A a, b \in DOMAIN out : a < b => out[a].line < out[b].line
    /\ \A a \in DOMAIN out :
          /\ out[a].line \in DOMAIN lines
          /\ lines[out[a].line] # "silent"
          /\ lines[out[a].line] = "request" => out[a].id
    /\ \A n \in DOMAIN lines :
          lines[n] = "request" => \/ \E a \in DOMAIN out : out[a].line = n
                                 \/ n = open
==============================================================================
