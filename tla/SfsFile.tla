------------------------------ MODULE SfsFile ------------------------------
(***************************************************************************)
(* What the simple file system promises to the layers above it: a file is  *)
(* a sequence of words.  A write replaces or appends words (a full disk    *)
(* may cut it short), a seek past the end appends zeros, opening with      *)
(* O_TRUNC empties the file, a read returns the words that are there.      *)
(* Mounting, unmounting, syncing, loading and reclaiming inodes do not     *)
(* show.                                                                   *)
(***************************************************************************)
EXTENDS Integers, Sequences

CONSTANTS Files       \* the files of the image; a file's name is also the word written to it

VARIABLES content,    \* content[f]: the words of file f, or Absent
          names,      \* the directory, in the order of its entries
          call        \* the last call: op, file, position and the words it moved

vars == <<content, names, call>>

Absent == <<-1>>
Calls == {"none", "create", "write", "read", "grow", "trunc", "stat", "list"}

\* c with the words ws stored from position pos on, a gap filled with zeros
Overwritten(c, pos, ws) ==
    [i \in 1..(IF pos + Len(ws) > Len(c) THEN pos + Len(ws) ELSE Len(c)) |->
        CASE i > pos /\ i <= pos + Len(ws) -> ws[i - pos]
          [] i <= Len(c) /\ (i <= pos \/ i > pos + Len(ws)) -> c[i]
          [] OTHER -> 0]

Init == content = [f \in Files |-> Absent] /\ Len(names) = 2 /\ call.op = "none"

\* mksfs adds a file whose words are its own
Create == /\ call'.op = "create"
          /\ content[call'.file] = Absent
          /\ content' = [content EXCEPT ![call'.file] = call'.data]
          /\ names' = Append(names, call'.file)

\* words are stored; a write that a full disk stops at once stores none, but the
\* file may end at its position afterwards
Write == /\ call'.op = "write"
         /\ \/ content' = [content EXCEPT ![call'.file] = Overwritten(@, call'.pos, call'.data)]
            \/ call'.data = <<>> /\ UNCHANGED content
         /\ UNCHANGED names

Read == /\ call'.op = "read"
        /\ call'.data = SubSeq(content[call'.file], call'.pos + 1, call'.pos + Len(call'.data))
        /\ UNCHANGED <<content, names>>

\* a seek past the end
Grow == /\ call'.op = "grow"
        /\ content' = [content EXCEPT ![call'.file] = Overwritten(@, call'.pos, <<>>)]
        /\ UNCHANGED names

Truncate == /\ call'.op = "trunc"
            /\ content' = [content EXCEPT ![call'.file] = <<>>]
            /\ UNCHANGED names

Stat == /\ call'.op = "stat"
        /\ call'.pos = Len(content[call'.file])
        /\ UNCHANGED <<content, names>>

List == /\ call'.op = "list"
        /\ call'.data = IF call'.pos <= Len(names) THEN <<names[call'.pos]>> ELSE <<>>
        /\ UNCHANGED <<content, names>>

\* every other call, and a call that fails
Other == call'.op = "none" /\ UNCHANGED <<content, names>>

Next == Create \/ Write \/ Read \/ Grow \/ Truncate \/ Stat \/ List \/ Other

Spec == Init /\ [][Next]_vars
=============================================================================
