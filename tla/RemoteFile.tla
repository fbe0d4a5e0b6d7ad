----------------------------- MODULE RemoteFile -----------------------------
(***************************************************************************)
(* What UCXIO promises: a file of fixed length with a position, read and   *)
(* written in place, where a call that reaches the end is cut short there. *)
(* Beside it is a window that belongs to somebody else, who writes it with *)
(* RemoteMemory.                                                           *)
(***************************************************************************)
EXTENDS Integers, Sequences

CONSTANTS
    Length, Width,  \* of the file and of the window
    Values          \* of a byte

VARIABLES
    file, window,   \* their contents
    pos,            \* where the file is read or written next
    result          \* what the last read returned

fileVars == <<file, window, pos, result>>

Init ==
    /\ file \in [0..(Length - 1) -> Values]
    /\ window \in [0..(Width - 1) -> Values]
    /\ pos = 0 /\ result = <<>>

\* Contents with the bytes of data written from a place on.
Overlay(contents, place, data) ==
    [i \in DOMAIN contents |->
        IF i - place + 1 \in DOMAIN data THEN data[i - place + 1] ELSE contents[i]]

\* Anywhere, beyond the end too, where nothing can be read or written.
Seek ==
    /\ pos' \in Nat
    /\ UNCHANGED <<file, window, result>>

Write ==
    \E n \in 0..(Length - pos) : \E data \in [1..n -> Values] :
        /\ file' = Overlay(file, pos, data)
        /\ pos' = pos + n
        /\ UNCHANGED <<window, result>>

Read ==
    \E n \in 0..(Length - pos) :
        /\ result' = [i \in 1..n |-> file[pos + i - 1]]
        /\ pos' = pos + n
        /\ UNCHANGED <<file, window>>

WindowWrite ==
    \E place \in 0..Width, n \in 0..Width : \E data \in [1..n -> Values] :
        /\ place + n <= Width
        /\ window' = Overlay(window, place, data)
        /\ UNCHANGED <<file, pos, result>>

Next == Seek \/ Write \/ Read \/ WindowWrite

Spec == Init /\ [][Next]_fileVars
=============================================================================
