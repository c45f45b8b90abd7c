------------------------------ MODULE LoadData ------------------------------
(***************************************************************************)
(* LoadData of main.cpp: the rows of a file with facts, examples or tests  *)
(* are written into a buffer that grows.  All columns are treated alike,   *)
(* so there is one; a slot of it holds the number of the line that was     *)
(* written there.                                                          *)
(*                                                                         *)
(* The capacity is compared before a line is read with the rows there      *)
(* already are, so the row that finds the buffer full is written behind    *)
(* its end.  The allocator may have rounded the size up and the row is     *)
(* kept; or another block's data is there, and either of the two is        *)
(* overwritten or the process dies in the allocator.                       *)
(***************************************************************************)
EXTENDS Integers, FiniteSets, Sequences

CONSTANTS
  File,              (* The files that are explored: for each line the value of
                        its row, 0 for a comment or an empty line.         *)
  InitialCapacity    (* --inital_block__size                               *)

(* A buffer with room for a single row never grows. *)
ASSUME LoadAssumption ==
  /\ InitialCapacity \in Nat /\ InitialCapacity >= 2
  /\ \A f \in File : f \in Seq(Nat)

VARIABLES
  file,
  read,          (* Lines read.                                            *)
  capacity,
  numLines,      (* num_lines: rows written.                               *)
  destination,   (* output_destinations, as the rows in front of it.       *)
  buffer,        (* The slots written: a line number, or Lost.             *)
  loading        (* "reading", "loaded" or "dead"                          *)

loadVars == <<file, read, capacity, numLines, destination, buffer, loading>>

Lost == 0
IsRow(f, n) == f[n] # 0

LoadInit ==
  /\ file \in File
  /\ read = 0 /\ capacity = InitialCapacity
  /\ numLines = 0 /\ destination = 0 /\ buffer = <<>>
  /\ loading = "reading"

GrownByQuarter(room) == (room * 5) \div 4   (* faulty: may not grow at all *)
Grown(room) == (room * 3) \div 2

AtTheOldEnd(rows, end) == end   (* faulty: a row was written behind it *)
AfterRealloc(rows, end) == rows

(* What is found later in a slot that a line is written to. *)
Stored(line, slot, room) == IF slot <= room THEN {line} ELSE {line, Lost}

(* One turn of the loop: the buffer grows, then the line is parsed. *)
ReadLine ==
  /\ loading = "reading" /\ read < Len(file)
  /\ LET grows == capacity < numLines
         room == IF grows THEN Grown(capacity) ELSE capacity
         next == IF grows THEN AfterRealloc(numLines, capacity) ELSE destination
         line == read + 1
     IN  /\ capacity' = room
         /\ \/ /\ IsRow(file, line)
               /\ \E stored \in Stored(line, next + 1, room) :
                    buffer' = [i \in DOMAIN buffer \cup {next + 1} |->
                                 IF i = next + 1 THEN stored ELSE buffer[i]]
               /\ destination' = next + 1 /\ numLines' = numLines + 1
            \/ /\ ~IsRow(file, line)
               /\ destination' = next
               /\ UNCHANGED <<numLines, buffer>>
  /\ read' = read + 1
  /\ UNCHANGED <<file, loading>>

DieInAllocator ==
  /\ loading = "reading" /\ capacity < numLines
  /\ loading' = "dead"
  /\ UNCHANGED <<file, read, capacity, numLines, destination, buffer>>

(* The buffer is cut to the rows there are. *)
EndOfFile ==
  /\ loading = "reading" /\ read = Len(file)
  /\ capacity' = numLines
  /\ loading' = "loaded"
  /\ UNCHANGED <<file, read, numLines, destination, buffer>>

LoadNext == ReadLine \/ DieInAllocator \/ EndOfFile

LoadSpec == LoadInit /\ [][LoadNext]_loadVars
-----------------------------------------------------------------------------
(* However often the buffer grows, no more than one row is ever behind its end,
   also when comments come between the row that fills it and the next one.  *)
OverrunIsOneRow == DOMAIN buffer \subseteq 1..capacity + 1

RowNumber(f, n) == Cardinality({m \in 1..n : IsRow(f, m)})

(* Every row of the file has its slot, in their order, whatever the buffer was
   moved to: num_lines is the number of rows, the slots up to it are written,
   and a slot has the row that belongs there unless it was written behind the
   end, which none of the first InitialCapacity rows is.                   *)
RowsAreLoaded ==
  /\ numLines = RowNumber(file, read)
  /\ DOMAIN buffer = 1..numLines
  /\ \A i \in DOMAIN buffer :
       \/ /\ buffer[i] \in 1..read /\ IsRow(file, buffer[i])
          /\ RowNumber(file, buffer[i]) = i
       \/ buffer[i] = Lost /\ i > InitialCapacity
=============================================================================
