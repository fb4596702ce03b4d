-------------------------------- MODULE Ac97 --------------------------------
(***************************************************************************)
(* The sound driver (kernel/drivers/ac97.c): a writer copies buffers into  *)
(* a few pages and hands them to the controller through a ring of          *)
(* descriptors; the controller plays them on its own and interrupts after  *)
(* each.  Writers exclude each other by a mutex and are one here; the      *)
(* controller and its interrupt come between any two of its steps.         *)
(*                                                                         *)
(* A buffer is its number in the order of the writes.                      *)
(***************************************************************************)
EXTENDS Naturals, Sequences

CONSTANTS Pages,       \* OUTPUT_BUF_NUM_PAGES
          Entries,     \* BUFFER_DESCRIPTOR_LIST_MAX_NUM_ENTRIES
          MaxBuffers   \* bound: buffers written

VARIABLES civ, lvi, device, ioc,        \* the controller: indexes, state, interrupt status
          content, list,                \* output_buf and buffer_descriptor_list
          page, idx, running, full,     \* output_buf_page_idx ... _list_is_full
          at, cur, last,                \* write_single_buffer and its locals
          next, played                  \* history: the next buffer, and what was heard

ac97Vars == <<civ, lvi, device, ioc, content, list, page, idx, running, full, at, cur, last, next, played>>
deviceVars == <<civ, lvi, device, ioc, played>>
bufVars == <<content, list, page, idx>>

Init == /\ civ = 0 /\ lvi = 0 /\ device = "stopped" /\ ioc = FALSE
        /\ content = [p \in 0..(Pages - 1) |-> 0] /\ list = [i \in 0..(Entries - 1) |-> 0]
        /\ page = 0 /\ idx = 0 /\ running = FALSE /\ full = FALSE
        /\ at = "idle" /\ cur = 0 /\ last = 0 /\ next = 1 /\ played = <<>>

-----------------------------------------------------------------------------
ReadCurrent == /\ \/ at = "idle" /\ next <= MaxBuffers
                  \/ at = "again"
               /\ at' = "last" /\ cur' = civ
               /\ UNCHANGED <<last, next, running, full>> /\ UNCHANGED <<deviceVars, bufVars>>
ReadLast == /\ at = "last" /\ at' = "decide" /\ last' = lvi
            /\ UNCHANGED <<cur, next, running, full>> /\ UNCHANGED <<deviceVars, bufVars>>

(* Mutant: the buffer that is being played is not counted.                 *)
head_distance_short == (last + Entries - cur) % Entries

head_distance == ((last + Entries - cur) % Entries) + (IF running THEN 1 ELSE 0)

Decide == /\ at = "decide" /\ at' = IF head_distance < Pages THEN "copy" ELSE "full"
          /\ UNCHANGED <<cur, last, next, running, full>> /\ UNCHANGED <<deviceVars, bufVars>>
MarkFull == /\ at = "full" /\ at' = "block" /\ full' = TRUE
            /\ UNCHANGED <<cur, last, next, running>> /\ UNCHANGED <<deviceVars, bufVars>>

(* file_block: woken, or -EAGAIN for a file opened with O_NONBLOCK         *)
Unblock == /\ at = "block"
           /\ at' \in (IF full THEN {"idle"} ELSE {IF running THEN "again" ELSE "copy"})
           /\ UNCHANGED <<cur, last, next, running, full>> /\ UNCHANGED <<deviceVars, bufVars>>

Copy == /\ at = "copy" /\ at' = "post"
        /\ content' = [content EXCEPT ![page] = next]
        /\ UNCHANGED <<list, page, idx, cur, last, next, running, full>> /\ UNCHANGED deviceVars

(* The entry, the last valid index, and start_dma the first time           *)
Post == /\ at = "post" /\ at' = "idle" /\ next' = next + 1
        /\ list' = [list EXCEPT ![idx] = page] /\ lvi' = idx
        /\ running' = TRUE
        /\ device' = IF device = "stopped" THEN "playing" ELSE device
        /\ page' = (page + 1) % Pages /\ idx' = (idx + 1) % Entries
        /\ UNCHANGED <<content, cur, last, full, civ, ioc, played>>

(* irq_handler: the status is overwritten before the bit that says the     *)
(* controller has halted is looked at, so dma_is_running stays true.       *)
irq_handler == /\ ioc /\ ioc' = FALSE /\ full' = FALSE
               /\ UNCHANGED <<civ, lvi, device, played, at, cur, last, next, running>> /\ UNCHANGED bufVars

-----------------------------------------------------------------------------
(* The controller (external): it halts after the last valid entry and goes *)
(* on with the next one when there is one.                                 *)
Play == /\ device = "playing"
        /\ played' = Append(played, content[list[civ]]) /\ ioc' = TRUE
        /\ IF civ = lvi THEN device' = "halted" /\ UNCHANGED civ
           ELSE civ' = (civ + 1) % Entries /\ UNCHANGED device
        /\ UNCHANGED <<lvi, at, cur, last, next, running, full>> /\ UNCHANGED bufVars
GoOn == /\ device = "halted" /\ civ # lvi
        /\ device' = "playing" /\ civ' = (civ + 1) % Entries
        /\ UNCHANGED <<lvi, ioc, played, at, cur, last, next, running, full>> /\ UNCHANGED bufVars

Next == \/ ReadCurrent \/ ReadLast \/ Decide \/ MarkFull \/ Unblock \/ Copy \/ Post
        \/ irq_handler \/ Play \/ GoOn

Spec == Init /\ [][Next]_ac97Vars

-----------------------------------------------------------------------------
(* The buffers are heard in the order they were written and none is        *)
(* overwritten before, although the writer decides from an index it read   *)
(* some time ago; and the writer never finds more buffers under way than   *)
(* there are pages (the branch that would move the ring's index past its   *)
(* end is not reached).                                                    *)
SoundInOrder ==
  /\ \A i \in DOMAIN played : played[i] = i
  /\ at = "decide" => head_distance <= Pages
=============================================================================
