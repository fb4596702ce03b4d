----------------------------- MODULE MCDevices -----------------------------
(***************************************************************************)
(* Devices: a behaviour is about a serial line, the keyboard, a screen, a  *)
(* disk, the sound card, or a task that waits for files and for time.      *)
(***************************************************************************)
EXTENDS Console

CONSTANTS Vts, NumColumns, NumRows, TAB_STOP, Outputs, Background, MaxOutputs

CONSTANTS Tasks, NoTask, Size, Modulus, Capacity, MaxRequests,
          Pages, Entries, MaxBuffers,
          Fds, Closed, Readiness, PollSets, SelectSets, Timeouts, Settings, NANOS, CLK_TCK,
          MaxUptime, MaxCalls

VARIABLES which, vt, screen, activeVt, outputs, plainText,
          stage, status, desc, freeHead, numFree, shadow, ring, availIdx, usedIdx, seen,
          owner, at, req, chain, served, made,
          civ, lvi, device, ioc, content, list, page, idx, running, full, soundAt, cur, last,
          next, played,
          uptime, now, ready, call, calls

V == INSTANCE Vt
D == INSTANCE Virtio
A == INSTANCE Ac97 WITH at <- soundAt
P == INSTANCE Poll

vtVars == <<vt, screen, activeVt, outputs, plainText>>
virtioVars == <<stage, status, desc, freeHead, numFree, shadow, ring, availIdx, usedIdx, seen,
                owner, at, req, chain, served, made>>
ac97Vars == <<civ, lvi, device, ioc, content, list, page, idx, running, full, soundAt, cur, last,
              next, played>>
pollVars == <<uptime, now, ready, call, calls>>
driverVars == <<virtioVars, ac97Vars, pollVars>>

K(code, fn, key, pressed) == [code |-> code, fn |-> fn, key |-> key, pressed |-> pressed]

MCScancodes == { K("ctrl", 0, "none", TRUE), K("ctrl", 0, "none", FALSE),
                 K("alt", 0, "none", TRUE), K("c", 0, "c", TRUE), K("f2", 2, "none", TRUE),
                 K("up", 0, "none", TRUE) }
MCModes == { (Default \ {"ICANON", "ECHO"}) \cup {"INLCR"} }

CONSTANTS r1, r2
MCMaxReads == (r1 :> 2) @@ (r2 :> 1)
MCReadSizes == (r1 :> {1}) @@ (r2 :> {2})

Reads(d) == \A r \in TtyReaders : reader'[r].of \in {0, d}

-----------------------------------------------------------------------------
T(c) == [number |-> FALSE, c |-> c, n |-> 0]
N(n) == [number |-> TRUE, c |-> "b", n |-> n]
Csi(numbers, c) == <<T("esc"), T("[")>> \o [i \in DOMAIN numbers |-> N(numbers[i])] \o <<T(c)>>

MCOutputs ==
  { <<T("a")>>, <<T("b"), T("a")>>, <<T("nl")>>, <<T("cr")>>, <<T("bs")>>, <<T("tab")>>,
    <<T("hi")>>, <<T("esc")>> }
  \cup { Csi(<<>>, c) : c \in {"A", "B", "C", "D", "E", "F", "G", "H", "J", "K", "m", "a"} }
  \cup { Csi(<<2>>, "J"), Csi(<<1>>, "J"), Csi(<<1>>, "K"), Csi(<<2>>, "K"), Csi(<<2, 2>>, "H"),
         Csi(<<9>>, "G"), Csi(<<-25>>, "l"), Csi(<<7>>, "m"), Csi(<<1, 31>>, "m"),
         Csi(<<104, 38>>, "m"), Csi(<<92, 48>>, "m"), Csi(<<22, 43>>, "m") }

-----------------------------------------------------------------------------
MCReadiness == {{}, {"IN"}, {"OUT", "HUP"}}
MCPollSets == { <<>>, << <<1, {"IN"}>>, <<-1, {"IN"}>>, <<2, {}>> >>, << <<1, {"OUT"}>>, <<3, {"IN"}>> >> }
Sets(r, w, e) == [read |-> r, write |-> w, except |-> e]
MCSelectSets == { Sets({}, {}, {}), Sets({1}, {1, 2}, {2}), Sets({3}, {1}, {}) }
Time(sec, nsec) == [sec |-> sec, nsec |-> nsec]
MCTimeouts == {Time(-1, 0), Time(0, 0), Time(0, 3), Time(1, 2)}
MCSettings == {Time(0, 0), Time(7, 2)}

-----------------------------------------------------------------------------
MCInit == /\ Init /\ V!Init /\ D!Init /\ A!Init /\ P!Init
          /\ which \in {"serial", "keys", "screen", "disk", "sound", "poll"}
SerialOnly ==
  UNCHANGED kbd /\ Reads(3) /\ \A t \in VirtualTtys : tty'[t] = tty[t]
KeysOnly ==
  /\ Reads(1) /\ reader'[r2] = reader[r2]
  /\ tty'[2].pgid = 0 /\ tty'[3] = tty[3] /\ \A t \in Ttys : tty'[t].plain

MCNext ==
  /\ UNCHANGED which
  /\ \/ /\ which \in {"serial", "keys"} /\ Next /\ UNCHANGED vtVars /\ UNCHANGED driverVars
        /\ which = "serial" => SerialOnly
        /\ which = "keys" => KeysOnly
     \/ which = "screen" /\ V!Next /\ UNCHANGED conVars /\ UNCHANGED driverVars
     \/ which = "disk" /\ D!Next /\ UNCHANGED <<conVars, vtVars, ac97Vars, pollVars>>
     \/ which = "sound" /\ A!Next /\ UNCHANGED <<conVars, vtVars, virtioVars, pollVars>>
     \/ which = "poll" /\ P!Next /\ UNCHANGED <<conVars, vtVars, virtioVars, ac97Vars>>

(* The timer's ticks matter to a behaviour about waiting; in the others    *)
(* the fair steps of the other parts are not enabled.                      *)
MCFairness == /\ Fairness
              /\ WF_pollVars(which = "poll" /\ P!time_tick)
              /\ WF_pollVars(P!unblock \/ P!Finish \/ P!Return)
MCSpec == MCInit /\ [][MCNext]_<<conVars, vtVars, driverVars, which>> /\ MCFairness

(* What is typed reaches a reader once, in order, and its echo is the line *)
(* being edited; the screen shows the active terminal, on which plain text *)
(* is laid out in lines.                                                   *)
ConsolesExact == /\ TypedOnce /\ EchoMatchesLine
                 /\ V!ScreenShowsActive /\ V!TextLaidOut

(* Requests to the disk are served whole and once.                         *)
DiskRequestsExact == D!DiskRequestsExact

(* Sound is heard in the order it was written.                             *)
SoundInOrder == A!SoundInOrder

(* poll, select and sleep return neither early nor with the wrong answer.  *)
WaitsExact == P!WaitsExact

(* A reader of a terminal wakes when there is something to read, and poll, *)
(* select and sleep return.                                                *)
SleepersWake == ReadersWake /\ P!WaitsReturn
=============================================================================
