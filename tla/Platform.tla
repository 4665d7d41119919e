------------------------------ MODULE Platform ------------------------------
(***************************************************************************)
(* What is around the kernel and shares no state with each other: above    *)
(* it a user program, how it is loaded (ElfLoad) and its heap (UserHeap);  *)
(* below it the devices, the clock chip (Rtc), the double buffer of the    *)
(* screen (Screen) and the disk (AtaPio).  The heap and the disk have a    *)
(* variable and a specification of their own; of the others a behaviour    *)
(* is one, part, with its state, st.                                       *)
(***************************************************************************)
EXTENDS Integers, UserHeap, AtaPio

CONSTANTS
    \* Of ElfLoad.
    WORD, PAGE_SIZE, MIN, STACK, EHDR, PHDR, MAX_PHDR, Images, STACK_SIZE, RESERVED,
    MAX_ARGS, ARG_MAX, NAME, Args,
    \* Of Rtc.
    OFFSET, Times,
    \* Of Screen.
    W, H, MAX_DIRTY_RECT, WIDE, GLYPH, Pixels, Rects

VARIABLES part, st

Elf == INSTANCE ElfLoad
Rtc == INSTANCE Rtc
Screen == INSTANCE Screen

ASSUME ProgramsAssumption == Elf!ElfAssumption
ASSUME DevicesAssumption == Rtc!RtcAssumption /\ Screen!ScreenAssumption

InitProgram == part = "elf" /\ Elf!Init
NextProgram == part = "elf" /\ Elf!Next /\ UNCHANGED part
ProgramSpec == InitProgram /\ [][NextProgram]_<<part, st>>

InitDevice ==
    \/ part = "rtc" /\ Rtc!Init
    \/ part = "screen" /\ Screen!Init
NextDevice ==
    /\ UNCHANGED part
    /\ \/ part = "rtc" /\ Rtc!Next
       \/ part = "screen" /\ Screen!Next
DeviceSpec == InitDevice /\ [][NextDevice]_<<part, st>>

\* A user program that is started finds its segments in memory byte for byte, its heap
\* behind them and its arguments on the stack page, whatever words its headers hold;
\* Faithful names the images of which nothing is said.
ProgramsRight == part = "elf" => Elf!Faithful /\ Elf!StackInPage

\* The devices hold or show what they were given: the clock is the chip's moved by the
\* time zone, over every carry, except for the hours and the readings that LocalTime
\* names, and what was drawn in the back buffer is not forgotten by the dirty rectangles.
DevicesRight ==
    /\ part = "rtc" => Rtc!LocalTime
    /\ part = "screen" => Screen!NothingLost
=============================================================================
