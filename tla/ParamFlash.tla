----------------------------- MODULE ParamFlash -----------------------------
(***************************************************************************)
(* The parameter record in the last page of the flash: it is read when the *)
(* car starts (rt_read_param_from_flash), and erased and programmed when   *)
(* the menu is left (rt_write_param_to_flash, drv_flash.c).  The power may *)
(* be cut at any moment; what the flash holds then is what the next start  *)
(* reads.                                                                  *)
(***************************************************************************)
EXTENDS Integers

CONSTANTS
    Words,    \* the words of the record (sizeof(struct balance_car_parm) / 4)
    Int16,    \* the values of a half-word, one parameter each
    Erased    \* what an erased half-word reads as

ASSUME FlashAssumption ==
    /\ Words \in Nat
    /\ Int16 \subseteq Int /\ 0 \in Int16 /\ Erased \in Int16

Halves == 1..(2 * Words)
Records == [Halves -> Int16]
ErasedRecord == [i \in Halves |-> Erased]

VARIABLES
    stage,   \* where the start of the car has got to
    flash,   \* the record in the flash
    temp,    \* car_parm_temp
    at,      \* words rt_flash_write has programmed and compared (addr and buf)
    half,    \* half-words of the next word that are programmed
    old,     \* history: the record read when the menu began
    saved    \* history: what was last reported saved, no save begun since

flashVars == <<stage, flash, temp, at, half, old, saved>>

NotSaved == [i \in {} |-> 0]
Stages == {"boot", "menu", "erase", "program", "running"}

FlashTypeOK ==
    /\ stage \in Stages
    /\ flash \in Records /\ temp \in Records /\ old \in Records
    /\ at \in 0..Words /\ half \in {0, 1}
    /\ saved \in Records \cup {NotSaved}

-----------------------------------------------------------------------------

\* Whatever record the flash holds.
FlashInit ==
    /\ stage = "boot"
    /\ temp = flash /\ old = flash
    /\ at = 0 /\ half = 0
    /\ saved = NotSaved

\* rt_read_param_from_flash, when show_menu_process starts.
ReadParams ==
    /\ stage = "boot" /\ stage' = "menu"
    /\ temp' = flash
    /\ old' = flash
    /\ at' = 0 /\ half' = 0
    /\ UNCHANGED <<flash, saved>>

\* The menu changes the record in memory.
Edit ==
    /\ stage = "menu"
    /\ temp' \in Records
    /\ UNCHANGED <<stage, flash, at, half, old, saved>>

\* The menu is left: rt_write_param_to_flash is called.
Save ==
    /\ stage = "menu" /\ stage' = "erase"
    /\ saved' = NotSaved
    /\ UNCHANGED <<flash, temp, at, half, old>>

\* rt_flash_erase, whose result the caller ignores: it may have failed.
Erase ==
    /\ stage = "erase" /\ stage' = "program"
    /\ flash' = ErasedRecord \/ flash' = flash
    /\ UNCHANGED <<temp, at, half, old, saved>>

(***************************************************************************)
(* HAL_FLASH_Program writes a word as two half-words.  A half-word that is *)
(* not erased refuses anything but zero; a worn one may keep its bits and  *)
(* report no error, which is what the comparison after each word is for.   *)
(***************************************************************************)
Next16 == 2 * at + half + 1   \* the half-word to program

Program ==
    /\ stage = "program" /\ at < Words
    /\ flash[Next16] = Erased \/ temp[Next16] = 0
    /\ \/ flash' = [flash EXCEPT ![Next16] = temp[Next16]]
       \/ flash' = flash
    /\ UNCHANGED <<temp, old, saved>>

WordHolds == \A i \in {2 * at + 1, 2 * at + 2} : flash'[i] = temp[i]

ProgramLow == half = 0 /\ Program /\ half' = 1 /\ UNCHANGED <<stage, at>>

\* Mistaken variant of ProgramHigh: the word is not compared.
ProgramHigh_Unchecked ==
    /\ half = 1 /\ Program /\ half' = 0
    /\ at' = at + 1 /\ UNCHANGED stage

ProgramHigh ==
    /\ half = 1 /\ Program /\ half' = 0
    /\ \/ WordHolds /\ at' = at + 1 /\ UNCHANGED stage
       \/ ~WordHolds /\ stage' = "running" /\ UNCHANGED at

\* Mistaken variant of Refuse: the next word is tried.
Refuse_GoOn ==
    /\ stage = "program" /\ at < Words
    /\ at' = at + 1 /\ half' = 0
    /\ UNCHANGED <<stage, flash, temp, old, saved>>

\* HAL_FLASH_Program reports an error: rt_flash_write gives up.
Refuse ==
    /\ stage = "program" /\ at < Words
    /\ stage' = "running"
    /\ UNCHANGED <<flash, temp, at, half, old, saved>>

\* rt_flash_write returns the size: no error is reported.
Report ==
    /\ stage = "program" /\ at = Words
    /\ stage' = "running"
    /\ saved' = temp
    /\ UNCHANGED <<flash, temp, at, half, old>>

\* The memory is lost; temp, at and half keep what it held, as history.
PowerCut ==
    /\ stage # "boot" /\ stage' = "boot"
    /\ UNCHANGED <<flash, temp, at, half, old, saved>>

SaveStep == Erase \/ ProgramLow \/ ProgramHigh \/ Refuse \/ Report

FlashNext ==
    \/ ReadParams
    \/ Edit
    \/ Save
    \/ SaveStep
    \/ PowerCut

FlashSpec == flash \in Records /\ FlashInit /\ [][FlashNext]_flashVars

-----------------------------------------------------------------------------

(***************************************************************************)
(* A record reported as saved is whole in the flash and stays there, over  *)
(* any number of power cuts and restarts, until the next save begins --    *)
(* although the result of the erase is ignored and half-words wear out     *)
(* (rt_write_param_to_flash, rt_flash_write).                              *)
(***************************************************************************)
Durable == saved # NotSaved => flash = saved

(***************************************************************************)
(* Wherever a save is cut or given up, the flash holds a beginning of the  *)
(* new record, at most one word that is neither, and then nothing but the  *)
(* erased page or nothing but the old record -- never a mixture of old,    *)
(* new and erased parameters beyond that one word (rt_flash_write).        *)
(***************************************************************************)
PrefixThenRest ==
    stage # "menu" =>
      /\ \A i \in 1..(2 * at) : flash[i] = temp[i]
      /\ \/ \A i \in Halves : i > 2 * at + 2 => flash[i] = Erased
         \/ \A i \in Halves : i > 2 * at + 2 => flash[i] = old[i]
=============================================================================
