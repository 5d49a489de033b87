------------------------------ MODULE CartSlot ------------------------------
(***************************************************************************)
(* The cartridge of the emulator with whichever controller its ROM file    *)
(* asks for (cart::construct_mbc_from_rom): one of Cart's, or an MMM01.    *)
(* The controller that is not there rests in a fixed state.                *)
(***************************************************************************)
EXTENDS Cart, Mmm01

VARIABLE is_mmm01   \* the file has the menu of an MMM01 in its last banks

slotVars == <<vars, mmmVars, is_mmm01>>

ASSUME SlotAssumption == Carts # {} /\ MmmRoms # {}

NoCart == CHOOSE c \in Carts : TRUE
NoMmm  == CHOOSE f \in MmmRoms : TRUE

SlotInit ==
    /\ is_mmm01 \in BOOLEAN
    /\ Init /\ MmmInit
    /\ is_mmm01 => cart = NoCart
    /\ ~ is_mmm01 => file = NoMmm

\* A ROM file with a controller of the other sort takes the place of this one
LoadOther ==
    /\ is_mmm01' = ~ is_mmm01
    /\ \E c \in (IF is_mmm01 THEN Carts ELSE {NoCart}) : Load(c)
    /\ \E f \in (IF is_mmm01 THEN {NoMmm} ELSE MmmRoms) : MmmLoad(f)

SlotNext ==
    \/ ~ is_mmm01 /\ Next /\ UNCHANGED <<mmmVars, is_mmm01>>
    \/ is_mmm01 /\ MmmNext /\ UNCHANGED <<vars, is_mmm01>>
    \/ LoadOther

SlotSpec == SlotInit /\ [][SlotNext]_slotVars
-----------------------------------------------------------------------------
\* The types of both.  Among other things, no bank that is mapped lies beyond
\* the end of the ROM or the RAM (gb_cart.cpp:254, 376, 403, 781, 782).
SlotTypeOK == TypeOK /\ MmmTypeOK
=============================================================================
