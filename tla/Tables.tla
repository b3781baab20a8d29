------------------------------- MODULE Tables -------------------------------
(***************************************************************************)
(* A program uses a dict, builds sets or uses a list: modules Dict,        *)
(* SetTable and Lists side by side.  Each has its own objects; none of     *)
(* their operations changes another's.                                     *)
(***************************************************************************)
EXTENDS Dict

CONSTANTS
    Member, MemberHash, MemberType, SETMASK,     \* of module SetTable
    SELF, JUNK, MaxLiteral, MaxQueue                \* of module Lists; lists hold values

VARIABLES sTable, sFill, sUsed, sGiven, sPc, sKey, sI, sPerturb

sVars == <<sTable, sFill, sUsed, sGiven, sPc, sKey, sI, sPerturb>>

S == INSTANCE SetTable WITH
        Key <- Member, MASK <- SETMASK, Hash <- MemberHash, TypeOf <- MemberType,
        table <- sTable, fill <- sFill, used <- sUsed, given <- sGiven, pc <- sPc,
        key <- sKey, i <- sI, perturb <- sPerturb

SetExact  == S!SetExact
ProbeEnds == S!ProbeEnds

VARIABLES lItems, lSize, lCount, lRefs, lHeld, lIndex, lUse, lResult

lVars == <<lItems, lSize, lCount, lRefs, lHeld, lIndex, lUse, lResult>>

L == INSTANCE Lists WITH
        Item <- Value, items <- lItems, size <- lSize, count <- lCount, refs <- lRefs,
        held <- lHeld, index <- lIndex, use <- lUse, result <- lResult

CellsValid     == L!CellsValid
RefsExact      == L!RefsExact
ImplementsList == L!ImplementsList

NoDict == pc = "run" /\ buckets = <<>> /\ mask = MINMASK /\ cursor = 0
              /\ result = <<0, NULL, NULL>> /\ UNCHANGED vars
NoSets == sPc = "run" /\ sGiven = {} /\ UNCHANGED sVars
NoList == lUse = "none" /\ lResult = <<"ok", NULL>> /\ UNCHANGED lVars

DictStep == NoSets /\ NoList /\ Next
SetStep  == NoDict /\ NoList /\ S!Next
ListStep == NoDict /\ NoSets /\ L!Next

allVars == <<vars, sVars, lVars>>

Start == Init /\ S!Init /\ L!Init

Tables ==
    /\ Start
    /\ [][DictStep \/ SetStep \/ ListStep]_allVars
    /\ WF_vars(Lookup) /\ S!Fairness

=============================================================================
