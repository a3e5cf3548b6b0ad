----------------------------- MODULE SymbolProofs -----------------------------
(***************************************************************************)
(* What names, fields and values stand for, for every program: the         *)
(* symbols of functions, forward references, the offsets of fields, and    *)
(* the pointers that the verifier asks for.                                *)
(***************************************************************************)
EXTENDS InterfaceProofs, SVFIRVerifier

-----------------------------------------------------------------------------
(* Forward references *)

\* Where a name can be added to stubbed or to funcInfos.
LEMMA StepStubs ==
  ASSUME [Next]_vars
  PROVE  \/ /\ UNCHANGED stubbed
            /\ \/ UNCHANGED <<unit, phase>>
               \/ phase = "idle" /\ phase' = "prescan" /\ unit' = unit + 1
               \/ phase = "prescan" /\ phase' = "main" /\ UNCHANGED unit
               \/ phase = "main" /\ phase' = "idle" /\ UNCHANGED unit
         \/ /\ UNCHANGED <<unit, phase>> /\ InBody
            /\ \E f \in Funs \cup {None} :
                 f \notin DOMAIN funcInfos /\ stubbed' = stubbed \cup ({f} \cap Funs)
<1> DEFINE Calls_ == /\ UNCHANGED <<unit, phase>> /\ InBody
                     /\ \E f \in Funs \cup {None} :
                          f \notin DOMAIN funcInfos /\ stubbed' = stubbed \cup ({f} \cap Funs)
           Turns == \/ UNCHANGED <<unit, phase>>
                    \/ phase = "idle" /\ phase' = "prescan" /\ unit' = unit + 1
                    \/ phase = "prescan" /\ phase' = "main" /\ UNCHANGED unit
                    \/ phase = "main" /\ phase' = "idle" /\ UNCHANGED unit
<1>1. CASE ExprStep
  <2>1. UNCHANGED <<unit, phase>>
    BY <1>1, ExprStepControls DEF file
  <2>2. ASSUME NEW f \in Funs \cup {None}, NEW n \in 0..MaxStack, VisitUnknownCall(f, n)
        PROVE  /\ InBody /\ f \notin DOMAIN funcInfos
               /\ stubbed' = stubbed \cup ({f} \cap Funs)
    BY <2>2 DEF VisitUnknownCall, ArgumentsVisited, Callable
  <2>3. ASSUME NEW f \in Funs, NEW n \in 0..MaxStack, VisitCall(f, n)
        PROVE  UNCHANGED stubbed
    BY <2>3 DEF VisitCall
  <2>4. UNCHANGED stubbed \/ Calls_
    <3> HIDE DEF Turns
    <3>1. \/ UNCHANGED stubbed
          \/ \E f \in Funs \cup {None}, n \in 0..MaxStack : VisitUnknownCall(f, n)
      BY <1>1, <2>3
      DEF ExprStep, VisitIdentifier, VisitNumber, VisitString, VisitNull, VisitParenthesized,
          VisitAddressOf, VisitDeref, VisitLastChild, VisitBinary, VisitAssignIdentifier,
          VisitAssignThrough, VisitAssignParenthesized, Assigned, VisitField, VisitSubscript,
          VisitAllocation, VisitCast
    <3>2. QED
      BY <2>1, <2>2, <3>1
  <2>5. QED
    BY <2>1, <2>4
<1>2. CASE BodyStep \/ UNCHANGED vars
  BY <1>2, BodyStepKeeps DEF vars, file
<1>3. CASE UnitStep
  <2>1. CASE StartUnit \/ EndPrescan \/ EndUnit
    BY <2>1 DEF StartUnit, EndPrescan, EndUnit, AtTopLevel
  <2>2. ASSUME NEW x, NEW spec, NEW d, NEW init, VisitGlobalDecl(x, spec, d, init)
        PROVE  UNCHANGED <<unit, phase, stubbed>>
    BY <2>2, Zenon DEF VisitGlobalDecl, file
  <2>3. ASSUME NEW f, VisitPrototype(f)
        PROVE  UNCHANGED <<unit, phase, stubbed>>
    BY <2>2, <2>3, Zenon DEF VisitPrototype
  <2>4. ASSUME \/ \E f \in Funs, sig \in Signatures : PrescanFunctionDef(f, sig)
               \/ \E s \in Structs, def \in StructDefs : VisitStructSpecifier(s, def)
               \/ \E alias \in Aliases, spec \in Specifiers : VisitTypeDefinition(alias, spec)
        PROVE  UNCHANGED <<unit, phase, stubbed>>
    BY <2>4, Zenon DEF PrescanFunctionDef, VisitStructSpecifier, VisitTypeDefinition, file
  <2>5. QED
    BY <1>3, <2>1, <2>2, <2>3, <2>4 DEF UnitStep
<1>4. QED
  BY <1>1, <1>2, <1>3 DEF Next

\* Functions are registered in the prescan only.
LEMMA StepRegisters ==
  ASSUME TypeOK, [Next]_vars
  PROVE  DOMAIN funcInfos' = DOMAIN funcInfos \/ (phase = "prescan" /\ UNCHANGED <<unit, phase, stubbed>>)
<1>1. ASSUME NEW f \in Funs, NEW sig \in Signatures, PrescanFunctionDef(f, sig)
      PROVE  phase = "prescan" /\ UNCHANGED <<unit, phase, stubbed>>
  BY <1>1 DEF PrescanFunctionDef
<1>2. QED
  BY <1>1, StepFlows DEF Flows, SameInterfaces

LEMMA StepFirstFileFirst ==
  ASSUME TypeOK, LifecycleInv, FirstFileFirst, [Next]_vars
  PROVE  FirstFileFirst'
<1>1. unit \in Nat
  BY DEF TypeOK, FileOK
<1>2. InBody => phase = "main"
  BY DEF InBody, LifecycleInv, CurrentIsVisited
<1>3. CASE phase = "prescan" /\ UNCHANGED <<unit, phase, stubbed>>
  BY <1>1, <1>3 DEF FirstFileFirst, ForwardReferences
<1>4. CASE DOMAIN funcInfos' = DOMAIN funcInfos /\ UNCHANGED stubbed
  <2>1. \/ UNCHANGED <<unit, phase>>
        \/ phase = "idle" /\ phase' = "prescan" /\ unit' = unit + 1
        \/ phase = "prescan" /\ phase' = "main" /\ UNCHANGED unit
        \/ phase = "main" /\ phase' = "idle" /\ UNCHANGED unit
    BY StepStubs
  <2>2. QED
    BY <1>1, <1>4, <2>1 DEF FirstFileFirst, ForwardReferences
<1>5. ASSUME DOMAIN funcInfos' = DOMAIN funcInfos, UNCHANGED <<unit, phase>>, InBody,
             NEW f \in Funs \cup {None}, f \notin DOMAIN funcInfos,
             stubbed' = stubbed \cup ({f} \cap Funs)
      PROVE  FirstFileFirst'
  BY <1>1, <1>2, <1>5 DEF FirstFileFirst, ForwardReferences
<1>6. QED
  BY <1>3, <1>4, <1>5, StepStubs, StepRegisters

\* Forward references work within a program's first file, whatever its functions and
\* calls: the prescan registers every function before the first body is visited.
THEOREM ForwardReferencesResolve == Spec => [](unit <= 1 => ForwardReferences)
<1>1. Init => FirstFileFirst
  BY DEF Init, FirstFileFirst, ForwardReferences
<1>2. TypeOK /\ LifecycleInv /\ FirstFileFirst /\ [Next]_vars => FirstFileFirst'
  BY StepFirstFileFirst
<1>3. FirstFileFirst => (unit <= 1 => ForwardReferences)
  BY DEF FirstFileFirst
<1>4. QED
  BY <1>1, <1>2, <1>3, LifecycleHolds, PTL DEF Spec

-----------------------------------------------------------------------------
(* Fields and offsets *)

\* The row of a struct after a step: a definition's fields are put behind what was there.
LEMMA DefinedRow ==
  ASSUME TypeOK, NEW s, NEW def, DefinesStruct(s, def)
  PROVE  /\ FieldMetas(def) \in Seq(FieldMetaType) /\ Len(FieldMetas(def)) = Len(def)
         /\ Len(def) \in Nat /\ structFields[s] \in Seq(FieldMetaType)
         /\ structFields'[s] = structFields[s] \o FieldMetas(def)
         /\ \A t \in Structs \ {s} : structFields'[t] = structFields[t]
         /\ \A i, j \in 1..Len(def) : FieldMetas(def)[i].name = FieldMetas(def)[j].name => i = j
<1>1. def \in Seq(FieldDecl) /\ structFields \in [Structs -> Seq(FieldMetaType)] /\ s \in Structs
  BY ShapeAssumption DEF DefinesStruct, TypeOK, TypesOK
<1>2. FieldMetas(def) \in Seq(FieldMetaType) /\ Len(def) \in Nat /\ DOMAIN def = 1..Len(def)
  BY <1>1, FieldMetasTyped, LenProperties
<1>3. Len(FieldMetas(def)) = Len(def)
  BY <1>2, LenProperties DEF FieldMetas
<1>4. /\ structFields'[s] = structFields[s] \o FieldMetas(def)
      /\ \A t \in Structs \ {s} : structFields'[t] = structFields[t]
  BY <1>1 DEF DefinesStruct
<1>5. \A i \in 1..Len(def) : FieldMetas(def)[i].name = def[i].name
  BY <1>2 DEF FieldMetas, FieldMeta
<1>6. \A i, j \in 1..Len(def) : def[i].name = def[j].name => i = j
  BY <1>2, ShapeAssumption DEF DefinesStruct
<1>7. QED
  BY <1>1, <1>2, <1>3, <1>4, <1>5, <1>6

\* What is put behind a sequence.
LEMMA ConcatFacts ==
  ASSUME NEW T, NEW row \in Seq(T), NEW more \in Seq(T), NEW long, long = row \o more
  PROVE  /\ Len(long) = Len(row) + Len(more) /\ Len(row) \in Nat /\ Len(more) \in Nat
         /\ \A i \in 1..Len(row) : long[i] = row[i]
         /\ \A i \in 1..Len(more) : long[Len(row) + i] = more[i]
<1>1. Len(row) \in Nat /\ Len(more) \in Nat
  BY LenProperties
<1>2. Len(long) = Len(row) + Len(more)
  BY ConcatProperties
<1>3. \A i \in 1..Len(row) + Len(more) :
        long[i] = IF i <= Len(row) THEN row[i] ELSE more[i - Len(row)]
  BY ConcatProperties
<1>4. ASSUME NEW i \in 1..Len(row)
      PROVE  long[i] = row[i]
  <2>1. i \in 1..Len(row) + Len(more) /\ i <= Len(row)
    BY <1>1
  <2>2. QED
    BY <1>3, <2>1
<1>5. ASSUME NEW i \in 1..Len(more)
      PROVE  long[Len(row) + i] = more[i]
  <2>1. /\ Len(row) + i \in 1..Len(row) + Len(more) /\ ~(Len(row) + i <= Len(row))
        /\ Len(row) + i - Len(row) = i
    BY <1>1
  <2>2. QED
    BY <1>3, <2>1
<1>6. QED
  BY <1>1, <1>2, <1>4, <1>5

\* Every row of the table grows at its end.
LEMMA RowExtends ==
  ASSUME TypeOK, [Next]_vars, NEW s \in Structs
  PROVE  /\ Len(structFields[s]) \in Nat /\ Len(structFields'[s]) \in Nat
         /\ Len(structFields[s]) <= Len(structFields'[s])
         /\ \A i \in 1..Len(structFields[s]) : structFields'[s][i] = structFields[s][i]
<1>1. Len(structFields[s]) \in Nat
  BY LenProperties DEF TypeOK, TypesOK
<1>2. CASE UNCHANGED <<structFields, stInfo>>
  BY <1>1, <1>2
<1>3. ASSUME NEW t, NEW def, DefinesStruct(t, def), s = t
      PROVE  /\ Len(structFields'[s]) = Len(structFields[s]) + Len(def) /\ Len(def) \in Nat
             /\ \A i \in 1..Len(structFields[s]) : structFields'[s][i] = structFields[s][i]
  <2>1. /\ FieldMetas(def) \in Seq(FieldMetaType) /\ Len(FieldMetas(def)) = Len(def)
        /\ Len(def) \in Nat /\ structFields[s] \in Seq(FieldMetaType)
        /\ structFields'[s] = structFields[s] \o FieldMetas(def)
    BY <1>3, DefinedRow
  <2> DEFINE row == structFields[s]
             more == FieldMetas(def)
             long == structFields'[s]
  <2>2. row \in Seq(FieldMetaType) /\ more \in Seq(FieldMetaType) /\ long = row \o more
    BY <2>1
  <2>3. Len(more) = Len(def) /\ Len(def) \in Nat
    BY <2>1
  <2> HIDE DEF row, more, long
  <2>4. Len(long) = Len(row) + Len(more) /\ \A i \in 1..Len(row) : long[i] = row[i]
    BY <2>2, ConcatFacts
  <2>5. Len(long) = Len(row) + Len(def)
    BY <2>3, <2>4
  <2>6. QED
    BY <2>3, <2>4, <2>5 DEF long, row
<1>4. ASSUME NEW t, NEW def, DefinesStruct(t, def), s # t
      PROVE  structFields'[s] = structFields[s]
  BY <1>4, DefinedRow
<1>5. QED
  BY <1>1, <1>2, <1>3, <1>4, StepTable

\* What the table finds it still finds after the step.
LEMMA FieldIdxStays ==
  ASSUME TypeOK, [Next]_vars, NEW s \in Structs, NEW i, IsFieldIdx(s, i)
  PROVE  IsFieldIdx(s, i)'
<1> DEFINE n == Len(structFields[s])
<1>1. PICK f \in Fields : i \in FieldMetaIdx(s, f)
  BY DEF IsFieldIdx
<1>2. /\ n \in Nat /\ Len(structFields'[s]) \in Nat /\ n <= Len(structFields'[s])
      /\ \A j \in 1..n : structFields'[s][j] = structFields[s][j]
  BY RowExtends
<1>3. /\ i \in 1..n /\ structFields[s][i].name = f
      /\ \A j \in 1..(i - 1) : structFields[s][j].name # f
  BY <1>1 DEF FieldMetaIdx
<1> HIDE DEF n
<1>4. i \in 1..Len(structFields'[s]) /\ \A j \in 1..(i - 1) : j \in 1..n
  BY <1>2, <1>3
<1>5. i \in FieldMetaIdx(s, f)'
  BY <1>2, <1>3, <1>4 DEF FieldMetaIdx
<1>6. QED
  BY <1>5 DEF IsFieldIdx

Differ == Uses("differing structs")

\* The first and the last n elements of a sequence.
LEMMA PrefixElements ==
  ASSUME NEW T, NEW row \in Seq(T), NEW n \in Nat, n <= Len(row), NEW t, t = SubSeq(row, 1, n)
  PROVE  Len(t) = n /\ \A i \in 1..n : t[i] = row[i]
<1>1. Len(row) \in Nat /\ \A i \in 1..Len(row) : row[i] \in T
  BY LenProperties, ElementOfSeq
<1>2. \A i \in 1..n : row[i] \in T
  BY <1>1
<1>3. /\ Len(t) = IF 1 <= n THEN n - 1 + 1 ELSE 0
      /\ \A i \in 1..(n - 1 + 1) : t[i] = row[1 + i - 1]
  BY <1>2, SubSeqProperties
<1>4. QED
  BY <1>3

LEMMA SuffixElement ==
  ASSUME NEW T, NEW row \in Seq(T), NEW n \in Nat, n <= Len(row), NEW i \in 1..n
  PROVE  SubSeq(row, Len(row) - n + 1, Len(row))[i] = row[Len(row) - n + i]
<1> DEFINE l == Len(row)
           t == SubSeq(row, l - n + 1, l)
<1>1. l \in Nat /\ \A j \in 1..l : row[j] \in T
  BY LenProperties, ElementOfSeq
<1> HIDE DEF l
<1>2. l - n + 1 \in Int /\ l \in Int /\ \A j \in (l - n + 1)..l : row[j] \in T
  BY <1>1 DEF l
<1>3. \A j \in 1..(l - (l - n + 1) + 1) : t[j] = row[l - n + 1 + j - 1]
  BY <1>2, SubSeqProperties
<1> HIDE DEF t
<1>4. i \in 1..(l - (l - n + 1) + 1) /\ l - n + 1 + i - 1 = l - n + i
  BY <1>1
<1>5. t[i] = row[l - n + i]
  BY <1>3, <1>4
<1>6. QED
  BY <1>5 DEF t, l

\* FieldsRepeat of one struct.
Repeats(row, n) ==
  /\ n <= Len(row)
  /\ \A i, j \in 1..n : row[i].name = row[j].name => i = j
  /\ \A i \in 1..n : row[Len(row) - n + i] = row[i]
  /\ \A k \in 1..Len(row) : \E i \in 1..n : row[k] = row[i]

\* A definition that says the same again.
SameAgain(row, more, n) == Len(more) = n /\ \A i \in 1..n : more[i] = row[i]
LEMMA RowRepeats ==
  ASSUME NEW T, NEW row \in Seq(T), NEW n \in Nat, Repeats(row, n), NEW more \in Seq(T),
         SameAgain(row, more, n), NEW long, long = row \o more
  PROVE  Repeats(long, n)
<1>0. /\ Len(long) = Len(row) + Len(more) /\ Len(row) \in Nat
      /\ \A i \in 1..Len(row) : long[i] = row[i]
      /\ \A i \in 1..Len(more) : long[Len(row) + i] = more[i]
  BY ConcatFacts
<1>1. /\ Len(long) = Len(row) + n /\ Len(row) \in Nat
      /\ \A i \in 1..Len(row) : long[i] = row[i]
      /\ \A i \in 1..n : long[Len(row) + i] = more[i] /\ more[i] = row[i]
  BY <1>0 DEF SameAgain
<1>2. n <= Len(row)
  BY DEF Repeats
<1>3. \A i \in 1..n : i \in 1..Len(row) /\ long[i] = row[i]
  BY <1>1, <1>2
<1>4. n <= Len(long)
  BY <1>1, <1>2
<1>5. \A i, j \in 1..n : long[i].name = long[j].name => i = j
  BY <1>3 DEF Repeats
<1>6. ASSUME NEW i \in 1..n
      PROVE  long[Len(long) - n + i] = long[i]
  <2>1. Len(long) - n + i = Len(row) + i
    BY <1>1
  <2>2. long[Len(row) + i] = more[i] /\ more[i] = row[i] /\ long[i] = row[i]
    BY <1>1, <1>3, <1>6
  <2>3. QED
    BY <2>1, <2>2
<1>7. ASSUME NEW k \in 1..Len(long)
      PROVE  \E i \in 1..n : long[k] = long[i]
  <2>1. CASE k <= Len(row)
    <3>1. k \in 1..Len(row) /\ long[k] = row[k]
      BY <1>1, <2>1
    <3>2. PICK i \in 1..n : row[k] = row[i]
      BY <3>1 DEF Repeats
    <3>3. QED
      BY <1>3, <3>1, <3>2
  <2>2. CASE ~(k <= Len(row))
    <3> DEFINE d == k - Len(row)
    <3>0. d \in 1..n /\ Len(row) + d = k
      BY <1>1, <1>7, <2>2
    <3> HIDE DEF d
    <3>1. PICK i \in 1..n : Len(row) + i = k
      BY <3>0
    <3>2. long[k] = more[i] /\ more[i] = row[i] /\ long[i] = row[i]
      BY <1>1, <1>3, <3>1
    <3>3. QED
      BY <3>2
  <2>3. QED
    BY <2>1, <2>2
<1>8. QED
  BY <1>4, <1>5, <1>6, <1>7 DEF Repeats

\* The first definition.
NamesApart(more, n) == \A i, j \in 1..n : more[i].name = more[j].name => i = j
LEMMA RowStarts ==
  ASSUME NEW T, NEW more \in Seq(T), NEW n \in Nat, Len(more) = n, NamesApart(more, n)
  PROVE  Repeats(more, n)
<1>1. ASSUME NEW i \in 1..n
      PROVE  more[Len(more) - n + i] = more[i]
  <2>1. Len(more) - n + i = i
    OBVIOUS
  <2>2. QED
    BY <2>1
<1>2. n <= Len(more) /\ \A k \in 1..Len(more) : \E i \in 1..n : more[k] = more[i]
  OBVIOUS
<1>3. QED
  BY <1>1, <1>2 DEF Repeats, NamesApart

LEMMA FieldsRepeatRows ==
  FieldsRepeat <=> \A s \in Structs :
    /\ s \notin DOMAIN stInfo => structFields[s] = <<>>
    /\ s \in DOMAIN stInfo => Repeats(structFields[s], stInfo[s])
BY DEF FieldsRepeat, Repeats

LEMMA DefinitionRepeats ==
  ASSUME TypeOK, FieldsRepeat, ~Differ, NEW s, NEW def, DefinesStruct(s, def)
  PROVE  Repeats(structFields'[s], Len(def))
<1> DEFINE row == structFields[s]
           more == FieldMetas(def)
           n == Len(def)
<1>1. /\ more \in Seq(FieldMetaType) /\ Len(more) = n /\ n \in Nat /\ row \in Seq(FieldMetaType)
      /\ structFields'[s] = row \o more
      /\ NamesApart(more, n)
  BY DefinedRow DEF NamesApart
<1>2. s \in Structs /\ (s \in DOMAIN stInfo => SameStruct(s, def))
  BY DEF DefinesStruct, Differ
<1>3. CASE s \notin DOMAIN stInfo
  <2>1. row = <<>>
    BY <1>2, <1>3 DEF FieldsRepeat
  <2>2. row \o more = more
    BY <1>1, <2>1, ConcatEmptySeq
  <2> HIDE DEF row, more, n
  <2>3. Repeats(more, n)
    BY <1>1, RowStarts
  <2>4. QED
    BY <1>1, <2>2, <2>3 DEF n
<1>4. CASE s \in DOMAIN stInfo
  <2>1. stInfo[s] \in Nat /\ Repeats(row, stInfo[s]) /\ more = SubSeq(row, 1, stInfo[s])
    BY <1>2, <1>4, FieldsRepeatRows DEF SameStruct, TypeOK, TypesOK, IsTable
  <2> HIDE DEF row, more, n
  <2>2. stInfo[s] <= Len(row) /\ Len(row) \in Nat
    BY <1>1, <2>1, LenProperties DEF Repeats
  <2>3. Len(more) = stInfo[s] /\ \A i \in 1..stInfo[s] : more[i] = row[i]
    BY <1>1, <2>1, <2>2, PrefixElements
  <2>4. n = stInfo[s]
    BY <1>1, <2>3
  <2>5. Repeats(row, n) /\ SameAgain(row, more, n)
    BY <2>1, <2>3, <2>4 DEF SameAgain
  <2>6. Repeats(row \o more, n)
    BY <1>1, <2>5, RowRepeats
  <2>7. QED
    BY <1>1, <2>6 DEF n
<1>5. QED
  BY <1>3, <1>4

LEMMA StepFieldsRepeat ==
  ASSUME TypeOK, FieldsRepeat, ~Differ, [Next]_vars
  PROVE  FieldsRepeat'
<1>1. CASE UNCHANGED <<structFields, stInfo>>
  BY <1>1 DEF FieldsRepeat
<1>2. ASSUME NEW s, NEW def, DefinesStruct(s, def)
      PROVE  FieldsRepeat'
  <2>1. /\ s \in DOMAIN stInfo' /\ stInfo'[s] = Len(def) /\ s \in Structs
        /\ \A t \in Structs \ {s} : /\ t \in DOMAIN stInfo' <=> t \in DOMAIN stInfo
                                    /\ t \in DOMAIN stInfo => stInfo'[t] = stInfo[t]
                                    /\ structFields'[t] = structFields[t]
    <3>1. stInfo' = Bind(stInfo, s, Len(def)) /\ s \in Structs
      BY <1>2 DEF DefinesStruct
    <3>2. \A t \in Structs \ {s} : structFields'[t] = structFields[t]
      BY <1>2, DefinedRow
    <3>3. stInfo' = [t \in DOMAIN stInfo \cup {s} |-> IF t = s THEN Len(def) ELSE stInfo[t]]
      BY <3>1 DEF Bind
    <3>4. QED
      BY <3>1, <3>2, <3>3, Zenon
  <2>2. Repeats(structFields'[s], stInfo'[s])
    BY <1>2, <2>1, DefinitionRepeats
  <2>3. ASSUME NEW t \in Structs
        PROVE  /\ t \notin DOMAIN stInfo' => structFields'[t] = <<>>
               /\ t \in DOMAIN stInfo' => Repeats(structFields'[t], stInfo'[t])
    <3>1. /\ t \notin DOMAIN stInfo => structFields[t] = <<>>
          /\ t \in DOMAIN stInfo => Repeats(structFields[t], stInfo[t])
      BY FieldsRepeatRows
    <3>2. CASE t = s
      BY <2>1, <2>2, <3>2
    <3>3. CASE t # s
      BY <2>1, <3>1, <3>3
    <3>4. QED
      BY <3>2, <3>3
  <2>4. QED
    BY <2>3, Zenon DEF FieldsRepeat, Repeats
<1>3. QED
  BY <1>1, <1>2, StepTable

LEMMA FieldsRepeatHolds ==
  ASSUME ~Differ
  PROVE  Spec => []FieldsRepeat
<1>1. Init => FieldsRepeat
  BY DEF Init, FieldsRepeat
<1>2. TypeOK /\ FieldsRepeat /\ [Next]_vars => FieldsRepeat'
  BY StepFieldsRepeat
<1>3. QED
  BY <1>1, <1>2, TypeCorrect, PTL DEF Spec

LEMMA RepeatedFound ==
  ASSUME TypeOK, FieldsRepeat
  PROVE  FieldsFound
<1> SUFFICES ASSUME NEW s \in DOMAIN stInfo, NEW i \in 1..stInfo[s]
             PROVE  FieldMetaIdx(s, ShownBody(s)[i].name) = {i}
  BY DEF FieldsFound
<1> DEFINE row == structFields[s]
           n == stInfo[s]
<1>1. s \in Structs /\ n \in Nat /\ row \in Seq(FieldMetaType)
  BY DEF TypeOK, TypesOK, IsTable
<1>2. Repeats(row, n)
  BY <1>1, FieldsRepeatRows
<1>3. Len(row) \in Nat /\ n <= Len(row)
  BY <1>1, <1>2, LenProperties DEF Repeats
<1>4. ShownBody(s) = SubSeq(row, Len(row) - n + 1, Len(row))
  BY DEF ShownBody
<1>5. i \in 1..n /\ i \in Nat
  BY <1>1
<1> HIDE DEF row, n
<1>6. ShownBody(s)[i] = row[Len(row) - n + i]
  BY <1>1, <1>3, <1>4, <1>5, SuffixElement
<1>7. row[Len(row) - n + i] = row[i]
  BY <1>2, <1>5 DEF Repeats
<1>8. ASSUME NEW j \in 1..(i - 1)
      PROVE  row[j].name # row[i].name
  <2>1. j \in 1..n /\ j # i
    BY <1>1, <1>5
  <2>2. QED
    BY <1>2, <1>5, <2>1 DEF Repeats
<1>9. ASSUME NEW j \in 1..Len(row), row[j].name = row[i].name,
             \A k \in 1..(j - 1) : row[k].name # row[i].name
      PROVE  j = i
  <2>1. ~(j < i)
    <3>1. j < i => j \in 1..(i - 1)
      BY <1>3, <1>5
    <3>2. QED
      BY <1>8, <1>9, <3>1
  <2>2. ~(i < j)
    <3>1. i < j => i \in 1..(j - 1)
      BY <1>3, <1>5
    <3>2. QED
      BY <1>9, <3>1
  <2>3. QED
    BY <1>3, <1>5, <2>1, <2>2
<1>10. i \in 1..Len(row)
  BY <1>1, <1>3, <1>5
<1>11. FieldMetaIdx(s, row[i].name) =
         {j \in 1..Len(row) : row[j].name = row[i].name
                              /\ \A k \in 1..(j - 1) : row[k].name # row[i].name}
  BY DEF FieldMetaIdx, row
<1>12. QED
  BY <1>6, <1>7, <1>8, <1>9, <1>10, <1>11

\* In a program whose files agree on the definitions of its structs, a field is found at
\* its position in the definition, after however many files have shown the struct
\* (visitTopLevelDecl, findFieldMetaIdx): each of them puts the fields behind those that
\* are there, and the first of a name counts.
THEOREM FieldIndicesFollowStructs ==
  ASSUME ~Uses("differing structs")
  PROVE  Spec => []FieldsFound
<1>1. Spec => []FieldsRepeat
  BY FieldsRepeatHolds DEF Differ
<1>2. TypeOK /\ FieldsRepeat => FieldsFound
  BY RepeatedFound
<1>3. QED
  BY <1>1, <1>2, TypeCorrect, PTL

\* The source of a Gep keeps its tag: only formals are tagged late.
LEMMA GepTagStays ==
  ASSUME TypeOK, InterfaceInv, Flows, NEW i \in Ids(pag),
         \A f \in DOMAIN funcInfos : i \notin Formals(f)
  PROVE  NodeStruct(i)' = NodeStruct(i)
<1>1. SUFFICES ASSUME NEW j \in DOMAIN toBind, i = toBind[j].val
               PROVE  FALSE
  BY DEF Flows, TagsStay
<1>2. currentFunc \in DOMAIN funcInfos
  BY <1>1 DEF InterfaceInv, CurrentInterface, TypeOK, CurrentOK
<1>3. PICK k \in DOMAIN funcInfos[currentFunc].formals : toBind[j] = funcInfos[currentFunc].formals[k]
  BY <1>1 DEF InterfaceInv, CurrentInterface
<1>4. QED
  BY <1>1, <1>2, <1>3 DEF Formals

LEMMA NewOffsets ==
  ASSUME TypeOK, FlowInv, Flows, NEW s \in Added, s.op = "Gep", s.arg # 0
  PROVE  /\ NodeStruct(s.src) # None /\ NodeStruct(s.src)' = NodeStruct(s.src)
         /\ IsFieldIdx(NodeStruct(s.src), s.arg + 1)
<1>1. NodeStruct(s.src) # None /\ IsFieldIdx(NodeStruct(s.src), s.arg + 1)
  BY DEF Flows, OffsetsFound
<1>2. s.src \in Ids(pag)
  BY <1>1 DEF NodeStruct, TypeOK, TagsOK, IsTable, Vals
<1>3. s.src \in Held
  BY <1>2 DEF Flows, LocalFlow, BindFlow, ResultFlow, ArgumentFlow, CallResultFlow, New, Fresh
<1>4. \A f \in DOMAIN funcInfos : s.src \notin Formals(f)
  BY <1>3 DEF FlowInv, InterfaceInv, InterfacesUnheld, Interface
<1>5. QED
  BY <1>1, <1>2, <1>4, GepTagStays DEF FlowInv

LEMMA OldOffsets ==
  ASSUME TypeOK, FlowInv, Flows, NEW s \in pag.stmt, s.op = "Gep"
  PROVE  NodeStruct(s.src)' = NodeStruct(s.src)
<1>1. s.src \in Ids(pag)
  BY DEF TypeOK, GraphsOK, IsPag, IsStmt
<1>2. \A f \in DOMAIN funcInfos : s.src \notin Formals(f)
  BY DEF FlowInv, InterfaceFlow, Formals
<1>3. QED
  BY <1>1, <1>2, GepTagStays DEF FlowInv

\* A prescanned function brings no Gep and no tag.
LEMMA NoNewOffsets ==
  ASSUME TypeOK, NEW f \in Funs, NEW sig \in Signatures, f \notin DOMAIN funcInfos,
         PrescanFunctionDef(f, sig)
  PROVE  /\ UNCHANGED nodeStructTy
         /\ \A s \in pag'.stmt \ pag.stmt : s.op # "Gep"
<1>1. UNCHANGED nodeStructTy
  BY DEF PrescanFunctionDef
<1>2. pag'.stmt = pag.stmt \cup {Stmt("Addr", LastId(pag) + 1, LastId(pag) + 1 + 1, 0)}
  BY RegistersAll DEF Registers
<1>3. QED
  BY <1>1, <1>2 DEF Stmt

\* Every Gep of a constant offset after the step.
LEMMA StepOffsets ==
  ASSUME TypeOK, LifecycleInv, FlowInv, OffsetsInTable, [Next]_vars,
         NEW s \in pag'.stmt, s.op = "Gep", s.arg # 0
  PROVE  /\ NodeStruct(s.src) # None /\ NodeStruct(s.src)' = NodeStruct(s.src)
         /\ IsFieldIdx(NodeStruct(s.src), s.arg + 1)
<1>1. s \in pag.stmt => /\ NodeStruct(s.src) # None
                        /\ IsFieldIdx(NodeStruct(s.src), s.arg + 1)
  BY DEF OffsetsInTable, Stmts
<1>2. CASE Flows
  BY <1>1, <1>2, NewOffsets, OldOffsets DEF Added
<1>3. ASSUME NEW f \in Funs, NEW sig \in Signatures, f \notin DOMAIN funcInfos, PrescanFunctionDef(f, sig)
      PROVE  s \in pag.stmt /\ NodeStruct(s.src)' = NodeStruct(s.src)
  BY <1>3, NoNewOffsets DEF NodeStruct
<1>4. QED
  BY <1>1, <1>2, <1>3, StepFlows

LEMMA StepOffsetsInTable ==
  ASSUME TypeOK, LifecycleInv, FlowInv, OffsetsInTable, [Next]_vars
  PROVE  OffsetsInTable'
<1> SUFFICES ASSUME NEW s \in pag'.stmt, s.op = "Gep", s.arg # 0
             PROVE  NodeStruct(s.src)' # None /\ IsFieldIdx(NodeStruct(s.src), s.arg + 1)'
  BY DEF OffsetsInTable, Stmts
<1>1. /\ NodeStruct(s.src) # None /\ NodeStruct(s.src)' = NodeStruct(s.src)
      /\ IsFieldIdx(NodeStruct(s.src), s.arg + 1)
  BY StepOffsets
<1>2. NodeStruct(s.src) \in Structs
  BY <1>1 DEF NodeStruct, TypeOK, TagsOK, IsTable
<1>3. PICK sty \in Structs : sty = NodeStruct(s.src)
  BY <1>2
<1>4. IsFieldIdx(sty, s.arg + 1)'
  BY <1>1, <1>3, FieldIdxStays
<1>5. NodeStruct(s.src)' = sty /\ sty # None
  BY <1>1, <1>3
<1>6. QED
  BY <1>4, <1>5 DEF IsFieldIdx, FieldMetaIdx

LEMMA InitOffsets ==
  ASSUME Init
  PROVE  OffsetsInTable
BY DEF Init, OffsetsInTable, EmptyPag, Stmts

\* Every constant offset of a Gep is the index of a field in the table of the struct that
\* its base is tagged with, when the Gep is made and ever after, however often and however
\* differently the struct is defined again (GepHandler, visitFieldExpr).
THEOREM OffsetsHaveFields == Spec => []OffsetsInTable
<1>1. Init => OffsetsInTable
  BY InitOffsets
<1>2. TypeOK /\ LifecycleInv /\ FlowInv /\ OffsetsInTable /\ [Next]_vars => OffsetsInTable'
  BY StepOffsetsInTable
<1>3. QED
  BY <1>1, <1>2, FlowsThroughInterfaces, PTL DEF Spec

LEMMA RepeatedInside ==
  ASSUME TypeOK, FieldsRepeat, NEW sty \in Structs, NEW o \in Nat, IsFieldIdx(sty, o + 1)
  PROVE  sty \in DOMAIN stInfo /\ o < stInfo[sty]
<1> DEFINE row == structFields[sty]
           n == stInfo[sty]
<1>1. PICK f \in Fields : /\ o + 1 \in 1..Len(row) /\ row[o + 1].name = f
                          /\ \A j \in 1..(o + 1 - 1) : row[j].name # f
  BY DEF IsFieldIdx, FieldMetaIdx
<1>2. row \in Seq(FieldMetaType) /\ Len(row) \in Nat
  BY LenProperties DEF TypeOK, TypesOK
<1>3. sty \in DOMAIN stInfo
  <2>1. row # <<>>
    BY <1>1, <1>2, EmptySeq
  <2>2. QED
    BY <2>1 DEF FieldsRepeat
<1>4. n \in Nat /\ Repeats(row, n)
  BY <1>3, FieldsRepeatRows DEF TypeOK, TypesOK, IsTable
<1> HIDE DEF row, n
<1>5. PICK i \in 1..n : row[o + 1] = row[i]
  BY <1>1, <1>4 DEF Repeats
<1>6. ~(i \in 1..(o + 1 - 1))
  BY <1>1, <1>5
<1>7. o < n
  BY <1>4, <1>5, <1>6
<1>8. QED
  BY <1>3, <1>7 DEF n

\* In a program whose files agree on the definitions of its structs, that field is one of
\* those that SVF sees in the struct's StInfo.
THEOREM OffsetsInsideStructs ==
  ASSUME ~Uses("differing structs")
  PROVE  Spec => []OffsetsInStruct
<1>1. TypeOK /\ OffsetsInTable /\ FieldsRepeat => OffsetsInStruct
  <2> SUFFICES ASSUME TypeOK, OffsetsInTable, FieldsRepeat, NEW s \in Stmts(pag, "Gep"), s.arg # 0
               PROVE  NodeStruct(s.src) \in DOMAIN stInfo /\ s.arg < stInfo[NodeStruct(s.src)]
    BY DEF OffsetsInStruct
  <2>1. NodeStruct(s.src) # None /\ IsFieldIdx(NodeStruct(s.src), s.arg + 1)
    BY DEF OffsetsInTable
  <2>2. NodeStruct(s.src) \in Structs
    BY <2>1 DEF NodeStruct, TypeOK, TagsOK, IsTable
  <2>3. s.arg \in Nat
    BY DEF TypeOK, GraphsOK, IsPag, IsStmt, Stmts
  <2>4. QED
    BY <2>1, <2>2, <2>3, RepeatedInside
<1>2. Spec => []FieldsRepeat
  BY FieldsRepeatHolds DEF Differ
<1>3. QED
  BY <1>1, <1>2, OffsetsHaveFields, TypeCorrect, PTL
-----------------------------------------------------------------------------
(* Pointers *)

LiteralAddresses == Uses("literal address")
CastSums == Uses("cast") /\ Uses("sum")

\* The new statements define pointers, and use the values of literals as LiteralsInert
\* says.
Inert ==
  \A s \in Added :
    pag'.node[s.dst].ptr /\ (s.op \in {"Addr", "Store", "CallPE"} \/ pag'.node[s.src].ptr)
\* The operand that an expression leaves is a pointer where its form says so.
Suits(e) ==
  /\ e.form \in PointerForms => pag'.node[e.id].ptr
  /\ e.form = "cast" => Uses("cast")
ExprPoints == Inert /\ \E n \in 0..Len(stack) : \E e : Push(n, e) /\ Suits(e)

LEMMA DereferencedPoints ==
  ASSUME ~LiteralAddresses, NEW e, Dereferenced(e)
  PROVE  pag.node[e.id].ptr
BY Zenon DEF Dereferenced, LiteralAddresses

LEMMA OperandPoints ==
  ASSUME TypeOK, PointersHeld, NEW n \in 1..Len(stack)
  PROVE  /\ stack[Arg(n)].form \in PointerForms => pag.node[stack[Arg(n)].id].ptr
         /\ stack[Arg(n)].form = "cast" => Uses("cast")
<1>1. Len(stack) \in Nat /\ DOMAIN stack = 1..Len(stack)
  BY LenProperties DEF TypeOK, StackOK
<1>2. Arg(n) \in DOMAIN stack
  BY <1>1 DEF Arg
<1>3. QED
  BY <1>2 DEF PointersHeld

LEMMA LookupPoints ==
  ASSUME TypeOK, PointersHeld, NEW x, NEW sym \in Lookup(x)
  PROVE  sym.valId \in Vals(pag) /\ pag.node[sym.valId].ptr
<1>1. \A k : k \in 1..Len(scopes) <=> k \in DOMAIN scopes
  BY SequenceFacts DEF TypeOK, SymtabOK
<1>2. \/ \E k \in DOMAIN scopes : x \in DOMAIN scopes[k] /\ sym = scopes[k][x]
      \/ \E y \in DOMAIN globals : sym = globals[y]
  BY <1>1 DEF Lookup
<1>3. sym.valId \in Tables
  BY <1>2 DEF Tables, ScopeIds, GlobalIds
<1>4. QED
  BY <1>3, LookupHeld, HeldTyped DEF PointersHeld

LEMMA OldPoints ==
  ASSUME Grows(pag, pag'), NEW i \in Vals(pag), pag.node[i].ptr
  PROVE  pag'.node[i].ptr
BY DEF Grows, Vals

LEMMA YieldPoints ==
  ASSUME TypeOK, Grows(pag, pag'), NEW n \in 0..Len(stack), NEW form, form = "cast" => Uses("cast"),
         NEW name, NEW as, NEW op, NEW src \in Vals(pag), pag.node[src].ptr, NEW arg, NEW sty,
         Yield(n, form, name, as, op, src, arg, sty)
  PROVE  ExprPoints
<1> DEFINE t == LastId(pag) + 1
           s == Stmt(op, src, t, arg)
           e == Operand(form, name, t, as)
<1>1. pag' = Emit(pag, op, src, arg, currentICFG) /\ Push(n, e)
  BY DEF Yield
<1>2. pag'.stmt = pag.stmt \cup {s} /\ pag'.node[t] = ValNode(currentICFG, None)
  BY <1>1, AnchorTyped, EmitAdds DEF TypeOK, GraphsOK
<1>3. s.src = src /\ s.dst = t /\ e.id = t /\ e.form = form /\ ValNode(currentICFG, None).ptr
  BY DEF Stmt, Operand, ValNode, Node
<1>4. pag'.node[src].ptr
  BY OldPoints
<1> HIDE DEF s, t, e
<1>5. Inert
  BY <1>2, <1>3, <1>4 DEF Inert, Added
<1>6. Suits(e)
  BY <1>2, <1>3 DEF Suits
<1>7. QED
  BY <1>1, <1>5, <1>6 DEF ExprPoints

LEMMA PlacePoints ==
  ASSUME TypeOK, Grows(pag, pag'), NEW n \in 0..Len(stack), NEW form, form # "cast",
         NEW op \in StmtOps \ {"Addr", "CallPE", "RetPE"}, NEW base \in Vals(pag), pag.node[base].ptr,
         NEW arg \in Nat, NEW placeSty, NEW valueSty,
         YieldPlace(n, form, op, base, arg, placeSty, valueSty)
  PROVE  ExprPoints
<1> DEFINE p == LastId(pag) + 1
           s == Stmt(op, base, p, arg)
           l == Stmt("Load", p, p + 1, 0)
           e == Operand(form, None, p + 1, Rvalue)
<1>1. CASE Yield(n, form, None, Lvalue, op, base, arg, placeSty)
  BY <1>1, YieldPoints
<1>2. CASE YieldLoaded(n, form, op, base, arg, placeSty, valueSty)
  <2>1. Push(n, e) /\ e.id = p + 1 /\ e.form = form
    BY <1>2 DEF YieldLoaded, Operand
  <2>2. /\ pag'.stmt = pag.stmt \cup {s, l} /\ pag'.node[p] = ValNode(currentICFG, None)
        /\ pag'.node[p + 1] = ValNode(currentICFG, None)
    BY <1>2, LoadedAdds
  <2>3. /\ s.src = base /\ s.dst = p /\ l.src = p /\ l.dst = p + 1
        /\ ValNode(currentICFG, None).ptr
    BY DEF Stmt, ValNode, Node
  <2>4. pag'.node[base].ptr
    BY OldPoints
  <2> HIDE DEF s, l, e, p
  <2>5. Inert
    BY <2>2, <2>3, <2>4 DEF Inert, Added
  <2>6. Suits(e)
    BY <2>1, <2>2, <2>3 DEF Suits
  <2>7. QED
    BY <2>1, <2>5, <2>6 DEF ExprPoints
<1>3. QED
  BY <1>1, <1>2 DEF YieldPlace

\* A fresh node that no statement mentions, pointer or not.
LEMMA NodePoints ==
  ASSUME TypeOK, NEW n \in 0..Len(stack), NEW e, NEW v \in PagNode(icfg, Names),
         pag' = AddNode(pag, v), Push(n, e), e.id = LastId(pag) + 1,
         e.form \in PointerForms => v.ptr, e.form # "cast"
  PROVE  ExprPoints
<1>1. pag'.stmt = pag.stmt /\ pag'.node[LastId(pag) + 1] = v
  BY AddNodeAdds DEF TypeOK, GraphsOK
<1>2. Inert
  BY <1>1 DEF Inert, Added
<1>3. Suits(e)
  BY <1>1 DEF Suits
<1>4. QED
  BY <1>2, <1>3 DEF ExprPoints

LEMMA YieldFreshPoints ==
  ASSUME TypeOK, NEW n \in 0..Len(stack), NEW form, form # "cast", NEW name, NEW as,
         YieldFresh(n, form, name, as)
  PROVE  ExprPoints
<1> DEFINE v == ValNode(currentICFG, None)
           e == Operand(form, name, LastId(pag) + 1, as)
<1>1. pag' = AddNode(pag, v) /\ Push(n, e)
  BY DEF YieldFresh, AddVal
<1>2. /\ v \in PagNode(icfg, Names) /\ v.ptr /\ e.id = LastId(pag) + 1 /\ e.form = form
  BY AnchorTyped DEF PagNode, ValNode, Node, Operand
<1> HIDE DEF v, e
<1>3. QED
  BY <1>1, <1>2, NodePoints

LEMMA ReturnPoints ==
  ASSUME TypeOK, NEW n \in 0..Len(stack), NEW form, form = "cast" => Uses("cast"), NEW name,
         NEW id, form \in PointerForms => pag.node[id].ptr, NEW as, Return(n, form, name, id, as)
  PROVE  ExprPoints
<1> DEFINE e == Operand(form, name, id, as)
<1>1. Push(n, e) /\ pag' = pag /\ e.id = id /\ e.form = form
  BY DEF Return, Operand
<1> HIDE DEF e
<1>2. Inert
  BY <1>1 DEF Inert, Added
<1>3. Suits(e)
  BY <1>1 DEF Suits
<1>4. QED
  BY <1>1, <1>2, <1>3 DEF ExprPoints

\* An object and its address, for a declaration or an expression.
LEMMA ObjectPoints ==
  ASSUME TypeOK, NEW kind \in ObjKinds, NEW name \in Names, NEW size \in Nat,
         pag' = AddObject(pag, kind, currentICFG, name, size)
  PROVE  Inert /\ pag'.node[LastId(pag) + 2].ptr
<1> DEFINE o == LastId(pag) + 1
           s == Stmt("Addr", o, o + 1, 0)
<1>1. pag'.stmt = pag.stmt \cup {s} /\ pag'.node[o + 1] = ValNode(currentICFG, name)
  BY AnchorTyped, AddObjectAdds DEF TypeOK, GraphsOK
<1>2. /\ s.op = "Addr" /\ s.dst = o + 1 /\ ValNode(currentICFG, name).ptr
      /\ o + 1 = LastId(pag) + 2
  BY NextIsNew DEF Stmt, ValNode, Node
<1> HIDE DEF o, s
<1>3. QED
  BY <1>1, <1>2 DEF Inert, Added

LEMMA IdentifierPoints ==
  ASSUME TypeOK, Grows(pag, pag'), PointersHeld, NEW x \in Vars \cup Funs, VisitIdentifier(x)
  PROVE  ExprPoints
<1>1. 0 \in 0..Len(stack)
  BY StackNotEmpty
<1>2. CASE YieldFresh(0, "identifier", x, Either)
  BY <1>1, <1>2, YieldFreshPoints
<1>3. ASSUME NEW sym \in Lookup(x), NEW as, Return(0, "identifier", x, sym.valId, as)
      PROVE  ExprPoints
  BY <1>1, <1>3, LookupPoints, ReturnPoints
<1>4. ASSUME NEW sym \in Lookup(x),
             Yield(0, "identifier", x, Rvalue, "Load", sym.valId, 0, NodeStruct(sym.valId))
      PROVE  ExprPoints
  BY <1>1, <1>4, LookupPoints, YieldPoints
<1>5. QED
  BY <1>2, <1>3, <1>4 DEF VisitIdentifier

LEMMA LeafPoints ==
  ASSUME TypeOK, VisitNumber \/ VisitString \/ VisitNull \/ VisitAllocation
  PROVE  ExprPoints
<1>1. 0 \in 0..Len(stack)
  BY StackNotEmpty
<1>2. CASE VisitNumber
  <2> DEFINE v == Node("val", FALSE, currentICFG, None, 0)
             e == Operand("literal", None, LastId(pag) + 1, Either)
  <2>1. pag' = AddNode(pag, v) /\ Push(0, e)
    BY <1>2 DEF VisitNumber
  <2>2. v \in PagNode(icfg, Names) /\ e.id = LastId(pag) + 1 /\ e.form = "literal"
    BY AnchorTyped DEF PagNode, Node, Operand
  <2> HIDE DEF v, e
  <2>3. QED
    BY <1>1, <2>1, <2>2, NodePoints DEF PointerForms
<1>3. ASSUME NEW kind \in ObjKinds, NEW form \in {"string", "call"},
             pag' = AddObject(pag, kind, currentICFG, None, 1),
             Push(0, Operand(form, None, LastId(pag) + 2, Either))
      PROVE  ExprPoints
  <2> DEFINE e == Operand(form, None, LastId(pag) + 2, Either)
  <2>1. e.form = form
    BY DEF Operand
  <2>2. Push(0, e)
    BY <1>3
  <2> HIDE DEF e
  <2>3. Suits(e)
    BY <2>1 DEF Suits, PointerForms
  <2>4. Inert
    BY <1>3, ObjectPoints DEF Names
  <2>5. QED
    BY <1>1, <2>2, <2>3, <2>4 DEF ExprPoints
<1>4. CASE VisitString \/ VisitAllocation
  <2>1. "const" \in ObjKinds /\ "heap" \in ObjKinds
    BY DEF ObjKinds
  <2>2. QED
    BY <1>3, <1>4, <2>1 DEF VisitString, VisitAllocation
<1>5. CASE VisitNull
  BY <1>1, <1>5, YieldFreshPoints DEF VisitNull
<1>6. QED
  BY <1>2, <1>4, <1>5

\* The handlers of one operand.
LEMMA UnaryPoints ==
  ASSUME TypeOK, Grows(pag, pag'), PointersHeld, ~LiteralAddresses,
         \/ VisitParenthesized \/ VisitAddressOf \/ VisitDeref \/ VisitLastChild
         \/ \E spec \in Specifiers : VisitCast(spec)
  PROVE  ExprPoints
<1> DEFINE e == stack[Arg(1)]
<1>1. stack # <<>>
  BY DEF VisitParenthesized, VisitAddressOf, VisitDeref, VisitLastChild, VisitCast
<1>2. 1 \in 0..Len(stack) /\ e.id \in Vals(pag)
  BY <1>1, StackNotEmpty, OperandTyped
<1>3. ASSUME NEW form, NEW name, NEW as, form = "cast" => Uses("cast"),
             form \in PointerForms => pag.node[e.id].ptr, Return(1, form, name, e.id, as)
      PROVE  ExprPoints
  BY <1>2, <1>3, ReturnPoints
<1>4. ASSUME NEW form, NEW name, NEW as, NEW op, NEW sty, form = "cast" => Uses("cast"),
             pag.node[e.id].ptr, Yield(1, form, name, as, op, e.id, 0, sty)
      PROVE  ExprPoints
  BY <1>2, <1>4, YieldPoints
<1>5. Dereferenced(e) => pag.node[e.id].ptr
  BY DereferencedPoints
<1> HIDE DEF e
<1>6. CASE VisitParenthesized
  BY <1>3, <1>6 DEF VisitParenthesized, PointerForms, e
<1>7. CASE VisitAddressOf
  BY <1>3, <1>5, <1>7 DEF VisitAddressOf, e
<1>8. CASE VisitDeref
  BY <1>3, <1>4, <1>5, <1>8 DEF VisitDeref, e
<1>9. CASE VisitLastChild
  <2>1. Return(1, "other", None, e.id, Either)
    BY <1>9 DEF VisitLastChild, e
  <2>2. QED
    BY <1>3, <2>1 DEF PointerForms
<1>10. ASSUME NEW spec \in Specifiers, VisitCast(spec)
       PROVE  ExprPoints
  BY <1>3, <1>4, <1>10 DEF VisitCast, PointerForms, e
<1>11. QED
  BY <1>6, <1>7, <1>8, <1>9, <1>10

\* What visitBinary takes for a pointer is one, unless it is a cast.
LEMMA CPointerPoints ==
  ASSUME TypeOK, PointersHeld, ~CastSums, Uses("sum"), NEW n \in 1..Len(stack),
         IsCPointerExpr(stack[Arg(n)])
  PROVE  pag.node[stack[Arg(n)].id].ptr
<1>1. stack[Arg(n)].form \in PointerForms \cup {"cast"}
  BY DEF IsCPointerExpr, PointerForms
<1>2. QED
  BY <1>1, OperandPoints DEF CastSums

LEMMA BinaryPoints ==
  ASSUME TypeOK, Grows(pag, pag'), PointersHeld, ~CastSums, NEW additive, VisitBinary(additive)
  PROVE  ExprPoints
<1> DEFINE l == stack[Arg(2)]
           r == stack[Arg(1)]
           base == IF IsCPointerExpr(l) THEN l.id ELSE r.id
<1>1. 1 \in 1..Len(stack) /\ 2 \in 1..Len(stack)
  BY StackNotEmpty DEF VisitBinary
<1>2. 2 \in 0..Len(stack) /\ base \in Vals(pag)
  BY <1>1, OperandTyped
<1>3. \/ /\ Uses("sum") /\ (IsCPointerExpr(l) \/ IsCPointerExpr(r))
         /\ Yield(2, "binary", None, Either, "Gep", base, 0, NodeStruct(base))
      \/ YieldFresh(2, "binary", None, Either)
  BY DEF VisitBinary
<1>4. Uses("sum") /\ (IsCPointerExpr(l) \/ IsCPointerExpr(r)) => pag.node[base].ptr
  BY <1>1, CPointerPoints
<1> HIDE DEF l, r, base
<1>5. QED
  BY <1>2, <1>3, <1>4, YieldPoints, YieldFreshPoints

LEMMA AssignedPoints ==
  ASSUME TypeOK, NEW n \in Nat, n + 1 \in 1..Len(stack), NEW dsts, \A d \in dsts : pag.node[d].ptr,
         Assigned(n, dsts)
  PROVE  ExprPoints
<1> DEFINE rhs == stack[Arg(n + 1)]
           S == {Stmt("Store", rhs.id, d, currentICFG) : d \in dsts}
           e == Operand("assign", None, rhs.id, Either)
<1>1. pag' = AddStmts(pag, S) /\ Push(n + 1, e) /\ e.form = "assign"
  BY DEF Assigned, Operand
<1>2. n + 1 \in 0..Len(stack)
  BY OperandTyped
<1>3. \A s \in S : s.op = "Store" /\ pag.node[s.dst].ptr
  BY DEF Stmt
<1> HIDE DEF S, e
<1>4. Added \subseteq S /\ pag'.node = pag.node
  BY <1>1, AddStmtsAdds DEF TypeOK, GraphsOK, Added
<1>5. Inert
  BY <1>3, <1>4 DEF Inert
<1>6. Suits(e)
  BY <1>1 DEF Suits, PointerForms
<1>7. QED
  BY <1>1, <1>2, <1>5, <1>6 DEF ExprPoints

LEMMA AssignPoints ==
  ASSUME TypeOK, PointersHeld, \/ \E x \in Vars : VisitAssignIdentifier(x)
                               \/ VisitAssignThrough
                               \/ VisitAssignParenthesized
  PROVE  ExprPoints
<1>1. ASSUME NEW x \in Vars, VisitAssignIdentifier(x)
      PROVE  ExprPoints
  <2>1. Len(stack) >= 1 /\ Assigned(0, {sym.valId : sym \in Lookup(x)})
    BY <1>1 DEF VisitAssignIdentifier
  <2>2. 0 + 1 \in 1..Len(stack)
    BY <2>1, StackNotEmpty
  <2>3. \A d \in {sym.valId : sym \in Lookup(x)} : pag.node[d].ptr
    BY LookupPoints
  <2>4. QED
    BY <2>1, <2>2, <2>3, AssignedPoints
<1>2. CASE VisitAssignThrough
  <2>1. 1 + 1 \in 1..Len(stack) /\ 1 \in 1..Len(stack)
    BY <1>2, StackNotEmpty DEF VisitAssignThrough
  <2>2. stack[Arg(1)].form \in PointerForms /\ Assigned(1, {stack[Arg(1)].id})
    BY <1>2 DEF VisitAssignThrough, PointerForms
  <2>3. \A d \in {stack[Arg(1)].id} : pag.node[d].ptr
    BY <2>1, <2>2, OperandPoints
  <2>4. QED
    BY <2>1, <2>2, <2>3, AssignedPoints
<1>3. CASE VisitAssignParenthesized
  <2>1. 0 + 1 \in 1..Len(stack)
    BY <1>3, StackNotEmpty DEF VisitAssignParenthesized
  <2>2. QED
    BY <1>3, <2>1, AssignedPoints DEF VisitAssignParenthesized
<1>4. QED
  BY <1>1, <1>2, <1>3

LEMMA FieldPoints ==
  ASSUME TypeOK, Grows(pag, pag'), ~LiteralAddresses, NEW f, NEW arrow, VisitField(f, arrow)
  PROVE  ExprPoints
<1> DEFINE e == stack[Arg(1)]
<1>1. 1 \in 1..Len(stack)
  BY StackNotEmpty DEF VisitField
<1>2. 1 \in 0..Len(stack) /\ e.id \in Vals(pag)
  BY <1>1, OperandTyped
<1>3. Dereferenced(e) /\ \/ \E i \in Nat \ {0} : \E p, v : YieldPlace(1, "field", "Gep", e.id, FlatFldIdx(i), p, v)
                         \/ YieldPlace(1, "field", "VarGep", e.id, 0, None, None)
  <2>1. FieldMetaIdx(NodeStruct(e.id), f) \subseteq Nat \ {0}
    BY DEF FieldMetaIdx
  <2> HIDE DEF e
  <2>2. QED
    BY <2>1, Zenon DEF VisitField, e
<1>4. pag.node[e.id].ptr
  BY <1>3, DereferencedPoints
<1>5. \A i \in Nat \ {0} : FlatFldIdx(i) \in Nat
  BY DEF FlatFldIdx
<1>6. /\ "Gep" \in StmtOps \ {"Addr", "CallPE", "RetPE"}
      /\ "VarGep" \in StmtOps \ {"Addr", "CallPE", "RetPE"} /\ 0 \in Nat
  BY DEF StmtOps
<1> HIDE DEF e
<1>7. QED
  BY <1>2, <1>3, <1>4, <1>5, <1>6, PlacePoints

LEMMA SubscriptPoints ==
  ASSUME TypeOK, Grows(pag, pag'), ~LiteralAddresses, VisitSubscript
  PROVE  ExprPoints
<1> DEFINE a == stack[Arg(2)]
<1>1. 2 \in 1..Len(stack)
  BY StackNotEmpty DEF VisitSubscript
<1>2. 2 \in 0..Len(stack) /\ a.id \in Vals(pag)
  BY <1>1, OperandTyped
<1>3. /\ YieldPlace(2, "subscript", "Gep", a.id, 0, NodeStruct(a.id), NodeStruct(a.id))
      /\ Dereferenced(a)
  BY DEF VisitSubscript
<1>4. "Gep" \in StmtOps \ {"Addr", "CallPE", "RetPE"} /\ 0 \in Nat
  BY DEF StmtOps
<1>5. pag.node[a.id].ptr
  BY <1>3, DereferencedPoints
<1> HIDE DEF a
<1>6. QED
  BY <1>2, <1>3, <1>4, <1>5, PlacePoints

LEMMA CallPoints ==
  ASSUME TypeOK, Grows(pag, pag'), PointersHeld, NEW f \in Funs, NEW n \in 0..MaxStack, VisitCall(f, n)
  PROVE  ExprPoints
<1>1. PICK t, S, r, e : t = LastId(pag) + 1 /\ S = CallArguments(f, n) /\ r = CallResult(f)
                        /\ e = Operand("call", None, t, Either)
  OBVIOUS
<1>2. Push(n, e) /\ e.form = "call"
  BY <1>1 DEF VisitCall, Operand
<1>3. /\ f \in DOMAIN funcInfos /\ n \in 0..Len(stack)
      /\ \A s \in S : s.op = "CallPE" /\ s.dst \in Formals(f)
      /\ pag'.node[t] = ValNode(currentICFG, None)
      /\ pag'.stmt = pag.stmt \cup S \cup {r}
  BY <1>1, CallStatements
<1>4. r.src = funcInfos[f].retVal /\ r.dst = t
  BY <1>1 DEF CallResult, Stmt
<1>5. \A i \in Interface(f) : pag'.node[i].ptr
  BY <1>3, InterfaceTyped, OldPoints DEF PointersHeld
<1>6. Inert
  <2>1. pag'.node[t].ptr
    BY <1>3 DEF ValNode, Node
  <2>2. QED
    BY <1>3, <1>4, <1>5, <2>1 DEF Inert, Added, Interface
<1>7. Suits(e)
  BY <1>2 DEF Suits, PointerForms
<1>8. QED
  BY <1>2, <1>3, <1>6, <1>7 DEF ExprPoints

LEMMA ExprStepPoints ==
  ASSUME TypeOK, PointersHeld, ~LiteralAddresses, ~CastSums, ExprStep
  PROVE  ExprPoints
<1> DEFINE Grown == Grows(pag, pag')
<1>0. Grown
  BY ExprStepPreserves DEF Preserved
<1>1. ASSUME NEW x \in Vars \cup Funs, VisitIdentifier(x)
      PROVE  ExprPoints
  BY <1>0, <1>1, IdentifierPoints
<1>2. ASSUME VisitNumber \/ VisitString \/ VisitNull \/ VisitAllocation
      PROVE  ExprPoints
  BY <1>2, LeafPoints
<1>3. ASSUME \/ VisitParenthesized \/ VisitAddressOf \/ VisitDeref \/ VisitLastChild
             \/ \E spec \in Specifiers : VisitCast(spec)
      PROVE  ExprPoints
  BY <1>0, <1>3, UnaryPoints
<1>4. ASSUME NEW additive \in BOOLEAN, VisitBinary(additive)
      PROVE  ExprPoints
  BY <1>0, <1>4, BinaryPoints
<1>5. ASSUME \/ \E x \in Vars : VisitAssignIdentifier(x)
             \/ VisitAssignThrough
             \/ VisitAssignParenthesized
      PROVE  ExprPoints
  BY <1>5, AssignPoints
<1>6. ASSUME NEW f \in Fields, NEW arrow \in BOOLEAN, VisitField(f, arrow)
      PROVE  ExprPoints
  BY <1>0, <1>6, FieldPoints
<1>7. ASSUME VisitSubscript
      PROVE  ExprPoints
  BY <1>0, <1>7, SubscriptPoints
<1>8. ASSUME NEW f \in Funs, NEW n \in 0..MaxStack, VisitCall(f, n)
      PROVE  ExprPoints
  BY <1>0, <1>8, CallPoints
<1>9. ASSUME NEW f \in Funs \cup {None}, NEW n \in 0..MaxStack, VisitUnknownCall(f, n)
      PROVE  ExprPoints
  <2>1. ArgumentsVisited(n) /\ YieldFresh(n, "call", None, Either)
    BY <1>9 DEF VisitUnknownCall
  <2>2. n \in 0..Len(stack)
    BY <2>1, ArgumentsTyped
  <2>3. QED
    BY <2>1, <2>2, YieldFreshPoints
<1>10. QED
  BY <1>1, <1>2, <1>3, <1>4, <1>5, <1>6, <1>7, <1>8, <1>9 DEF ExprStep

\* What a step that is no expression has to show: what it declares is a pointer.
StepPoints ==
  /\ Inert /\ (stack' = stack \/ stack' = <<>>)
  /\ \A i \in Tables' : i \in Tables \/ pag'.node[i].ptr

LEMMA TablesMeet ==
  ASSUME NEW S,
         \A x \in DOMAIN globals' :
           globals'[x].valId \in S \/ (x \in DOMAIN globals /\ globals'[x] = globals[x]),
         \A k \in DOMAIN scopes' : \A x \in DOMAIN scopes'[k] :
           \/ scopes'[k][x].valId \in S
           \/ k \in DOMAIN scopes /\ x \in DOMAIN scopes[k] /\ scopes'[k][x] = scopes[k][x],
         target' = target \/ target' = NoTarget \/ target'.val \in S
  PROVE  Tables' \subseteq Tables \cup S
<1>1. GlobalIds' \subseteq GlobalIds \cup S
  BY DEF GlobalIds
<1>2. ScopeIds' \subseteq ScopeIds \cup S
  BY DEF ScopeIds
<1>3. TargetIds' \subseteq TargetIds \cup S
  BY DEF TargetIds
<1>4. QED
  BY <1>1, <1>2, <1>3 DEF Tables

LEMMA QuietPoints ==
  ASSUME TypeOK, UNCHANGED <<pag, globals, target>>, stack' = stack \/ stack' = <<>>,
         EnterScope \/ (ExitScope \/ UNCHANGED scopes)
  PROVE  StepPoints
<1>1. \A k \in DOMAIN scopes' : \A x \in DOMAIN scopes'[k] :
        k \in DOMAIN scopes /\ x \in DOMAIN scopes[k] /\ scopes'[k][x] = scopes[k][x]
  BY SymbolsStay
<1>2. Tables' \subseteq Tables \cup {}
  BY <1>1, TablesMeet
<1>3. QED
  BY <1>2 DEF StepPoints, Inert, Added

\* A declaration, of a global or a local variable.
LEMMA DeclarationPoints ==
  ASSUME TypeOK, NEW kind \in ObjKinds, NEW name \in Names, NEW size \in Nat,
         pag' = AddObject(pag, kind, currentICFG, name, size),
         UNCHANGED stack, Tables' \subseteq Tables \cup {LastId(pag) + 2}
  PROVE  StepPoints
BY ObjectPoints DEF StepPoints

LEMMA GlobalDeclPoints ==
  ASSUME TypeOK, NEW x \in Vars \cup Funs, NEW spec, NEW d, NEW init, VisitGlobalDecl(x, spec, d, init)
  PROVE  StepPoints
<1> DEFINE ty == DeclaredType(spec, d)
           sym == Symbol(ty, LastId(pag) + 1, LastId(pag) + 2, FALSE, d.bracket)
           S == {LastId(pag) + 2}
<1>1. /\ pag' = AddObject(pag, "global", currentICFG, x, FlattenedFields(ty))
      /\ globals' = Bind(globals, x, sym)
      /\ target' = NoTarget \/ target'.val = LastId(pag) + 2
      /\ UNCHANGED <<scopes, stack>>
  BY DEF VisitGlobalDecl
<1>2. "global" \in ObjKinds /\ x \in Names /\ FlattenedFields(ty) \in Nat
  BY FlattenedNat DEF ObjKinds, Names
<1>3. sym.valId = LastId(pag) + 2
  BY DEF Symbol
<1> HIDE DEF ty, sym
<1>4. \A y \in DOMAIN globals' : globals'[y].valId \in S \/ (y \in DOMAIN globals /\ globals'[y] = globals[y])
  BY <1>1, <1>3, BindHolds
<1>5. Tables' \subseteq Tables \cup S
  BY <1>1, <1>4, TablesMeet
<1>6. QED
  BY <1>1, <1>2, <1>5, DeclarationPoints

\* The symbol of a local variable, in the tables.
LEMMA LocalTables ==
  ASSUME TypeOK, NEW x, NEW ty, NEW isArray, BindLocal(x, ty, isArray), UNCHANGED globals,
         target' = target \/ target' = NoTarget \/ target'.val = LastId(pag) + 2
  PROVE  Tables' \subseteq Tables \cup {LastId(pag) + 2}
<1>1. \A k \in DOMAIN scopes' : \A y \in DOMAIN scopes'[k] :
        \/ scopes'[k][y].valId \in {LastId(pag) + 2}
        \/ k \in DOMAIN scopes /\ y \in DOMAIN scopes[k] /\ scopes'[k][y] = scopes[k][y]
  BY BindLocalHolds
<1>2. QED
  BY <1>1, TablesMeet

LEMMA LocalDeclPoints ==
  ASSUME TypeOK, NEW x \in Vars, NEW spec, NEW d, NEW init, VisitLocalDecl(x, spec, d, init)
  PROVE  StepPoints
<1> DEFINE ty == DeclaredType(spec, d)
<1>1. /\ pag' = AddObject(pag, "stack", currentICFG, x, FlattenedFields(ty))
      /\ BindLocal(x, ty, d.bracket)
      /\ target' = NoTarget \/ target'.val = LastId(pag) + 2
      /\ UNCHANGED <<globals, stack>>
  BY DEF VisitLocalDecl, CreateLocal
<1>2. "stack" \in ObjKinds /\ x \in Names /\ FlattenedFields(ty) \in Nat
  BY FlattenedNat DEF ObjKinds, Names
<1> HIDE DEF ty
<1>3. Tables' \subseteq Tables \cup {LastId(pag) + 2}
  BY <1>1, LocalTables
<1>4. QED
  BY <1>1, <1>2, <1>3, DeclarationPoints

LEMMA BindFormalPoints ==
  ASSUME TypeOK, BindFormal
  PROVE  StepPoints
<1> DEFINE formal == Head(toBind)
           name == formal.name
           o == LastId(pag) + 1
           made == AddObject(pag, "stack", currentICFG, name, 1)
           s == Stmt("Addr", o, o + 1, 0)
           t == Stmt("Store", formal.val, LastId(pag) + 2, currentICFG)
<1>1. /\ toBind # <<>> /\ pag' = AddStmts(made, {t})
      /\ BindLocal(formal.name, PtrTy, FALSE) /\ UNCHANGED <<globals, stack, target>>
  BY DEF BindFormal, AddStmt
<1>2. name \in Names /\ "stack" \in ObjKinds
  <2>1. formal \in FormalType
    BY <1>1, HeadTailProperties DEF TypeOK, FramesOK
  <2>2. QED
    BY <2>1 DEF FormalType, Names, ObjKinds
<1>3. LastId(pag) + 2 = o + 1
  BY NextIsNew
<1> HIDE DEF formal, name
<1>4. made.stmt = pag.stmt \cup {s} /\ made.node[o + 1] = ValNode(currentICFG, name)
  BY <1>2, AnchorTyped, AddObjectAdds DEF TypeOK, GraphsOK
<1>5. IsPag(made, icfg, Names)
  BY <1>2, ObjectAtAnchor
<1>6. /\ s.op = "Addr" /\ s.dst = o + 1 /\ t.op = "Store" /\ t.dst = o + 1
      /\ ValNode(currentICFG, name).ptr
  BY <1>3 DEF Stmt, ValNode, Node
<1>7. Tables' \subseteq Tables \cup {o + 1}
  BY <1>1, <1>3, LocalTables
<1> HIDE DEF o, s, t, made
<1>8. pag'.node = made.node /\ pag'.stmt = made.stmt \cup {t}
  BY <1>1, <1>5, AddStmtsAdds
<1>9. Inert
  BY <1>4, <1>6, <1>8 DEF Inert, Added
<1>10. QED
  BY <1>1, <1>4, <1>6, <1>7, <1>8, <1>9 DEF StepPoints

\* One statement more, at the end of an expression.
LEMMA EndPoints ==
  ASSUME TypeOK, NEW s, pag.node[s.dst].ptr, s.op = "Store" \/ pag.node[s.src].ptr,
         pag' = AddStmts(pag, {s}), stack' = <<>>, UNCHANGED <<globals, scopes>>,
         target' = target \/ target' = NoTarget
  PROVE  StepPoints
<1>1. pag'.node = pag.node /\ Added \subseteq {s}
  BY AddStmtsAdds DEF TypeOK, GraphsOK, Added
<1>2. Tables' \subseteq Tables \cup {}
  BY TablesMeet
<1>3. QED
  BY <1>1, <1>2 DEF StepPoints, Inert

LEMMA EndInitializerPoints ==
  ASSUME TypeOK, PointersHeld, EndInitializer
  PROVE  StepPoints
<1> DEFINE s == Stmt("Store", stack[1].id, target.val, currentICFG)
<1>1. /\ pag' = AddStmts(pag, {s}) /\ stack' = <<>> /\ target' = NoTarget
      /\ target # NoTarget /\ UNCHANGED <<globals, scopes>>
  BY DEF EndInitializer, AddStmt, symtab
<1>2. s.op = "Store" /\ s.dst = target.val
  BY DEF Stmt
<1> HIDE DEF s
<1>3. pag.node[target.val].ptr
  BY <1>1 DEF PointersHeld, Tables, TargetIds
<1>4. QED
  BY <1>1, <1>2, <1>3, EndPoints

LEMMA ResultPoints ==
  ASSUME TypeOK, InterfaceInv, PointersHeld, VisitReturn
  PROVE  StepPoints
<1> DEFINE v == stack[1].id
           s == Stmt("Copy", v, currentRetVal, 0)
<1>1. /\ pag' = IF currentRetIsPtr /\ pag.node[v].ptr THEN AddStmts(pag, {s}) ELSE pag
      /\ stack' = <<>> /\ UNCHANGED <<globals, scopes, target>>
  BY DEF VisitReturn, ReturnFlow, AddStmt, symtab
<1>2. s.src = v /\ s.dst = currentRetVal
  BY DEF Stmt
<1> HIDE DEF v, s
<1>3. CASE currentRetIsPtr /\ pag.node[v].ptr
  <2>1. pag.node[currentRetVal].ptr
    BY <1>3, CurrentResult DEF PointersHeld, Interface
  <2>2. QED
    BY <1>1, <1>2, <1>3, <2>1, EndPoints
<1>4. CASE ~(currentRetIsPtr /\ pag.node[v].ptr)
  BY <1>1, <1>4, QuietPoints
<1>5. QED
  BY <1>3, <1>4

LEMMA BodyStepPoints ==
  ASSUME TypeOK, InterfaceInv, PointersHeld, BodyStep
  PROVE  StepPoints
<1>1. ASSUME VisitFunctionDef \/ EnterBody \/ LeaveFunctionDef \/ EnterBlock \/ ExitBlock
      PROVE  StepPoints
  <2>1. /\ UNCHANGED <<pag, globals, target, stack>>
        /\ EnterScope \/ (ExitScope \/ UNCHANGED scopes)
    BY <1>1 DEF VisitFunctionDef, MarkVisited, EnterBody, LeaveFunctionDef, EnterBlock, ExitBlock, graphs
  <2>2. QED
    BY <2>1, QuietPoints
<1>2. ASSUME VisitFor \/ VisitForClause \/ EndFor \/ VisitExprStmt
      PROVE  StepPoints
  <2>1. UNCHANGED <<pag, globals, scopes, target>> /\ (stack' = stack \/ stack' = <<>>)
    BY <1>2 DEF VisitFor, VisitForClause, EndFor, VisitExprStmt, graphs, symtab
  <2>2. QED
    BY <2>1, QuietPoints
<1>3. ASSUME NEW x \in Vars, NEW spec \in Specifiers, NEW d \in Declarators, NEW init \in BOOLEAN,
             VisitLocalDecl(x, spec, d, init)
      PROVE  StepPoints
  BY <1>3, LocalDeclPoints
<1>4. ASSUME BindFormal \/ EndInitializer \/ VisitReturn
      PROVE  StepPoints
  BY <1>4, BindFormalPoints, EndInitializerPoints, ResultPoints
<1>5. ASSUME NEW x \in Vars, SkipFunctionPointer(x)
      PROVE  StepPoints
  <2>1. UNCHANGED <<pag, globals, scopes, target, stack>>
    BY <1>5 DEF SkipFunctionPointer, graphs, symtab
  <2>2. QED
    BY <2>1, QuietPoints
<1>6. QED
  BY <1>1, <1>2, <1>3, <1>4, <1>5 DEF BodyStep

\* A prescanned function: its symbol and its interface are pointers.
LEMMA RegistersPoints ==
  ASSUME TypeOK, NEW f \in Funs, NEW sig \in Signatures, f \notin DOMAIN funcInfos,
         PrescanFunctionDef(f, sig)
  PROVE  /\ StepPoints /\ DOMAIN funcInfos' = DOMAIN funcInfos \cup {f}
         /\ \A i \in Interface(f)' : pag'.node[i].ptr
<1> DEFINE id == LastId(pag) + 2
           sym == Symbol(FunTy, LastId(pag) + 1, LastId(pag) + 1 + 1, TRUE, FALSE)
           s == Stmt("Addr", LastId(pag) + 1, LastId(pag) + 1 + 1, 0)
<1>1. Registers(f)
  BY RegistersAll
<1>2. LastId(pag) + 1 + 1 = id
  BY NextIsNew
<1>3. /\ globals' = Bind(globals, f, sym) /\ pag'.stmt = pag.stmt \cup {s}
      /\ pag'.node[id] = ValNode(GlobalNode, f) /\ DOMAIN funcInfos' = DOMAIN funcInfos \cup {f}
  BY <1>1, <1>2 DEF Registers
<1>4. UNCHANGED <<scopes, stack, target>>
  BY DEF PrescanFunctionDef, cursor
<1>5. sym.valId = id /\ s.op = "Addr" /\ s.dst = id
  BY <1>2 DEF Symbol, Stmt
<1>6. \A at, name : ValNode(at, name).ptr
  BY DEF ValNode, Node
<1> HIDE DEF id, sym, s
<1>7. \A y \in DOMAIN globals' : globals'[y].valId \in {id} \/ (y \in DOMAIN globals /\ globals'[y] = globals[y])
  BY <1>3, <1>5, BindHolds
<1>8. Tables' \subseteq Tables \cup {id}
  BY <1>4, <1>7, TablesMeet
<1>9. StepPoints
  BY <1>3, <1>4, <1>5, <1>6, <1>8 DEF StepPoints, Inert, Added
<1>10. \A i \in Interface(f)' : pag'.node[i].ptr
  BY <1>1, <1>6 DEF Registers, Interface, Formals
<1>11. QED
  BY <1>3, <1>9, <1>10

LEMMA UnitStepPoints ==
  ASSUME TypeOK, UnitStep
  PROVE  StepPoints
<1>1. ASSUME StartUnit \/ EndPrescan \/ EndUnit
      PROVE  StepPoints
  <2>1. /\ UNCHANGED <<pag, globals, target, stack>>
        /\ EnterScope \/ (ExitScope \/ UNCHANGED scopes)
    BY <1>1 DEF StartUnit, EndPrescan, EndUnit, graphs, symtab, cursor
  <2>2. QED
    BY <2>1, QuietPoints
<1>2. ASSUME NEW f \in Funs, NEW sig \in Signatures, PrescanFunctionDef(f, sig)
      PROVE  StepPoints
  <2>1. CASE f \in DOMAIN funcInfos
    <3>1. UNCHANGED <<pag, globals, scopes, target, stack>>
      BY <1>2, <2>1 DEF PrescanFunctionDef, cursor
    <3>2. QED
      BY <3>1, QuietPoints
  <2>2. CASE f \notin DOMAIN funcInfos
    BY <1>2, <2>2, RegistersPoints
  <2>3. QED
    BY <2>1, <2>2
<1>3. ASSUME \/ \E s \in Structs, def \in StructDefs : VisitStructSpecifier(s, def)
             \/ \E alias \in Aliases, spec \in Specifiers : VisitTypeDefinition(alias, spec)
      PROVE  StepPoints
  <2>1. UNCHANGED <<pag, globals, scopes, target, stack>>
    BY <1>3 DEF VisitStructSpecifier, VisitTypeDefinition, graphs, symtab, cursor
  <2>2. QED
    BY <2>1, QuietPoints
<1>4. ASSUME NEW x \in Vars, NEW spec \in Specifiers, NEW d \in Declarators, NEW init \in BOOLEAN,
             VisitGlobalDecl(x, spec, d, init)
      PROVE  StepPoints
  BY <1>4, GlobalDeclPoints
<1>5. ASSUME NEW f \in Funs, VisitPrototype(f)
      PROVE  StepPoints
  BY <1>5, GlobalDeclPoints DEF VisitPrototype
<1>6. QED
  BY <1>1, <1>2, <1>3, <1>4, <1>5 DEF UnitStep

\* Every step adds only statements that the verifier accepts.
LEMMA StepInert ==
  ASSUME TypeOK, LiteralsInert, Grows(pag, pag'), Inert
  PROVE  LiteralsInert'
<1> SUFFICES ASSUME NEW s \in pag'.stmt
             PROVE  /\ pag'.node[s.dst].ptr
                    /\ s.op \in {"Addr", "Store", "CallPE"} \/ pag'.node[s.src].ptr
  BY DEF LiteralsInert
<1>1. CASE s \in Added
  BY <1>1 DEF Inert
<1>2. CASE s \in pag.stmt
  <2>1. pag.node[s.dst].ptr /\ (s.op \in {"Addr", "Store", "CallPE"} \/ pag.node[s.src].ptr)
    BY <1>2 DEF LiteralsInert
  <2>2. s.dst \in Ids(pag) /\ s.src \in Ids(pag)
    BY <1>2 DEF TypeOK, GraphsOK, IsPag, IsStmt, Vals
  <2>3. QED
    BY <2>1, <2>2 DEF Grows
<1>3. QED
  BY <1>1, <1>2 DEF Added

\* The interfaces of all functions, after a step that may register one.
LEMMA StepInterfacesPoint ==
  ASSUME TypeOK, PointersHeld, Grows(pag, pag'), [Next]_vars, NEW f \in DOMAIN funcInfos',
         NEW i \in Interface(f)'
  PROVE  pag'.node[i].ptr
<1>1. CASE f \in DOMAIN funcInfos
  <2>1. i \in Interface(f)
    BY <1>1, StepKeepsFunctions, InterfaceKept
  <2>2. pag.node[i].ptr /\ i \in Vals(pag)
    BY <1>1, <2>1, InterfaceTyped DEF PointersHeld
  <2>3. QED
    BY <2>2, OldPoints
<1>2. CASE f \notin DOMAIN funcInfos
  <2>1. ~Flows
    BY <1>2 DEF Flows, SameInterfaces
  <2>2. PICK g \in Funs, sig \in Signatures : g \notin DOMAIN funcInfos /\ PrescanFunctionDef(g, sig)
    BY <2>1, StepFlows
  <2>3. DOMAIN funcInfos' = DOMAIN funcInfos \cup {g} /\ \A j \in Interface(g)' : pag'.node[j].ptr
    BY <2>2, RegistersPoints
  <2>4. f = g
    BY <1>2, <2>3
  <2>5. QED
    BY <2>3, <2>4
<1>3. QED
  BY <1>1, <1>2

\* The operands that a step leaves pending.
LEMMA StepOperandsPoint ==
  ASSUME TypeOK, PointersHeld, Grows(pag, pag'), ExprPoints \/ stack' = stack \/ stack' = <<>>,
         NEW k \in DOMAIN stack'
  PROVE  /\ stack'[k].form \in PointerForms => pag'.node[stack'[k].id].ptr
         /\ stack'[k].form = "cast" => Uses("cast")
<1>1. ASSUME NEW j \in DOMAIN stack, stack'[k] = stack[j]
      PROVE  /\ stack'[k].form \in PointerForms => pag'.node[stack'[k].id].ptr
             /\ stack'[k].form = "cast" => Uses("cast")
  <2>1. /\ stack[j].form \in PointerForms => pag.node[stack[j].id].ptr
        /\ stack[j].form = "cast" => Uses("cast")
    BY DEF PointersHeld
  <2>2. stack[j].id \in Vals(pag)
    BY HeldCases, HeldTyped
  <2>3. QED
    BY <1>1, <2>1, <2>2, OldPoints
<1>2. CASE stack' = stack \/ stack' = <<>>
  BY <1>1, <1>2
<1>3. ASSUME NEW n \in 0..Len(stack), NEW e, Push(n, e), Suits(e)
      PROVE  /\ stack'[k].form \in PointerForms => pag'.node[stack'[k].id].ptr
             /\ stack'[k].form = "cast" => Uses("cast")
  <2>1. stack'[k] = e \/ \E j \in DOMAIN stack : stack'[k] = stack[j]
    BY <1>3, PushHolds
  <2>2. QED
    BY <1>1, <1>3, <2>1 DEF Suits
<1>4. QED
  BY <1>2, <1>3 DEF ExprPoints

LEMMA StepPointers ==
  ASSUME TypeOK, InterfaceInv, PointersHeld, LiteralsInert, ~LiteralAddresses, ~CastSums, [Next]_vars
  PROVE  PointersHeld' /\ LiteralsInert'
<1>1. Grows(pag, pag')
  BY StepPreserves DEF Preserved
<1>2. (ExprPoints /\ UNCHANGED Tables) \/ StepPoints
  <2>1. CASE ExprStep
    <3>1. UNCHANGED <<globals, scopes, target>>
      BY <2>1, ExprStepControls DEF symtab
    <3>2. UNCHANGED Tables
      BY <3>1 DEF Tables, GlobalIds, ScopeIds, TargetIds
    <3>3. QED
      BY <2>1, <3>2, ExprStepPoints
  <2>2. CASE UNCHANGED vars
    BY <2>2, QuietPoints DEF vars, graphs, symtab, cursor
  <2>3. QED
    BY <2>1, <2>2, BodyStepPoints, UnitStepPoints DEF Next
<1>3. LiteralsInert'
  BY <1>1, <1>2, StepInert DEF ExprPoints, StepPoints
<1>4. \A i \in Tables' : pag'.node[i].ptr
  <2>1. \A i \in Tables : i \in Vals(pag) /\ pag.node[i].ptr
    BY HeldTyped DEF PointersHeld, Tables, Held
  <2>2. \A i \in Tables : pag'.node[i].ptr
    BY <1>1, <2>1, OldPoints
  <2>3. QED
    BY <1>2, <2>2 DEF StepPoints
<1>5. \A f \in DOMAIN funcInfos' : \A i \in Interface(f)' : pag'.node[i].ptr
  BY <1>1, StepInterfacesPoint
<1>6. \A k \in DOMAIN stack' :
        /\ stack'[k].form \in PointerForms => pag'.node[stack'[k].id].ptr
        /\ stack'[k].form = "cast" => Uses("cast")
  BY <1>1, <1>2, StepOperandsPoint DEF StepPoints
<1>7. QED
  BY <1>3, <1>4, <1>5, <1>6 DEF PointersHeld

LEMMA InitPointers ==
  ASSUME Init
  PROVE  PointersHeld /\ LiteralsInert
<1>1. Tables = {} /\ DOMAIN funcInfos = {} /\ DOMAIN stack = {} /\ pag.stmt = {}
  BY DEF Init, Tables, GlobalIds, ScopeIds, TargetIds, NoSymbols, EmptyPag
<1>2. QED
  BY <1>1 DEF PointersHeld, LiteralsInert

\* What the checks of the verifier come to.
LEMMA InertVerifies ==
  ASSUME TypeOK, EveryObjectHasAddr, LiteralsInert
  PROVE  VerifierAccepts
<1>1. ASSUME NEW s \in pag.stmt
      PROVE  /\ CheckEdge(pag, s) /\ IsPointerNode(pag, s.dst)
             /\ s.op = "Addr" => pag.node[s.src].kind \in ObjKinds
             /\ s.op \in {"Copy", "Load", "Gep", "VarGep"} => IsPointerNode(pag, s.src)
  <2>1. IsStmt(pag, s)
    BY DEF TypeOK, GraphsOK, IsPag
  <2>2. CheckEdge(pag, s) /\ (s.op = "Addr" => pag.node[s.src].kind \in ObjKinds)
    BY <2>1 DEF IsStmt, Vals, Objects, CheckEdge
  <2>3. QED
    BY <2>2 DEF LiteralsInert, IsPointerNode
<1>2. CheckAddr(pag) /\ CheckCopy(pag) /\ CheckLoad(pag) /\ CheckStore(pag) /\ CheckGep(pag)
  BY <1>1 DEF CheckAddr, CheckCopy, CheckLoad, CheckStore, CheckGep, Stmts
<1>3. CheckReachability(pag)
  BY DEF EveryObjectHasAddr, CheckReachability
<1>4. QED
  BY <1>2, <1>3 DEF VerifierAccepts, Verify

\* What stands for a variable, a parameter or a result, and every operand that
\* visitBinary takes for a pointer, is one, and a literal's value flows nowhere but into
\* a slot or a formal: so it is in every program that takes no address of a literal and
\* in which sums and casts do not meet.
THEOREM OperandsArePointers ==
  ASSUME "literal address" \notin Constructs,
         "cast" \notin Constructs \/ "sum" \notin Constructs
  PROVE  Spec => [](PointersHeld /\ LiteralsInert)
<1>1. ~LiteralAddresses /\ ~CastSums
  BY Zenon DEF LiteralAddresses, CastSums, Uses
<1>2. Init => PointersHeld /\ LiteralsInert
  BY InitPointers
<1>3. ASSUME TypeOK, FlowInv, PointersHeld, LiteralsInert, [Next]_vars
      PROVE  PointersHeld' /\ LiteralsInert'
  <2>1. InterfaceInv
    BY <1>3 DEF FlowInv
  <2>2. QED
    BY ONLY <1>1, <1>3, <2>1, StepPointers
<1>4. QED
  BY <1>2, <1>3, FlowsThroughInterfaces, PTL DEF Spec

\* The verifier accepts the PAG of all these programs: of a cast operand of a sum
\* visitBinary cannot tell whether the value is a pointer.
THEOREM VerifierAlwaysAccepts ==
  ASSUME "literal address" \notin Constructs,
         "cast" \notin Constructs \/ "sum" \notin Constructs
  PROVE  Spec => []VerifierAccepts
<1>1. ASSUME TypeOK, EveryObjectHasAddr, LiteralsInert
      PROVE  VerifierAccepts
  BY ONLY <1>1, InertVerifies
<1>2. Spec => [](PointersHeld /\ LiteralsInert)
  BY Zenon, OperandsArePointers
<1>3. QED
  BY <1>1, <1>2, FlowsThroughInterfaces, ObjectsAddressed, PTL
=============================================================================
