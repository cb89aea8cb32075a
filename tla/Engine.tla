------------------------------- MODULE Engine -------------------------------
(***************************************************************************)
(* The operations of CKKSEngine on texts (ckks/engine_*.cpp): what they     *)
(* require of their arguments, how they bring two texts to one level, form  *)
(* and scale, which functions of the core they call on what, and who        *)
(* deletes the texts made on the way.                                       *)
(*                                                                         *)
(* A caller owns the texts in SlotCount slots and calls one operation after *)
(* the other; the engine keeps nothing between two calls but temp_data_.    *)
(* A call is a workspace that the functions of the engine hand on: the      *)
(* objects of the heap, those in temp_data_, those deleted, the calls of    *)
(* the core, the result.  An action of this module is a whole call, and the *)
(* properties speak about every call that can be made in a state.           *)
(*                                                                         *)
(* Sizes are the logarithms of the numbers in the code, so that a product   *)
(* is a sum.  A text carries the scale it declares (ckks_scale_) and, a     *)
(* history variable, the scale its data has.                                *)
(***************************************************************************)
EXTENDS Integers, Sequences, FiniteSets, Functions

CONSTANTS
    FullLevel,      \* full_level_: the level of moduli_id 0
    MaxLevel,       \* get_max_level
    OneMoreLevel,   \* get_use_one_more_level
    LogScale,       \* log of scale_
    LogQ,           \* logs of q_, by chain index
    SlotCount,      \* the texts that a caller holds
    MaxLeftover     \* bound: the texts left over in temp_data_ between calls

ASSUME LevelAssumption ==
    /\ FullLevel \in Nat \ {0} /\ MaxLevel \in 1 .. FullLevel
    /\ OneMoreLevel \in BOOLEAN

ASSUME ModuliAssumption ==
    /\ LogScale \in Nat /\ LogQ \in [0 .. FullLevel + 1 -> Nat]

ASSUME SlotAssumption == SlotCount \in Nat \ {0} /\ MaxLeftover \in Nat \ {0}

VARIABLES
    texts,      \* the texts of the caller, NoText in a free slot
    leftover    \* the number of texts in temp_data_

vars == <<texts, leftover>>

Level == 0 .. MaxLevel
Slot == 1 .. SlotCount

-----------------------------------------------------------------------------
(* Parameters. *)

to_moduli_id(level) == FullLevel - level

MaxKeySwitchingLevel ==
    IF OneMoreLevel /\ MaxLevel = FullLevel THEN FullLevel - 1 ELSE MaxLevel

(* deviations_, the drift of the scale from level to level. *)
deviation_ ==
    LET deviation[n \in 0 .. FullLevel] ==  \* of the n-th level from the top
          IF n = 0 \/ (OneMoreLevel /\ n = 1) THEN 0
          ELSE 2 * (deviation[n - 1] + LogScale - LogQ[n - 1])
    IN  [level \in 0 .. FullLevel |-> deviation[to_moduli_id(level)]]

(* ckks_scale_, the scale of a fresh text. *)
get_ckks_scale(level) ==
    IF OneMoreLevel /\ to_moduli_id(level) = 0
      THEN LogScale + LogQ[0]
      ELSE deviation_[level] + 2 * LogScale

(* Mutant: the top level is not treated apart. *)
level_down_multiplier_plain(source, destination) ==
    LogQ[to_moduli_id(source)] + deviation_[destination] - deviation_[source]

(* The multipliers that level_down, add and multiply scale the data with. *)
level_down_multiplier(source, destination) ==
    (IF OneMoreLevel /\ to_moduli_id(source) = 0
       THEN LogScale ELSE LogQ[to_moduli_id(source)])
      + deviation_[destination] - deviation_[source]

level_down_multiplier_after_rescale(source, destination) ==
    LogScale + deviation_[destination] - (deviation_[source - 1] \div 2)

add_multiplier(level) ==
    LogScale + (IF OneMoreLevel /\ to_moduli_id(level) = 0
                  THEN LogQ[0] ELSE LogScale + deviation_[level])

mult_multiplier(level) == LogScale + (deviation_[level - 1] \div 2)

-----------------------------------------------------------------------------
(* Texts. *)

NoText == [polynomial_count |-> 0, moduli_id |-> 0, ntt_form |-> FALSE,
           rescaled |-> FALSE, ckks_scale |-> 0, scale |-> 0]

Text(count, moduli_id, scale) ==
    [polynomial_count |-> count, moduli_id |-> moduli_id, ntt_form |-> FALSE,
     rescaled |-> FALSE, ckks_scale |-> scale, scale |-> scale]

level_(text) == FullLevel - text.moduli_id + (IF text.rescaled THEN 1 ELSE 0)

IsPlaintext(text) == text.polynomial_count = 1
IsCiphertext(text) == text.polynomial_count \in {2, 3}

(* One function of the core that allocates a text, by what it changes. *)
Rescaled(text) ==
    LET q == LogQ[text.moduli_id]
    IN  [text EXCEPT !.moduli_id = @ + 1, !.rescaled = TRUE,
                     !.ckks_scale = @ - q, !.scale = @ - q]

LeveledDown(text, level) ==
    [text EXCEPT !.moduli_id = to_moduli_id(level),
                 !.ckks_scale = deviation_[level] + 2 * LogScale,
                 !.scale = @ + level_down_multiplier(level_(text), level)
                             - LogQ[text.moduli_id]]

LeveledDownAfterRescale(text, level) ==
    [text EXCEPT !.moduli_id = to_moduli_id(level), !.rescaled = FALSE,
                 !.ckks_scale = deviation_[level] + 2 * LogScale,
                 !.scale = @ + level_down_multiplier_after_rescale(
                                   level_(text), level)]

Product(text1, text2, count) ==
    [text1 EXCEPT !.polynomial_count = count, !.rescaled = FALSE,
                  !.ntt_form = @ \/ text2.ntt_form,
                  !.ckks_scale = @ + text2.ckks_scale,
                  !.scale = @ + text2.scale]

ProductWithDouble(text) ==
    LET q == LogQ[text.moduli_id]
    IN  [text EXCEPT !.moduli_id = to_moduli_id(level_(text) - 1),
                     !.ckks_scale = 2 * (@ - q),
                     !.scale = @ + mult_multiplier(level_(text)) - q]

Sum(text1, text2) == [text1 EXCEPT !.ntt_form = @ \/ text2.ntt_form,
                                   !.rescaled = @ \/ text2.rescaled]

-----------------------------------------------------------------------------
(***************************************************************************)
(* A call in progress.  An object is its index in obj; the first SlotCount  *)
(* ones are the caller's.  The registers x, y and result hold the variables *)
(* of the function that runs.                                               *)
(***************************************************************************)
Start(x, y) ==
    [obj      |-> texts,     \* all texts, also those deleted
     temp     |-> <<>>,      \* temp_data_ without what was left over
     leftover |-> leftover,
     gone     |-> {},        \* objects deleted
     misuse   |-> FALSE,     \* an object deleted was used or deleted
     core     |-> {},        \* the calls of the core
     refused  |-> FALSE,     \* the call has thrown
     x |-> x, y |-> y, result |-> 0]

text(w, r) == w.obj[w[r]]
level(w, r) == level_(text(w, r))
count(w, r) == text(w, r).polynomial_count

Refuse(w) == [w EXCEPT !.refused = TRUE]

NoKey == -1

(* A call of the core on the texts in some registers and at most one key. *)
Call(w, function, registers, key) ==
    [w EXCEPT
       !.core = @ \cup {[function |-> function, key |-> key,
                         args |-> [i \in DOMAIN registers |->
                                     text(w, registers[i])]]},
       !.misuse = @ \/ \E i \in DOMAIN registers : w[registers[i]] \in w.gone]

(* The text that it allocates goes to register r. *)
Allocate(w, r, made) ==
    [w EXCEPT !.obj = Append(@, made), ![r] = Len(w.obj) + 1]

(* The object in register r goes to temp_data_. *)
Push(w, r) == [w EXCEPT !.temp = Append(@, w[r])]

delete(w, id) == [w EXCEPT !.misuse = @ \/ id \in w.gone, !.gone = @ \cup {id}]

clear_temp_data(w) ==
    [w EXCEPT
       !.misuse = \/ @ \/ Range(w.temp) \cap w.gone # {}
                  \/ Cardinality(Range(w.temp)) < Len(w.temp),
       !.gone = @ \cup Range(w.temp),
       !.temp = <<>>, !.leftover = 0]

(* An inner call has returned: delete what was made for it. *)
DeleteAfter(w, id) == IF w.refused THEN w ELSE delete(w, id)

(* The result of an inner call is the argument of the next. *)
Pass(w) == [w EXCEPT !.x = w.result]

-----------------------------------------------------------------------------
(* Functions on the text in register r; with temp set, those that end in _. *)

to_ntt_form(w, r) ==
    Allocate(Call(w, "to_ntt_form", <<r>>, NoKey), r,
             [text(w, r) EXCEPT !.ntt_form = TRUE])

to_intt_form(w, r) ==
    Allocate(Call(w, "to_intt_form", <<r>>, NoKey), r,
             [text(w, r) EXCEPT !.ntt_form = FALSE])

(* Mutant: the argument itself is put in temp_data_ when it is in NTT form. *)
ntt_push_always(w, r) ==
    Push(IF text(w, r).ntt_form THEN w ELSE to_ntt_form(w, r), r)

ntt_(w, r) == IF text(w, r).ntt_form THEN w ELSE Push(to_ntt_form(w, r), r)

intt_(w, r) == IF text(w, r).ntt_form THEN Push(to_intt_form(w, r), r) ELSE w

core_rescale(w, r) ==
    Allocate(Call(w, "rescale", <<r>>, NoKey), r, Rescaled(text(w, r)))

core_level_down(w, r, to) ==
    Allocate(Call(w, "level_down", <<r>>, NoKey), r, LeveledDown(text(w, r), to))

core_level_down_after_rescale(w, r, to) ==
    Allocate(Call(w, "level_down_after_rescale", <<r>>, NoKey), r,
             LeveledDownAfterRescale(text(w, r), to))

(* A rescaled text that is not in temp_data_. *)
MakeRescaled(w, r) ==
    IF text(w, r).ntt_form
      THEN to_ntt_form(Push(core_rescale(intt_(w, r), r), r), r)
      ELSE core_rescale(w, r)

rescale_(w, r) == IF text(w, r).rescaled THEN w ELSE Push(MakeRescaled(w, r), r)

(* A text of a lower level that is not in temp_data_. *)
ToNttThenDelete(w, r) == delete(to_ntt_form(w, r), w[r])

MakeLeveledDown(w, r, to) ==
    CASE text(w, r).rescaled -> core_level_down_after_rescale(w, r, to)
      [] ~text(w, r).rescaled /\ text(w, r).ntt_form ->
           ToNttThenDelete(core_level_down(intt_(w, r), r, to), r)
      [] OTHER -> core_level_down(w, r, to)

level_down_(w, r, to) ==
    IF level(w, r) = to THEN w ELSE Push(MakeLeveledDown(w, r, to), r)

(* The level at which two texts operate. *)
min_level(w) == IF level(w, "x") < level(w, "y") THEN level(w, "x")
                                                 ELSE level(w, "y")

(***************************************************************************)
(* match_form: x and y are brought to the form of the ciphertext x, to the  *)
(* lower level, and rescaled if one of them is.  A plaintext y stays in     *)
(* coefficient form.                                                        *)
(***************************************************************************)
InttIfLeveledDown(w, r, other, always) ==
    IF always \/ level(w, r) > level(w, other) THEN intt_(w, r) ELSE w

(* Mutant: only the second text is ever rescaled. *)
RescaleIfOtherSecond(w, r, other) ==
    IF r = "y" /\ ~text(w, r).rescaled /\ text(w, other).rescaled
      THEN rescale_(w, r) ELSE w

RescaleIfOther(w, r, other) ==
    IF ~text(w, r).rescaled /\ text(w, other).rescaled THEN rescale_(w, r) ELSE w

NttIf(w, r, ntt_form) == IF ntt_form THEN ntt_(w, r) ELSE w

MatchLevels(w, to) == level_down_(level_down_(w, "x", to), "y", to)

match_form(w) ==
    LET ntt_form == text(w, "x").ntt_form
        plaintext == IsPlaintext(text(w, "y"))
        converted == InttIfLeveledDown(InttIfLeveledDown(w, "x", "y", ~ntt_form),
                                       "y", "x", plaintext \/ ~ntt_form)
        rescaled == RescaleIfOther(
                      RescaleIfOther(MatchLevels(converted, min_level(w)), "x", "y"),
                      "y", "x")
    IN  NttIf(NttIf(rescaled, "x", ntt_form), "y", ntt_form /\ ~plaintext)

match_form_inplace(w) ==
    IF text(w, "x").ntt_form THEN ntt_(w, "y") ELSE intt_(w, "y")

prepare_for_multiply(w, r, to) ==
    ntt_(rescale_(level_down_(
           IF level(w, r) > to THEN intt_(w, r) ELSE w, r, to), r), r)

-----------------------------------------------------------------------------
(***************************************************************************)
(* What the engine requires of arguments (engine_require.cpp).  A text is   *)
(* made by an engine with the same parameters and fits in one ciphertext;   *)
(* a ciphertext has two or three polynomials.                               *)
(***************************************************************************)

(* Mutant: texts of one level are compared whether they are rescaled or not. *)
match_ckks_scale_by_level(text1, text2) ==
    level_(text1) = level_(text2) => text1.ckks_scale = text2.ckks_scale

(* MATCH_CKKS_SCALE *)
match_ckks_scale(text1, text2) ==
    (level_(text1) = level_(text2) /\ text1.rescaled = text2.rescaled)
      => text1.ckks_scale = text2.ckks_scale

(* MATCH_LEVEL and MATCH_RESCALED *)
match_level(text1, text2) ==
    level_(text1) = level_(text2) /\ text1.rescaled = text2.rescaled

is_key_compatible(t, key) == t.moduli_id >= to_moduli_id(key)

(* A key switching key may serve texts that are one level above it. *)
is_switching_key_compatible(t, key) ==
    \/ OneMoreLevel /\ t.moduli_id = 0 /\ to_moduli_id(key) = 1
    \/ is_key_compatible(t, key)

(* Mutant: a key of any lower level will do for a product. *)
is_multiply_key_compatible_below(t, key) ==
    is_switching_key_compatible(t, key) \/ level_(t) - 1 >= key

(* for_multiply *)
is_multiply_key_compatible(t, key) ==
    is_switching_key_compatible(t, key) \/ level_(t) - 1 = key

-----------------------------------------------------------------------------
(* Encoding, encryption, and back. *)

validate_target_level(to) == to \in Level

encode(w, r, at) ==
    IF ~validate_target_level(at)
      THEN Refuse(w)
      ELSE Allocate(Call(w, "encode", <<>>, NoKey), r,
                    Text(1, to_moduli_id(at), get_ckks_scale(at)))

encrypt(w, key) ==
    IF text(w, "x").rescaled \/ ~is_key_compatible(text(w, "x"), key)
      THEN Refuse(w)
      ELSE Allocate(Call(w, "encrypt", <<"x">>, key), "result",
                    [text(w, "x") EXCEPT !.polynomial_count = 2])

EncryptThenDelete(w, key) ==
    IF w.refused THEN w ELSE DeleteAfter(encrypt(w, key), w.x)

encrypt_message(w, at, key) ==
    IF ~validate_target_level(at) \/ key < at
      THEN Refuse(w)
      ELSE EncryptThenDelete(encode(w, "x", at), key)

(* The core throws when the plaintext is too large for its moduli. *)
plaintext_modulus(moduli_id) ==
    FoldFunctionOnSet(LAMBDA a, b : a + b, 0, LogQ, moduli_id .. FullLevel + 1)

(* Fresh texts are not: the moduli of a level are a large prime, a small    *)
(* prime close to the scale for it and for each level below, and at the one *)
(* more level another large prime, while the scale of a fresh text is the   *)
(* square of the scale but for the drift, or a large prime times it.        *)
ASSUME ScaleAssumption ==
    \A l \in Level : ~(get_ckks_scale(l) > plaintext_modulus(to_moduli_id(l)))

decode(w) ==
    IF \/ text(w, "x").rescaled
       \/ text(w, "x").moduli_id > FullLevel
       \/ text(w, "x").ckks_scale > plaintext_modulus(text(w, "x").moduli_id)
      THEN Refuse(w)
      ELSE [Call(w, "decode", <<"x">>, NoKey) EXCEPT !.result = 0]

Decrypted(w, function, key) ==
    Allocate(Call(w, function, <<"x">>, key), "result",
             [text(w, "x") EXCEPT !.polynomial_count = 1, !.ntt_form = FALSE,
                                  !.rescaled = FALSE])

NotRescaled_(w) ==
    IF text(w, "x").rescaled THEN level_down_(w, "x", level(w, "x") - 1) ELSE w

decrypt_to_plaintext(w, key) ==
    IF \/ level(w, "x") <= 0 /\ text(w, "x").rescaled
       \/ ~is_key_compatible(text(w, "x"), key)
      THEN Refuse(w)
      ELSE clear_temp_data(
             IF count(w, "x") = 2
               THEN Decrypted(intt_(NotRescaled_(w), "x"), "decrypt_duo", key)
               ELSE Decrypted(ntt_(NotRescaled_(w), "x"), "decrypt_trio", key))

DecodeThenDelete(w) ==
    IF w.refused THEN w ELSE DeleteAfter(decode(Pass(w)), w.result)

decrypt(w, key) == DecodeThenDelete(decrypt_to_plaintext(w, key))

-----------------------------------------------------------------------------
(* Forms and levels; the result is never the argument itself. *)

Returned(w) == [w EXCEPT !.result = w.x]

clone(w) ==
    Allocate(Call(w, "clone", <<"x">>, NoKey), "result", text(w, "x"))

ntt(w) ==
    IF text(w, "x").ntt_form THEN clone(w) ELSE Returned(to_ntt_form(w, "x"))

intt(w) ==
    IF text(w, "x").ntt_form THEN Returned(to_intt_form(w, "x")) ELSE clone(w)

(* Mutant: a text of level 0 is rescaled as well. *)
rescale_at_level_zero(w) ==
    clear_temp_data(IF text(w, "x").rescaled
                      THEN clone(w) ELSE Returned(MakeRescaled(w, "x")))

rescale(w) ==
    IF level(w, "x") <= 0
      THEN Refuse(w)
      ELSE clear_temp_data(IF text(w, "x").rescaled
                             THEN clone(w) ELSE Returned(MakeRescaled(w, "x")))

level_down(w, to) ==
    IF to < 0 \/ to > level(w, "x")
      THEN Refuse(w)
      ELSE clear_temp_data(IF level(w, "x") = to
                             THEN clone(w) ELSE Returned(MakeLeveledDown(w, "x", to)))

negate(w) ==
    Allocate(Call(w, "negate", <<"x">>, NoKey), "result", text(w, "x"))

-----------------------------------------------------------------------------
(* Sums and differences. *)

Summed(w, function, r1, r2) ==
    clear_temp_data(Allocate(Call(w, function, <<r1, r2>>, NoKey), "result",
                             Sum(text(w, r1), text(w, r2))))

AddMatched(w) ==
    CASE count(w, "y") = 1 -> Summed(w, "add_plaintext", "x", "y")
      [] count(w, "y") # 1 /\ count(w, "x") = count(w, "y") ->
           Summed(w, "add", "x", "y")
      [] count(w, "y") # 1 /\ count(w, "x") > count(w, "y") ->
           Summed(w, "add_trio_and_duo", "x", "y")
      [] OTHER -> Summed(w, "add_trio_and_duo", "y", "x")

add(w) ==
    IF match_ckks_scale(text(w, "x"), text(w, "y"))
      THEN AddMatched(match_form(w)) ELSE Refuse(w)

(* The core subtracts the second text or, if minuend is set, the plaintext  *)
(* y is the minuend.                                                        *)
SubtractMatched(w, minuend) ==
    CASE count(w, "y") = 1 /\ ~minuend -> Summed(w, "subtract_plaintext", "x", "y")
      [] count(w, "y") = 1 /\ minuend ->
           Summed(w, "subtract_from_plaintext", "x", "y")
      [] count(w, "y") # 1 /\ count(w, "x") = count(w, "y") ->
           Summed(w, "subtract", "x", "y")
      [] count(w, "y") # 1 /\ count(w, "x") > count(w, "y") ->
           Summed(w, "subtract_trio_by_duo", "x", "y")
      [] OTHER ->
           clear_temp_data(Allocate(
             Call(w, "subtract_duo_by_trio", <<"x", "y">>, NoKey), "result",
             Sum(text(w, "y"), text(w, "x"))))

subtract(w, minuend) ==
    IF match_ckks_scale(text(w, "x"), text(w, "y"))
      THEN SubtractMatched(match_form(w), minuend) ELSE Refuse(w)

(* Also subtract_inplace.  Both texts may be the same. *)
add_inplace(w) ==
    IF /\ count(w, "x") = count(w, "y")
       /\ text(w, "x").ntt_form = text(w, "y").ntt_form
       /\ match_ckks_scale(text(w, "x"), text(w, "y"))
       /\ match_level(text(w, "x"), text(w, "y"))
      THEN Call(w, "add_inplace", <<"x", "y">>, NoKey) ELSE Refuse(w)

(* Does not clear temp_data_. *)
add_inplace_plaintext(w) ==
    IF /\ match_ckks_scale(text(w, "x"), text(w, "y"))
       /\ match_level(text(w, "x"), text(w, "y"))
      THEN Call(match_form_inplace(w), "add_inplace_plaintext", <<"x", "y">>, NoKey)
      ELSE Refuse(w)

AddThenDelete(w) == IF w.refused THEN w ELSE DeleteAfter(add(w), w.y)

add_message(w) == AddThenDelete(encode(w, "y", level(w, "x")))

SubtractThenDelete(w, minuend) ==
    IF w.refused THEN w ELSE DeleteAfter(subtract(w, minuend), w.y)

subtract_message(w, minuend) ==
    SubtractThenDelete(encode(w, "y", level(w, "x")), minuend)

(* subtract adds the negated number. *)
add_number(w) ==
    IF text(w, "x").ntt_form \/ text(w, "x").rescaled
      THEN add_message(w)
      ELSE Allocate(Call(w, "add_number", <<"x">>, NoKey), "result", text(w, "x"))

AddNumberThenDelete(w) == DeleteAfter(add_number(Pass(w)), w.result)

subtract_from_number(w) == AddNumberThenDelete(negate(w))

-----------------------------------------------------------------------------
(* Products. *)

Multiplied(w, function, r1, r2, made) ==
    Allocate(Call(w, function, <<r1, r2>>, NoKey), "result",
             Product(text(w, r1), text(w, r2), made))

Prepared(w, to) ==
    prepare_for_multiply(prepare_for_multiply(w, "x", to), "y", to)

(* The second text may be a plaintext. *)
multiply(w) ==
    CASE \/ level(w, "x") <= 0 \/ level(w, "y") <= 0
         \/ count(w, "y") # 1 /\ \E r \in {"x", "y"} : count(w, r) # 2 -> Refuse(w)
      [] level(w, "x") > 0 /\ level(w, "y") > 0 /\ count(w, "y") = 1 ->
           clear_temp_data(Multiplied(Prepared(w, min_level(w)), "multiply_plaintext",
                                      "x", "y", count(w, "x")))
      [] OTHER ->
           clear_temp_data(Multiplied(Prepared(w, min_level(w)), "multiply",
                                      "x", "y", 3))

square(w) ==
    IF count(w, "x") # 2 \/ level(w, "x") <= 0
      THEN Refuse(w)
      ELSE clear_temp_data(Multiplied(ntt_(rescale_(w, "x"), "x"), "square",
                                      "x", "x", 3))

MultiplyThenDelete(w) == IF w.refused THEN w ELSE DeleteAfter(multiply(w), w.y)

multiply_message(w) ==
    IF level(w, "x") <= 0
      THEN Refuse(w)
      ELSE MultiplyThenDelete(encode(w, "y", level(w, "x")))

core_multiply_double(w) ==
    Allocate(Call(w, "multiply_double", <<"x">>, NoKey), "result",
             ProductWithDouble(text(w, "x")))

multiply_double(w) ==
    IF text(w, "x").rescaled \/ level(w, "x") <= 0
      THEN Refuse(w)
      ELSE clear_temp_data(core_multiply_double(intt_(w, "x")))

core_multiply_integer(w) ==
    Allocate(Call(w, "multiply_integer", <<"x">>, NoKey), "result", text(w, "x"))

multiply_integer(w) ==
    IF text(w, "x").rescaled
      THEN Refuse(w)
      ELSE clear_temp_data(core_multiply_integer(intt_(w, "x")))

(* The plaintext of an imaginary integer has scale 1. *)
encode_imaginary(w) ==
    Allocate(Call(w, "encode_imaginary", <<>>, NoKey), "y",
             Text(1, to_moduli_id(level(w, "x")), 0))

MultiplyPlaintextThenDelete(w) ==
    clear_temp_data(delete(Multiplied(ntt_(w, "y"), "multiply_plaintext", "x", "y",
                                      count(w, "x")), w.y))

InttThenDelete(w) == DeleteAfter(intt(Pass(w)), w.result)

multiply_imaginary(w) ==
    LET multiplied == MultiplyPlaintextThenDelete(encode_imaginary(ntt_(w, "x")))
    IN  CASE text(w, "x").rescaled -> Refuse(w)
          [] ~text(w, "x").rescaled /\ ~text(w, "x").ntt_form ->
               InttThenDelete(multiplied)
          [] OTHER -> multiplied

-----------------------------------------------------------------------------
(* Operations that switch keys. *)

core_relinearize(w, key) ==
    Allocate(Call(w, "relinearize", <<"x">>, key), "result",
             [text(w, "x") EXCEPT !.polynomial_count = 2, !.ntt_form = FALSE])

relinearize(w, key) ==
    IF count(w, "x") # 3 \/ ~is_switching_key_compatible(text(w, "x"), key)
      THEN Refuse(w)
      ELSE clear_temp_data(core_relinearize(ntt_(w, "x"), key))

RelinearizeThenDelete(w, key) ==
    IF w.refused THEN w ELSE DeleteAfter(relinearize(Pass(w), key), w.result)

require_multiply_(w, r, key) ==
    /\ count(w, r) = 2 /\ level(w, r) > 0
    /\ is_multiply_key_compatible(text(w, r), key)

multiply_relinearize(w, key) ==
    IF require_multiply_(w, "x", key) /\ require_multiply_(w, "y", key)
      THEN RelinearizeThenDelete(multiply(w), key) ELSE Refuse(w)

square_relinearize(w, key) ==
    IF require_multiply_(w, "x", key)
      THEN RelinearizeThenDelete(square(w), key) ELSE Refuse(w)

(* A text at one more level leaves it before its key is switched. *)
BelowOneMoreLevel(w) ==
    IF OneMoreLevel /\ text(w, "x").moduli_id = 0
      THEN level_down_(w, "x", level(w, "x") - 1) ELSE w

core_switch_key(w, function, key) ==
    Allocate(Call(w, function, <<"x">>, key), "result", text(w, "x"))

PermuteAndSwitchKey(w, function, key) ==
    IF count(w, "x") # 2 \/ ~is_switching_key_compatible(text(w, "x"), key)
      THEN Refuse(w)
      ELSE clear_temp_data(core_switch_key(intt_(BelowOneMoreLevel(w), "x"),
                                           function, key))

conjugate(w, key) == PermuteAndSwitchKey(w, "conjugate", key)

(* With a rotation key: one step for each bit of the normalized delta. *)
RotateFurther(w, key) ==
    IF w.refused
      THEN w
      ELSE DeleteAfter(PermuteAndSwitchKey(Pass(w), "rotate", key), w.result)

rotate(w, key, bits) ==
    LET current[n \in 1 .. bits] ==
          IF n = 1 THEN PermuteAndSwitchKey(w, "rotate", key)
                   ELSE RotateFurther(current[n - 1], key)
    IN  IF count(w, "x") # 2 \/ ~is_switching_key_compatible(text(w, "x"), key)
          THEN Refuse(w)
          ELSE IF bits = 0 THEN intt(w) ELSE current[bits]

(* rotate and conjugate of a plaintext. *)
rotate_plaintext(w) ==
    Allocate(Call(w, IF text(w, "x").ntt_form THEN "rotate_ntt_form"
                                              ELSE "rotate_intt_form",
                  <<"x">>, NoKey), "result", text(w, "x"))

-----------------------------------------------------------------------------
(***************************************************************************)
(* The calls that a caller can make, by operation.  Keys of every level     *)
(* exist.  Callers encrypt and decode plaintexts in coefficient form only:  *)
(* encrypt and decode do not require it.                                    *)
(***************************************************************************)
Texts == {s \in Slot : texts[s] # NoText}
Plaintexts == {s \in Slot : IsPlaintext(texts[s])}
Ciphertexts == {s \in Slot : IsCiphertext(texts[s])}
CoefficientPlaintexts == {s \in Plaintexts : ~texts[s].ntt_form}

Key == 0 .. MaxLevel
SwitchingKey == 0 .. MaxKeySwitchingLevel
TargetLevel == -1 .. MaxLevel + 1

Encodings == {encode(Start(0, 0), "result", at) : at \in TargetLevel}
EncryptionsOfMessages ==
    {encrypt_message(Start(0, 0), at, key) : at \in TargetLevel, key \in Key}
Encryptions ==
    {encrypt(Start(x, 0), key) : x \in CoefficientPlaintexts, key \in Key}
Decryptions ==
    {decrypt_to_plaintext(Start(x, 0), key) : x \in Ciphertexts, key \in Key}
DecryptionsToValues ==
    {decrypt(Start(x, 0), key) : x \in Ciphertexts, key \in Key}
Decodings == {decode(Start(x, 0)) : x \in CoefficientPlaintexts}
Clones == {clone(Start(x, 0)) : x \in Texts}
ToNtt == {ntt(Start(x, 0)) : x \in Texts}
ToIntt == {intt(Start(x, 0)) : x \in Texts}
Rescalings == {rescale(Start(x, 0)) : x \in Texts}
LevelDowns == {level_down(Start(x, 0), to) : x \in Texts, to \in TargetLevel}
Negations == {negate(Start(x, 0)) : x \in Ciphertexts}
Additions == {add(Start(x, y)) : x \in Ciphertexts, y \in Texts}
Subtractions ==
    {subtract(Start(x, y), FALSE) : x \in Ciphertexts, y \in Texts}
    \cup {subtract(Start(x, y), TRUE) : x \in Ciphertexts, y \in Plaintexts}
AdditionsInplace ==
    {add_inplace(Start(x, y)) : x \in Ciphertexts, y \in Ciphertexts}
    \cup {add_inplace_plaintext(Start(x, y)) : x \in Ciphertexts, y \in Plaintexts}
AdditionsOfValues ==
    {add_message(Start(x, 0)) : x \in Ciphertexts}
    \cup {add_number(Start(x, 0)) : x \in Ciphertexts}
    \cup {subtract_message(Start(x, 0), minuend) :
             x \in Ciphertexts, minuend \in BOOLEAN}
    \cup {subtract_from_number(Start(x, 0)) : x \in Ciphertexts}
Multiplications ==
    {multiply(Start(x, y)) : x \in Ciphertexts, y \in Texts}
    \cup {square(Start(x, 0)) : x \in Ciphertexts}
MultiplicationsByValues ==
    {multiply_message(Start(x, 0)) : x \in Ciphertexts}
    \cup {multiply_double(Start(x, 0)) : x \in Ciphertexts}
    \cup {multiply_integer(Start(x, 0)) : x \in Ciphertexts}
    \cup {multiply_imaginary(Start(x, 0)) : x \in Ciphertexts}
Relinearizations ==
    {relinearize(Start(x, 0), key) : x \in Ciphertexts, key \in SwitchingKey}
RelinearizedProducts ==
    {multiply_relinearize(Start(x, y), key) :
       x \in Ciphertexts, y \in Ciphertexts, key \in SwitchingKey}
    \cup {square_relinearize(Start(x, 0), key) :
            x \in Ciphertexts, key \in SwitchingKey}
Rotations ==
    {rotate(Start(x, 0), key, bits) :
       x \in Ciphertexts, key \in SwitchingKey, bits \in 0 .. 2}
    \cup {rotate_plaintext(Start(x, 0)) : x \in Plaintexts}
Conjugations ==
    {conjugate(Start(x, 0), key) : x \in Ciphertexts, key \in SwitchingKey}

AllCalls ==
    UNION {Encodings, EncryptionsOfMessages, Encryptions, Decryptions,
           DecryptionsToValues, Decodings, Clones, ToNtt, ToIntt, Rescalings,
           LevelDowns, Negations, Additions, Subtractions, AdditionsInplace,
           AdditionsOfValues, Multiplications, MultiplicationsByValues,
           Relinearizations, RelinearizedProducts, Rotations, Conjugations}

-----------------------------------------------------------------------------
Init == texts = [s \in Slot |-> NoText] /\ leftover = 0

(***************************************************************************)
(* A call returns: the caller keeps the result in one of the slots, and     *)
(* deletes the text that was there.  MaxLeftover bounds the model.          *)
(***************************************************************************)
Return(w) ==
    /\ ~w.refused
    /\ leftover' = w.leftover + Len(w.temp)
    /\ leftover' <= MaxLeftover
    /\ IF w.result = 0
         THEN texts' = texts
         ELSE \E s \in Slot : texts' = [texts EXCEPT ![s] = w.obj[w.result]]

Encode == \E w \in Encodings : Return(w)
EncryptMessage == \E w \in EncryptionsOfMessages : Return(w)
Encrypt == \E w \in Encryptions : Return(w)
DecryptToPlaintext == \E w \in Decryptions : Return(w)
Decrypt == \E w \in DecryptionsToValues : Return(w)
Decode == \E w \in Decodings : Return(w)
Clone == \E w \in Clones : Return(w)
Ntt == \E w \in ToNtt : Return(w)
Intt == \E w \in ToIntt : Return(w)
Rescale == \E w \in Rescalings : Return(w)
LevelDown == \E w \in LevelDowns : Return(w)
Negate == \E w \in Negations : Return(w)
Add == \E w \in Additions : Return(w)
Subtract == \E w \in Subtractions : Return(w)
AddInplace == \E w \in AdditionsInplace : Return(w)
AddValue == \E w \in AdditionsOfValues : Return(w)
Multiply == \E w \in Multiplications : Return(w)
MultiplyByValue == \E w \in MultiplicationsByValues : Return(w)
Relinearize == \E w \in Relinearizations : Return(w)
MultiplyRelinearize == \E w \in RelinearizedProducts : Return(w)
Rotate == \E w \in Rotations : Return(w)
Conjugate == \E w \in Conjugations : Return(w)

Next ==
    \/ Encode \/ EncryptMessage \/ Encrypt
    \/ DecryptToPlaintext \/ Decrypt \/ Decode
    \/ Clone \/ Ntt \/ Intt \/ Rescale \/ LevelDown \/ Negate
    \/ Add \/ Subtract \/ AddInplace \/ AddValue
    \/ Multiply \/ MultiplyByValue
    \/ Relinearize \/ MultiplyRelinearize \/ Rotate \/ Conjugate

Spec == Init /\ [][Next]_vars

-----------------------------------------------------------------------------
(* The texts of a caller are at a level of the engine, and only plaintexts  *)
(* and ciphertexts: allocate_text gives them the level of their moduli_id.  *)
TypeOK ==
    /\ texts \in [Slot -> {NoText} \cup
         [polynomial_count : 1 .. 3, moduli_id : 0 .. FullLevel,
          ntt_form : BOOLEAN, rescaled : BOOLEAN,
          ckks_scale : Int, scale : Int]]
    /\ \A x \in Texts : level_(texts[x]) \in Level
    /\ leftover \in 0 .. MaxLeftover

(* The scale of a level, as encode and rescale give it to a fresh text. *)
CanonicalScale(t) ==
    IF t.rescaled
      THEN get_ckks_scale(level_(t)) - LogQ[to_moduli_id(level_(t))]
      ELSE get_ckks_scale(level_(t))

(* Whatever was computed, in whatever order: a text declares the scale that *)
(* its data has, and it is the one of its level.  So texts of one level     *)
(* match (require MATCH_CKKS_SCALE), and a decoded message is not off by a  *)
(* factor.                                                                  *)
ScalesExact ==
    \A x \in Texts : /\ texts[x].ckks_scale = texts[x].scale
                     /\ texts[x].scale = CanonicalScale(texts[x])

-----------------------------------------------------------------------------
(* What the functions of the core take for granted of their arguments. *)

InCoefficientForm ==
    {"to_ntt_form", "rescale", "level_down", "encrypt", "decode", "decrypt_duo",
     "add_number", "multiply_double", "multiply_integer", "rotate", "conjugate",
     "rotate_intt_form"}
InNttForm == {"to_intt_form", "multiply", "multiply_plaintext", "square",
              "decrypt_trio", "relinearize", "rotate_ntt_form"}
Sums == {"add", "add_trio_and_duo", "add_inplace", "add_plaintext",
         "add_inplace_plaintext", "subtract", "subtract_trio_by_duo",
         "subtract_duo_by_trio", "subtract_plaintext", "subtract_from_plaintext"}
OfDuos == {"decrypt_duo", "multiply", "square", "rotate", "conjugate",
           "subtract_duo_by_trio"}
OfTrios == {"decrypt_trio", "relinearize", "add_trio_and_duo",
            "subtract_trio_by_duo"}
OfEqualCounts == {"add", "add_inplace", "subtract"}
(* The core turns a plaintext to the form of the ciphertext. *)
ConvertPlaintext ==
    {"add_plaintext", "subtract_plaintext", "subtract_from_plaintext"}
NotRescaled == {"rescale", "level_down", "encrypt", "decode", "decrypt_duo",
                "decrypt_trio", "add_number", "multiply_double"}
SwitchKey == {"relinearize", "rotate", "conjugate"}

OperandsMatch(call) ==
    LET a == call.args[1]
        b == call.args[2]
    IN  /\ a.moduli_id = b.moduli_id /\ a.rescaled = b.rescaled
        /\ call.function \in Sums => a.scale = b.scale
        /\ IF call.function \in ConvertPlaintext
             THEN ~b.ntt_form ELSE a.ntt_form = b.ntt_form
        /\ call.function \in OfEqualCounts => a.polynomial_count = b.polynomial_count

Fits(call) ==
    LET function == call.function
        args == Range(call.args)
        first == call.args[1]
    IN  /\ function \in InCoefficientForm => \A a \in args : ~a.ntt_form
        /\ function \in InNttForm => \A a \in args : a.ntt_form
        /\ function \in NotRescaled => \A a \in args : ~a.rescaled
        /\ function \in OfDuos => first.polynomial_count = 2
        /\ function \in OfTrios => first.polynomial_count = 3
        /\ Len(call.args) = 2 => OperandsMatch(call)
        /\ function = "add_number" => first.scale = add_multiplier(level_(first))
        /\ function \in SwitchKey => ~(OneMoreLevel /\ first.moduli_id = 0)
        /\ call.key # NoKey => first.moduli_id >= to_moduli_id(call.key)

(* The core checks nothing.  In every call that the engine makes the texts  *)
(* have the form, the count, the moduli and the scale that the function     *)
(* computes with, and the key covers the moduli; keys are never switched    *)
(* above their own level, where a special prime is a modulus.               *)
CoreOperandsFit == \A w \in AllCalls : \A call \in w.core : Fits(call)

Usable(w, to) == ~w.refused /\ level(w, "result") = to

UsableTogether(w, sum, product) ==
    /\ Usable(sum, min_level(w))
    /\ min_level(w) > 0 /\ count(w, "x") = 2 /\ count(w, "y") < 3
         => Usable(product, min_level(w) - 1)

(* No sequence of calls leaves the caller with texts that are of no use: a  *)
(* ciphertext can always be decrypted, can be added to any other text and,  *)
(* above level 0 and of two polynomials, multiplied with it; the result is  *)
(* at the lower of the two levels, one below for a product.                 *)
TextsStayUsable ==
    \A x \in Ciphertexts :
      /\ ~decrypt(Start(x, 0), MaxLevel).refused
      /\ \A y \in Texts : UsableTogether(Start(x, y), add(Start(x, y)),
                                          multiply(Start(x, y)))

(* A call that throws has made nothing before: a requirement of an inner    *)
(* call never fails after the outer one has accepted the arguments, or the  *)
(* texts made on the way would stay behind.                                 *)
RefusedCallsMakeNothing ==
    \A w \in AllCalls : w.refused => w.obj = texts /\ w.temp = <<>>

Fresh(w) == SlotCount + 1 .. Len(w.obj)

(* Every text made in a call is returned, deleted once, or in temp_data_    *)
(* for clear_temp_data to delete: none is lost, none is deleted twice or    *)
(* used afterwards, and neither the result nor a text of the caller is      *)
(* among them.                                                              *)
HeapSound ==
    \A w \in AllCalls : ~w.refused =>
      LET pending == Range(w.temp)
      IN  /\ ~w.misuse
          /\ Cardinality(pending) = Len(w.temp) /\ pending \cap w.gone = {}
          /\ pending \cup w.gone = Fresh(w) \ {w.result}
          /\ w.result # 0 => w.result \in Fresh(w)
=============================================================================
