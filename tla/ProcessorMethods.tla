-------------------------- MODULE ProcessorMethods --------------------------
(***************************************************************************)
(* The methods of the two processors, processor/parallel.cpp and           *)
(* processor/single.cpp, as the batches of kernel calls that they make.    *)
(*                                                                         *)
(* A method takes polynomials, runs a kernel on one chain after the other, *)
(* and differs from the next one in its kernel and in which chains an      *)
(* iteration reads and writes.  That is what a row of the tables says.     *)
(*                                                                         *)
(* Left out: double_to_rns, rns_to_double and extract_diagonals, one       *)
(* kernel each over buffers that are not chains of a polynomial.           *)
(***************************************************************************)
EXTENDS Naturals, Sequences

(***************************************************************************)
(* The chains an iteration touches: x->get(offset + chain_index), or, with *)
(* no offset parameter, x->get(chain_index); x->get(offset) is read by all *)
(* iterations alike.                                                       *)
(***************************************************************************)
Each     == [from |-> 0, stride |-> 1]
EachFrom == [from |-> 1, stride |-> 1]
Tile     == [from |-> 0, stride |-> 0]
TileFrom == [from |-> 1, stride |-> 0]

ChainOf(polynomial, operand, offset, index) ==
    <<polynomial, operand.from * offset + operand.stride * index>>

Row(kernel, reads, writes) ==
    [kernel |-> kernel, reads |-> reads, writes |-> writes]

-----------------------------------------------------------------------------
(***************************************************************************)
(* ParallelProcessor: the Task that each method creates per chain.         *)
(***************************************************************************)
ParallelUnits == [
    mont_enter       |-> Row("MontEnterTask", <<EachFrom>>, EachFrom),
    make_signed      |-> Row("MakeSignedTask", <<Each>>, Each),
    mont_add         |-> Row("MontAddTask", <<Each, Each>>, Each),
    mont_mult        |-> Row("MontMultTask", <<EachFrom, EachFrom>>, Each),
    reduce_2q_to_q   |-> Row("Reduce2QToQTask", <<Each>>, Each),
    add_tiled        |-> Row("MontAddTask", <<Each, Tile>>, Each),
    sub_tiled        |-> Row("MontSubtractTask", <<EachFrom, Tile>>, EachFrom),
    get_rounder      |-> Row("GetRounderTask", <<TileFrom>>, Tile)]

ParallelTiled == [
    mont_enter_tiled |-> Row("MontEnterTask", <<TileFrom>>, EachFrom),
    mont_enter_tiled_add |->
        Row("MontEnterAddTask", <<TileFrom>>, EachFrom),
    mont_enter_tiled_add_reduce_2q_to_q |->
        Row("MontEnterAddReduce2QToQTask", <<TileFrom>>, EachFrom),
    mont_mult_add    |-> Row("MontMultAddTask", <<EachFrom, EachFrom>>, Each),
    mont_sub_enter_reduce_2q_to_q |->
        Row("MontSubEnterReduce2QToQTask", <<EachFrom, EachFrom>>, EachFrom),
    mont_sub_tiled_enter |->
        Row("MontSubEnterTask", <<EachFrom, TileFrom>>, EachFrom),
    mont_enter_exit  |-> Row("MontEnterExitTask", <<Each>>, Each)]

ParallelReduced == [
    mont_enter_exit_reduce_2q_to_q |->
        Row("MontEnterExitReduce2QToQTask", <<Each>>, Each),
    mont_add_reduce_2q_to_q |->
        Row("MontAddReduce2QToQTask", <<EachFrom, EachFrom>>, EachFrom),
    mont_sub_reduce_2q_to_q |->
        Row("MontSubReduce2QToQTask", <<Each, Each>>, Each),
    make_unsigned_reduce_2q_to_q |->
        Row("MakeUnsignedReduce2QToQTask", <<Each>>, Each),
    tile_unsigned_reduce_2q_to_q |->
        Row("MakeUnsignedReduce2QToQTask", <<TileFrom>>, EachFrom),
    negate_make_unsigned |-> Row("NegateMakeUnsignedTask", <<Each>>, Each),
    concatenate_tile_unsigned |->
        Row("ConcatenateMakeUnsignedTask", <<Tile, Tile>>, Each)]

ParallelCopies == [
    ntt              |-> Row("NttTask", <<EachFrom>>, EachFrom),
    intt             |-> Row("InttTask", <<EachFrom>>, EachFrom),
    zero_fill        |-> Row("ZeroFillTask", <<>>, EachFrom),
    copy             |-> Row("CopyTask", <<EachFrom>>, EachFrom),
    copy_to_polynomial    |-> Row("CopyTask", <<Each>>, Each),
    compress_polynomial   |-> Row("CompressPolynomialTask", <<Each>>, Each),
    decompress_polynomial |-> Row("DecompressPolynomialTask", <<Each>>, Each),
    round            |-> Row("RoundTask", <<Each>>, Each),
    max_absolute     |-> Row("MaxAbsoluteTask", <<Tile>>, Tile)]

ParallelCodec == [
    cast_int64_to_double |-> Row("CastInt64ToDoubleTask", <<Each>>, Each),
    rotate_polynomial    |-> Row("RotatePolynomialTask", <<Each>>, Each),
    permute_polynomial   |-> Row("PermutePolynomialTask", <<Each>>, Each),
    add_scalar       |-> Row("AddScalarTask", <<Each>>, Each),
    apply_skewer     |-> Row("ApplySkewerTask", <<Tile>>, Tile),
    fft              |-> Row("FftTask", <<Tile>>, Tile),
    ifft             |-> Row("FftTask", <<Tile>>, Tile)]

(* The row of a method, from the group of rows that has it. *)
RowOf(groups, method) ==
    LET g == CHOOSE k \in DOMAIN groups : method \in DOMAIN groups[k]
    IN  groups[g][method]

ParallelRow(method) ==
    RowOf(<<ParallelUnits, ParallelTiled, ParallelReduced, ParallelCopies,
            ParallelCodec>>, method)

Method == DOMAIN ParallelUnits \union DOMAIN ParallelTiled
    \union DOMAIN ParallelReduced \union DOMAIN ParallelCopies
    \union DOMAIN ParallelCodec

(***************************************************************************)
(* process() of every Task: the function that it applies to its sources    *)
(* and its destination.                                                    *)
(***************************************************************************)
ProcessUnits == [
    MontEnterTask    |-> "mont_enter",
    MakeSignedTask   |-> "make_signed",
    MontAddTask      |-> "mont_add",
    MontMultTask     |-> "mont_mult",
    Reduce2QToQTask  |-> "reduce_2q_to_q",
    MontSubtractTask |-> "mont_subtract",
    GetRounderTask   |-> "get_rounder",
    MontEnterAddTask |-> "mont_enter_add",
    MontEnterAddReduce2QToQTask  |-> "mont_enter_add_reduce_2q_to_q",
    MontMultAddTask  |-> "mont_mult_add",
    MontSubEnterReduce2QToQTask  |-> "mont_sub_enter_reduce_2q_to_q",
    MontSubEnterTask |-> "mont_sub_enter",
    MontEnterExitTask |-> "mont_enter_exit",
    MontEnterExitReduce2QToQTask |-> "mont_enter_exit_reduce_2q_to_q",
    MontAddReduce2QToQTask       |-> "mont_add_reduce_2q_to_q",
    MontSubReduce2QToQTask       |-> "mont_sub_reduce_2q_to_q",
    MakeUnsignedReduce2QToQTask  |-> "make_unsigned_reduce_2q_to_q",
    NegateMakeUnsignedTask       |-> "negate_make_unsigned",
    ConcatenateMakeUnsignedTask  |-> "concatenate_make_unsigned"]

ProcessCodec == [
    NttTask          |-> "ntt",
    InttTask         |-> "intt",
    RotatePolynomialTask  |-> "rotate_polynomial",
    PermutePolynomialTask |-> "permute_polynomial",
    AddScalarTask    |-> "add_scalar",
    CopyTask         |-> "memcpy",
    ZeroFillTask     |-> "fill",
    CompressPolynomialTask   |-> "compress_polynomial",
    DecompressPolynomialTask |-> "decompress_polynomial",
    RoundTask        |-> "llround",
    MaxAbsoluteTask  |-> "max_element",
    CastInt64ToDoubleTask    |-> "cast",
    ApplySkewerTask  |-> "apply_skewer",
    FftTask          |-> "fft"]

Process(task) ==
    IF task \in DOMAIN ProcessUnits THEN ProcessUnits[task]
                                    ELSE ProcessCodec[task]

(* Functions that add to the chain they write: they read it as well. *)
UpdatesDestination ==
    {"mont_enter_add", "mont_enter_add_reduce_2q_to_q", "mont_mult_add"}

-----------------------------------------------------------------------------
(***************************************************************************)
(* SingleProcessor: the function that each method calls per chain.         *)
(***************************************************************************)
SingleUnits == [
    mont_enter       |-> Row("mont_enter", <<EachFrom>>, EachFrom),
    make_signed      |-> Row("make_signed", <<Each>>, Each),
    mont_add         |-> Row("mont_add", <<Each, Each>>, Each),
    mont_mult        |-> Row("mont_mult", <<EachFrom, EachFrom>>, Each),
    reduce_2q_to_q   |-> Row("reduce_2q_to_q", <<Each>>, Each),
    add_tiled        |-> Row("mont_add", <<Each, Tile>>, Each),
    sub_tiled        |-> Row("mont_subtract", <<EachFrom, Tile>>, EachFrom),
    get_rounder      |-> Row("get_rounder", <<TileFrom>>, Tile)]

SingleTiled == [
    mont_enter_tiled |-> Row("mont_enter", <<TileFrom>>, EachFrom),
    mont_enter_tiled_add |->
        Row("mont_enter_add", <<TileFrom>>, EachFrom),
    mont_enter_tiled_add_reduce_2q_to_q |->
        Row("mont_enter_add_reduce_2q_to_q", <<TileFrom>>, EachFrom),
    mont_mult_add    |-> Row("mont_mult_add", <<EachFrom, EachFrom>>, Each),
    mont_sub_enter_reduce_2q_to_q |->
        Row("mont_sub_enter_reduce_2q_to_q", <<EachFrom, EachFrom>>, EachFrom),
    mont_sub_tiled_enter |->
        Row("mont_sub_enter", <<EachFrom, TileFrom>>, EachFrom),
    mont_enter_exit  |-> Row("mont_enter_exit", <<Each>>, Each)]

SingleReduced == [
    mont_enter_exit_reduce_2q_to_q |->
        Row("mont_enter_exit_reduce_2q_to_q", <<Each>>, Each),
    mont_add_reduce_2q_to_q |->
        Row("mont_add_reduce_2q_to_q", <<EachFrom, EachFrom>>, EachFrom),
    mont_sub_reduce_2q_to_q |->
        Row("mont_sub_reduce_2q_to_q", <<Each, Each>>, Each),
    make_unsigned_reduce_2q_to_q |->
        Row("make_unsigned_reduce_2q_to_q", <<Each>>, Each),
    tile_unsigned_reduce_2q_to_q |->
        Row("make_unsigned_reduce_2q_to_q", <<TileFrom>>, EachFrom),
    negate_make_unsigned |-> Row("negate_make_unsigned", <<Each>>, Each),
    concatenate_tile_unsigned |->
        Row("concatenate_make_unsigned", <<Tile, Tile>>, Each)]

SingleCodec == [
    apply_skewer     |-> Row("apply_skewer", <<Tile>>, Tile),
    fft              |-> Row("fft", <<Tile>>, Tile),
    ifft             |-> Row("fft", <<Tile>>, Tile)]

SingleCopies == [
    ntt              |-> Row("ntt", <<EachFrom>>, EachFrom),
    intt             |-> Row("intt", <<EachFrom>>, EachFrom),
    rotate_polynomial     |-> Row("rotate_polynomial", <<Each>>, Each),
    permute_polynomial    |-> Row("permute_polynomial", <<Each>>, Each),
    add_scalar       |-> Row("add_scalar", <<Each>>, Each),
    zero_fill        |-> Row("fill", <<>>, EachFrom),
    copy             |-> Row("memcpy", <<EachFrom>>, EachFrom),
    decompress_polynomial |-> Row("decompress_polynomial", <<Each>>, Each),
    compress_polynomial   |-> Row("compress_polynomial", <<Each>>, Each),
    copy_to_polynomial    |-> Row("memcpy", <<Each>>, Each),
    round            |-> Row("llround", <<Each>>, Each),
    max_absolute     |-> Row("max_element", <<Tile>>, Tile),
    cast_int64_to_double  |-> Row("cast", <<Each>>, Each)]

SingleRow(method) ==
    RowOf(<<SingleUnits, SingleTiled, SingleReduced, SingleCodec,
            SingleCopies>>, method)

-----------------------------------------------------------------------------
(***************************************************************************)
(* A call gives a method its polynomials, the offset of each, and the      *)
(* number of chains; a method that writes a single chain ignores that.     *)
(***************************************************************************)
Iterations(row, call) == IF row.writes.stride = 0 THEN 1 ELSE call.count

(* The kernel of one iteration, on the chains that it touches. *)
KernelTask(row, function, call, index) ==
    LET destination == ChainOf(call.y, row.writes, call.yOffset, index)
        reads == [k \in DOMAIN row.reads |->
                    ChainOf(call.x[k], row.reads[k], call.xOffset[k], index)]
    IN  [kernel |-> <<function, index>>,
         sources |-> IF function \in UpdatesDestination
                       THEN Append(reads, destination) ELSE reads,
         destination |-> destination]

(* The tasks that a method of ParallelProcessor hands to register_compute. *)
ParallelTasks(call) ==
    LET row == ParallelRow(call.method)
    IN  [i \in 1 .. Iterations(row, call) |->
            KernelTask(row, Process(row.kernel), call, i - 1)]

(* Variant: the offset of the destination is forgotten. *)
SingleTaskNoOffset(call, index) ==
    LET row == SingleRow(call.method)
    IN  KernelTask(row, row.kernel, [call EXCEPT !.yOffset = 0], index)

(* The function call of one iteration of a SingleProcessor method. *)
SingleTask(call, index) ==
    LET row == SingleRow(call.method)
    IN  KernelTask(row, row.kernel, call, index)

SingleIterations(call) == Iterations(SingleRow(call.method), call)
=============================================================================
