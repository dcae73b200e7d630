------------------------------- MODULE MCCuda -------------------------------
(***************************************************************************)
(* A caller and an autograd worker on one stream. Each application is what *)
(* the two call, in order; captures, replays, failures, close() and the    *)
(* ends of the threads come at any point.                                  *)
(***************************************************************************)
EXTENDS TorchBindings

MCThreads == {"caller", "worker"}
MCBlocks == 1..16
Calls(caller, worker) == [t \in MCThreads |-> IF t = "caller" THEN caller ELSE worker]

small == attention_public("AUTO", "float", 64, 64, 32, 32, FALSE)
large == attention_public("AUTO", "float", 128, 128, 32, 32, FALSE)
backward == mlp_backward_tensors("AUTO", "float", 256, 64, 64, 64,
                                 {"dx", "dw1", "db1", "dw2", "db2"})
fused(relu) == affine_public("AUTO", "float", 64, 64, 64, relu)
wide(alg) == matmul(alg, "float", 256, 16384, 4096, FALSE)

\* One call on its own, and the calls before and after its capture.
Single == {
  matmul("STRASSEN_THREE", "float", 1024, 1024, 1024, FALSE),
  matmul("STRASSEN_FOUR", "float", 1024, 1024, 1024, TRUE),
  matmul("AUTO", "float", 12288, 12288, 12288, FALSE),
  matmul("STRASSEN_TWO", "double", 260, 260, 260, TRUE),
  matmul("AUTO", "float", 4096, 4096, 4096, FALSE),
  matmul("AUTO", "double", 4096, 4096, 4096, FALSE),
  matmul("AUTO", "float", 64, 64, 0, TRUE),
  matmul("LT", "float", 64, 64, 64, TRUE),
  matmul("LT", "bf16", 64, 64, 64, FALSE),
  matmul("CUBLAS", "bf16", 0, 64, 64, FALSE),
  matmul_backward("CUBLAS", "float", 64, 64, 64, {"da", "db"}),
  Gram("SYMMETRIC", "float", 512, 512),
  Gemv("float", 1024, 4096),
  linear_public("STRASSEN", "float", 512, 512, 512, TRUE),
  qkv_linear_public("AUTO", "float", 64, 64, 64),
  gated_mlp_public("LT", "float", 64, 64, 64),
  silu_multiply_public, swiglu_public, quantized_matmul_public, reduce_groups_public,
  fp8_product_public(TRUE),
  QuantizedGroups_matmul,
  route_groups_public,
  rms_norm_public(TRUE),
  add_rms_norm_public,
  affine_public("CUBLAS", "float", 64, 0, 64, TRUE),
  mlp("AUTO", "float", 64, 64, 64, 64),
  attention_public("STRASSEN", "float", 256, 256, 256, 256, FALSE),
  attention_public("AUTO", "float", 1, 64, 64, 64, TRUE),
  backward,
  mlp_backward_tensors("AUTO", "float", 64, 64, 64, 64, {"db1", "dx"}),
  stats,
  matmul_host("double", 64, 64, 64, FALSE),
  mlp_host("float", 64, 64, 64, 64),
  attention_host("float", 64, 64, 64, 64)
}


\* Warm-up, capture, replay and close().
Begin == [do |-> "begin capture"]
End == [do |-> "end capture"]
Replayed == [do |-> "replay"]
Dropped == [do |-> "destroy graph"]
Closed == [do |-> "close"]
Session(o) == <<o, Begin, o, End, Replayed, Dropped, Closed>>

\* Calls in sequence on one thread.
Sequences == {
  <<small, Begin, small, End, large, Replayed, small, Dropped>>,
  <<Begin, stats, End>>,
  <<stats, Begin, backward, End>>,
  <<backward, Begin, backward, End, large, Replayed, Dropped>>,
  <<fused(FALSE), fused(TRUE), fused(FALSE)>>,
  <<matmul("STRASSEN", "float", 258, 258, 258, FALSE), small, Closed, stats>>,
  <<wide("LT"), Begin, wide("LT"), End, Replayed, Dropped>>,
  <<small, Begin, wide("LT"), End, wide("LT"), Replayed>>
}

\* Two threads.
Pairs == {
  Calls(<<stats, Closed>>, <<silu_multiply_public, stats>>),
  Calls(<<silu_multiply_public, Begin, silu_multiply_public, End, Replayed, Dropped>>,
        <<silu_multiply_public>>),
  Calls(<<silu_multiply_public>>, <<matmul_host("double", 2048, 2048, 2048, FALSE)>>)
}

MCApplications ==
  {Calls(Session(o), <<>>) : o \in Single} \cup {Calls(o, <<>>) : o \in Sequences} \cup Pairs
=============================================================================
