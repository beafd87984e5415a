------------------------------ MODULE ModelBundle ------------------------------
(***************************************************************************)
(* What a model bundle must be to be imported (services/model_validation.  *)
(* py, domain/model_bundle.py), to be run by the inference worker          *)
(* (inference/onnx_worker.py) and to be sliced for (inference/sahi.py).    *)
(*                                                                         *)
(* The documents of a bundle are one file, the numbers and names in them   *)
(* fields of its record; "damaged" are the files whose content is not the  *)
(* one checksums.json names.  The ONNX checker is external: it passes.     *)
(***************************************************************************)
EXTENDS Naturals, FiniteSets

Required == {"model", "documents"}   \* REQUIRED_ROOT_FILES
Vectors == {"vector 1", "vector 2"}  \* below test_vectors/
Dynamic == 0                         \* a batch dimension that has a name

(* The files and their checksums.                                          *)
Complete(bundle) ==
    /\ Required \subseteq bundle.files
    /\ Vectors \cap bundle.files # {}
    /\ bundle.listed = bundle.files
    /\ bundle.damaged \cap bundle.listed = {}

(* ValidationResultsManifest, and the test vectors it names.               *)
Evidenced(bundle) == bundle.evidence # {} /\ bundle.evidence \subseteq Vectors \cap bundle.files

(* A bundle whose documents are not compared with each other.              *)
Bug_Consistent(bundle) == bundle.decoded = bundle.outputs

(* Preprocessing feeds the input, postprocessing reads every output.       *)
Consistent(bundle) ==
    /\ bundle.prepared = bundle.element
    /\ bundle.decoded = bundle.outputs

(* _validate_onnx: inputs, outputs and operator set are the manifest's.    *)
DescribesGraph(bundle) == bundle.graph = "as in the manifest"

(* validate_model_bundle.                                                  *)
Imported(bundle) ==
    Complete(bundle) /\ Evidenced(bundle) /\ Consistent(bundle) /\ DescribesGraph(bundle)

(* OnnxWorkerConfiguration.                                                *)
WorkerConfigured(bundle, maximum) ==
    /\ bundle.inputs = 1
    /\ bundle.element = "float16"
    /\ bundle.channels = 3
    /\ bundle.batch # Dynamic => bundle.batch = maximum
    /\ maximum \in bundle.validated

(* SahiExecutionConfiguration.                                             *)
SlicingConfigured(bundle, size) ==
    /\ bundle.overlap = "half"
    /\ size \in bundle.validated
    /\ bundle.prepared = "float16"

(* iter_sahi_batches: the sizes of the batches of a frame.                 *)
BatchSizes(windows, size) ==
    [i \in 1..((windows + size - 1) \div size) |->
        IF i * size <= windows THEN size ELSE windows % size]

(* _validate_input: the bound, and a static dimension to the letter.       *)
AcceptsBatch(bundle, maximum, n) ==
    /\ n \in 1..maximum
    /\ bundle.batch # Dynamic => n = bundle.batch

-------------------------------------------------------------------------------
(* A bundle that was imported and suits the worker can be sliced for with  *)
(* the same batch size, given the overlap, and the other way round; each   *)
(* batch of each frame is then accepted, but for one: the short last batch *)
(* of a frame, when the model fixes the size of its batches.               *)
Runs(bundle, size, windows) ==
    LET worker == WorkerConfigured(bundle, size)
        sizes == BatchSizes(windows, size)
        refused == {i \in DOMAIN sizes : ~AcceptsBatch(bundle, size, sizes[i])}
    IN  Imported(bundle) =>
        /\ worker /\ bundle.overlap = "half" => SlicingConfigured(bundle, size)
        /\ SlicingConfigured(bundle, size) /\ bundle.inputs = 1 /\ bundle.channels = 3 =>
              (worker <=> bundle.batch \in {Dynamic, size})
        /\ worker => /\ refused = {i \in DOMAIN sizes : bundle.batch # Dynamic /\ i * size > windows}
                     /\ Cardinality(refused) <= 1
===============================================================================
