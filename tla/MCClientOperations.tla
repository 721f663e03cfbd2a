-------------------------- MODULE MCClientOperations --------------------------
(* Instances of ClientOperations for TLC.                                  *)
EXTENDS ClientOperations

\* The retries of a runner: none, one, or until it succeeds.
Retried(o) == {o, WithRetry(o, 1)}

\* Every runner; those that create or delete several things get two.
AllOperations ==
    {BulkIndex("d"), WithRetry(BulkVectorDataSet("d"), 1), ForceMerge("j", TRUE),
     ForceMerge("j", FALSE), NodeStats, Sleep, RawRequest("a"), CreateSnapshot("j"),
     RestoreSnapshot("j"), ProduceStreamMessage("m"), Asserted(IndicesStats("a")),
     UntilSuccess(ClusterHealth("j")), WithRetry(DeleteKnnModel("k", FALSE), 1)}
    \union UNION {Retried(o) : o \in
        {CreateIndex(<<"a", "b">>), DeleteIndex(<<"a", "b">>, TRUE), DeleteIndex(<<"a">>, FALSE),
         CreateDataStream(<<"b">>), DeleteDataStream(<<"b">>, FALSE), DeleteDataStream(<<"a", "b">>, TRUE),
         CreateIndexTemplate(<<"a">>), DeleteIndexTemplate("a", TRUE), ShrinkIndex("j", "b"),
         TrainKnnModel("j"), RegisterMlModel("j"), WaitForTransform("j"), WaitForSnapshotCreate("j"),
         IndicesRecovery("j")}}
    \union
        {CreateComponentTemplate(<<"a", "b">>), DeleteComponentTemplate(<<"a">>, FALSE),
         CreateComposableTemplate(<<"a">>), DeleteComposableTemplate("a", FALSE),
         PutPipeline("p"), DeletePipeline("p"), CreateSearchPipeline("p"), Refresh("a"),
         CreateSnapshotRepository("r"), DeleteSnapshotRepository("r"), PutSettings("s"),
         UpdateConcurrentSegmentSearchSettings, CreateTransform("t"), StartTransform("j"),
         DeleteTransform("t"), DeleteKnnModel("k", TRUE), CreateMlConnector("c"),
         DeleteMlConnector("c"), RegisterRemoteMlModel("j"), DeleteMlModel("j"), DeployMlModel("j")}

\* A point in time is created, two streams use it, one of them with nested
\* streams, and it is deleted; the second composite holds a type of operation
\* that is not supported, and the third two streams and nothing else.
SomeStreams == {"top", "s1", "s2", "s3", "s4"}

NestedComposite ==
    [top |-> <<Op("create-point-in-time", "pit"), Sub("s1"), Sub("s2"), Op("delete-point-in-time", "pit")>>,
     s1 |-> <<Sub("s3"), Sub("s4")>>,
     s2 |-> <<Op("submit-async-search", "async"), Op("get-async-search", "async")>>,
     s3 |-> <<Op("paginated-search", "pit")>>,
     s4 |-> <<Op("raw-request", "none")>>]

SomeComposites ==
    {NestedComposite,
     [NestedComposite EXCEPT !.s2 = <<Op("get-async-search", "async")>>, !.s4 = <<Op("bulk", "none")>>],
     [NestedComposite EXCEPT !.top = <<Sub("s3"), Sub("s4")>>, !.s1 = <<>>]}

\* Totals below, at and above multiples of the page size, limited or not.
SomeSearches ==
    [kind : {"paginated-search", "scroll-search"}, hits : 0..5, size : {2, 3}, pages : {0, 1, 2}]

\* Four or five vectors of which all or three are used; nested ones of three
\* parents, the first of them larger than a bulk.
VectorTask(kind, clients, num_vectors, size) ==
    [kind |-> kind, clients |-> clients, cores |-> 2, num_vectors |-> num_vectors, size |-> size,
     bulk_size |-> 2, nested |-> FALSE, parents |-> <<>>, repetitions |-> 1]

Nested(clients, bulk_size, parents) ==
    [VectorTask("index", clients, -1, 7) EXCEPT
        !.bulk_size = bulk_size, !.nested = TRUE, !.parents = [v \in 0..6 |-> parents[v + 1]]]

SomeVectorTasks ==
    {VectorTask("index", c, n, 5) : c \in 1..3, n \in {-1, 3}}
    \union {Nested(c, b, p) : c \in 1..2, b \in 1..3,
              p \in {<<1, 1, 1, 2, 2, 3, 3>>, <<1, 2, 2, 2, 2, 2, 3>>, <<1, 1, 2, 3, 4, 4, 4>>}}
    \union {[VectorTask("search", c, n, 4) EXCEPT !.repetitions = r] :
              c \in 1..2, n \in {-1, 1}, r \in 1..2}

===============================================================================
