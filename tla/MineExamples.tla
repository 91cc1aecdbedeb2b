---------------------------- MODULE MineExamples -----------------------------
(* A directory for qa mine, with a file of decisions, a repository and two *)
(* transcripts, and what each of them may hold.                            *)
CONSTANT Nothing \* no excerpt, no diagnosis

Decision(title, excerpt, diagnosis) ==
    [failure |-> TRUE, title |-> title, excerpt |-> excerpt, diagnosis |-> diagnosis]
Commit(fix, subject) == [fix |-> fix, subject |-> subject, hash |-> "5d91d"]
Line(kind, name) == [kind |-> kind, name |-> name]

Of(kind, held) == [kind |-> kind, texts |-> held]
SmallArchive ==
    [adr |-> Of("decisions", {<<Decision("test", "enoent", "cause"), Decision("test", "enoent", "more")>>,
                              <<Decision("test", Nothing, "cause"), Decision("other", "enoent", Nothing)>>}),
     git |-> Of("git", {<<Commit(TRUE, "test"), Commit(FALSE, "other")>>}),
     txt |-> Of("transcripts", {<<Line("test", "test"), Line("fail", "enoent"), Line("fail", "bom")>>,
                                <<Line("test", "test"), Line("ran", "1"), Line("fail", "enoent")>>}),
     log |-> Of("transcripts", {<<Line("ran", "1"), Line("test", "test"), Line("fail", "enoent")>>})]
SomeErrors == {"enoent", "bom", "test", "5d91d"}
==============================================================================
