CONSTANTS
    Relations <- SmallRelations
    Queries <- SmallQueries
    Modulus = 16
SPECIFICATION Spec
INVARIANTS
    TreesFollowGraph
    ColumnsResolve
    AnswerExact
