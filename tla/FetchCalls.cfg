CONSTANTS
    pipeline = pipeline
    run = run
    c1 = c1
    c2 = c2
    workflowRun = workflowRun
    Urls <- MCUrls
    Calls <- MCCalls
    Classes <- MCClasses
    ClassesOf <- MCClassesOf
    MaxVersion = 1
SPECIFICATION FairSpec
CHECK_DEADLOCK FALSE
INVARIANTS NeverCached IndicatorBalanced BarHonest
PROPERTIES MonotoneAnswers CallsSettle BarTakenDown
