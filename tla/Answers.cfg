CONSTANTS
    dev = dev  met = met  mgr = mgr  bugTool = bugTool
    q1 = q1  app1 = app1  app2 = app2
    c1 = c1  c2 = c2  c3 = c3  p1 = p1  p2 = p2  w1 = w1  w2 = w2  k1 = k1  dto = dto  fig = fig  disc = disc
    log0 = log0  log1 = log1
    Domains = {dev, met}
    Metric = met
    General = mgr
    Bug = bugTool
    Questions <- MCQuestions
    Queries = {q1}
    TopK = 2
    Facts <- MCFacts
    RrfK = 60
    MinFusion = 16000
    CitationLimit = 3
    Figures = fig
    Discoveries = {disc}
    Logs = {log0, log1}
    MaxLag = 2
SPECIFICATION Spec
INVARIANTS NothingInternal NothingUnsupported ToldOnce EvidenceMatches WithinBudget AnswerRepresents
