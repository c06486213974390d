CONSTANTS
    c1 = c1
    t1 = t1
    r1 = r1
    ToolCall = {c1}
    Tab = {t1}
    Action = {r1}
    Contents = {0, 1}
SPECIFICATION AssistantSpec
INVARIANT NeverBoth
