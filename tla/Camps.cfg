SPECIFICATION Spec
CHECK_DEADLOCK FALSE
CONSTANTS
    c1 = c1
    c2 = c2
    c3 = c3
    None = None
    desk = desk
    other = other
    phone = phone
    stock1 = stock1
    stock2 = stock2
    save1 = save1
    save2 = save2
    theirs = theirs
    remove = remove
    deploy = deploy
    Ids = {c1, c2, c3}
    Given = {c1}
    CampOf <- NewCamp
    Desks = {desk, other}
    Phones = {phone}
    Ops = {stock1, stock2, save1, save2, theirs, remove, deploy}
    KindOf <- Kind
    DeskOf <- AtDesk
    Plans <- Scenarios
INVARIANTS
    TypeOK
    PagesFollow
PROPERTY SaveUndoesOnlyUnseen
